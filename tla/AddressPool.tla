------------------------------ MODULE AddressPool ------------------------------
(***************************************************************************)
(* The dedicated addresses of ONE node: the entries of its pool            *)
(* (internal/service/ippool.go) and the operations that take, change and   *)
(* give back an address: CreateInstance, ConfigureInstanceNetwork,         *)
(* MigrateInstance towards the node and away from it, PurgeInstance.       *)
(*                                                                         *)
(* Nothing locks the pool as a whole.  A handler reads that an address is  *)
(* free, asks the node over HTTP, and writes later; transactions and       *)
(* conditional updates are single steps.  The operations of one instance   *)
(* exclude each other by its fence (OperationFence), those of two          *)
(* instances and the edits of administrators interleave freely.            *)
(*                                                                         *)
(* A call to the node is carried out before it is answered or given up.    *)
(***************************************************************************)
EXTENDS Naturals, FiniteSets

CONSTANTS
    Instance,   \* ids of instances, each created once at most
    Address,    \* the addresses that exist on the node's network
    NoAddress,  \* a network without a dedicated address
    NoOwner,
    Admin,      \* requests that edit the pool at the same time
    MaxByHand,  \* bound: instances whose callers type addresses in
    ReadFails,  \* TRUE: the read that ends a migration may fail
    PoolCap,    \* maxIPPoolEntriesPerAgent
    MaxEntry    \* bound: entries ever added

ASSUME AddressPoolAssumption ==
    /\ NoAddress \notin Address
    /\ {"none", "away", "purged"} \cap (Address \cup {NoAddress}) = {}   \* marks, not addresses
    /\ NoOwner \notin Instance
    /\ MaxByHand \in Nat
    /\ ReadFails \in BOOLEAN
    /\ PoolCap \in Nat
    /\ MaxEntry \in Nat

VARIABLES
    entries,  \* ip_pool_entries by id
    issued,   \* the last id given
    row,      \* the address in the instance's row, if the row is on this node
    guest,    \* the address the node gave the instance's guest
    op,       \* the operation that holds the instance's fence
    edit,     \* the requests of administrators
    typed     \* history: instances that were given an address by hand

vars == <<entries, issued, row, guest, op, edit, typed>>

EntryId == 1..MaxEntry
NoEntry == 0
Absent == [ip |-> NoAddress, status |-> "absent", owner |-> NoOwner]
Entry == [ip : Address, status : {"free", "assigned", "disabled"}, owner : Instance \cup {NoOwner}]
Network == Address \cup {NoAddress}

Step == {"idle", "create_check", "create_reserve", "create_call",
         "configure_call", "configure_store", "purge_call", "purge_release",
         "out_switch", "out_delete", "out_release",
         "in_check", "in_reserve", "in_import", "in_switch", "in_finish", "in_undo", "in_release", "kept"}
Operation == [step : Step, way : {"none", "auto", "pick", "typed"}, ip : Network, entry : EntryId \cup {NoEntry}]
Request == [step : {"idle", "check", "write", "insert", "delete"}, want : {"none", "free", "disabled", "note"},
            entry : EntryId \cup {NoEntry}, seen : Entry \cup {Absent}]
Idle == [step |-> "idle", way |-> "none", ip |-> NoAddress, entry |-> NoEntry]
EditIdle == [step |-> "idle", want |-> "none", entry |-> NoEntry, seen |-> Absent]

TypeOK ==
    /\ entries \in [EntryId -> Entry \cup {Absent}]
    /\ issued \in 0..MaxEntry
    /\ row \in [Instance -> Network \cup {"none", "away", "purged"}]
    /\ guest \in [Instance -> Network \cup {"none"}]
    /\ op \in [Instance -> Operation]
    /\ edit \in [Admin -> Request]
    /\ typed \subseteq Instance

\* An empty node; some instances live on another one.
Init ==
    /\ entries = [e \in EntryId |-> Absent]
    /\ issued = 0
    /\ row \in [Instance -> {"none", "away"}]
    /\ guest = [i \in Instance |-> "none"]
    /\ op = [i \in Instance |-> Idle]
    /\ edit = [a \in Admin |-> EditIdle]
    /\ typed = {}

-----------------------------------------------------------------------------
(* Helpers *)

At(i, s) == op[i].step = s
Moves(i, s, w, a, e) == op' = [op EXCEPT ![i] = [step |-> s, way |-> w, ip |-> a, entry |-> e]]
Go(i, s) == Moves(i, s, op[i].way, op[i].ip, op[i].entry)
Ends(i) == Moves(i, "idle", "none", NoAddress, NoEntry)
Keeps(i) == Moves(i, "kept", "none", NoAddress, NoEntry)   \* the fence, for the operator
Asks(a, s, w, e, n) == edit' = [edit EXCEPT ![a] = [step |-> s, want |-> w, entry |-> e, seen |-> n]]
Answered(a) == Asks(a, "idle", "none", NoEntry, Absent)
Here(i) == row[i] \in Network
Owned(i) == {e \in EntryId : entries[e].owner = i}
Exists(i) == row[i] \in Network \cup {"away"}
MayType(i) == i \in typed \/ Cardinality(typed) < MaxByHand

\* Slip: the update only asks for the status that was read before.
TakeableAsRead == {e \in EntryId : entries[e].status \in {"free", "assigned"}}

\* Slip: the update only asks that nobody owns the entry.
TakeableIfUnowned == {e \in EntryId : entries[e] # Absent /\ entries[e].owner = NoOwner}

\* The entries that a conditional update can take.
Takeable == {e \in EntryId : entries[e].status = "free" /\ entries[e].owner = NoOwner}

\* dedicatedIPTaken: another instance's row or reservation has the address.
DedicatedIPTaken(a, i) ==
    \/ \E j \in Instance \ {i} : row[j] = a
    \/ \E e \in EntryId : /\ entries[e].ip = a /\ entries[e].status = "assigned"
                          /\ entries[e].owner \notin {NoOwner, i}

\* The update of assignPoolEntry and of the migration's transaction, for an
\* entry it can take.
AssignPoolEntry(e, i) ==
    entries' = [entries EXCEPT ![e] = [@ EXCEPT !.status = "assigned", !.owner = i]]

\* UPDATE ... SET status = 'free', instance_id = NULL for a set of entries.
Release(E) ==
    entries' = [e \in EntryId |-> IF e \in E THEN [entries[e] EXCEPT !.status = "free", !.owner = NoOwner]
                                             ELSE entries[e]]

\* What the node is left with by a call that should give guest i address a.
Carried(i, a, ok) ==
    IF ok THEN guest' = [guest EXCEPT ![i] = a]
          ELSE guest' \in {guest, [guest EXCEPT ![i] = a]}

-----------------------------------------------------------------------------
(* CreateInstance *)

\* A caller leaves the choice to the pool, picks a free entry, types an address
\* or wants none.
CreateStart(i) ==
    /\ row[i] = "none" /\ At(i, "idle")
    /\ \/ Moves(i, "create_reserve", "auto", NoAddress, NoEntry)
       \/ \E e \in EntryId :
            /\ entries[e].status = "free"
            /\ Moves(i, "create_check", "pick", entries[e].ip, e)
       \/ \E a \in Network :
            /\ a # NoAddress => MayType(i)
            /\ Moves(i, IF a = NoAddress THEN "create_reserve" ELSE "create_check", "typed", a, NoEntry)
    /\ UNCHANGED <<entries, issued, row, guest, edit, typed>>

\* After the node told its own addresses: is the address taken?
CreateCheck(i) ==
    /\ At(i, "create_check")
    /\ IF DedicatedIPTaken(op[i].ip, i) THEN Ends(i) ELSE Go(i, "create_reserve")
    /\ UNCHANGED <<entries, issued, row, guest, edit, typed>>

\* The entry an automatic choice falls on: the free one with the least id.
FirstFree(e) == e \in Takeable /\ \A f \in Takeable : e <= f

\* The transaction that inserts the row and assigns the entry.
CreateReserve(i) ==
    /\ At(i, "create_reserve")
    /\ \/ \E e \in Takeable :
            /\ \/ op[i].way = "pick" /\ e = op[i].entry
               \/ op[i].way = "auto" /\ FirstFree(e) /\ ~DedicatedIPTaken(entries[e].ip, i)
            /\ AssignPoolEntry(e, i)
            /\ row' = [row EXCEPT ![i] = entries[e].ip]
            /\ Moves(i, "create_call", "none", entries[e].ip, NoEntry)
            /\ UNCHANGED typed
       \/ /\ op[i].way = "typed"
          /\ op[i].ip # NoAddress => MayType(i)
          /\ row' = [row EXCEPT ![i] = op[i].ip]
          /\ typed' = IF op[i].ip = NoAddress THEN typed ELSE typed \cup {i}
          /\ Moves(i, "create_call", "none", op[i].ip, NoEntry)
          /\ UNCHANGED entries
    /\ UNCHANGED <<issued, guest, edit>>

\* The transaction is refused or fails, and nothing of it stays.
CreateRefused(i) ==
    /\ At(i, "create_reserve")
    /\ Ends(i)
    /\ UNCHANGED <<entries, issued, row, guest, edit, typed>>

\* The node makes the guest.  When the call fails the row and its reservation
\* stay, with or without a guest.
CreateCall(i) ==
    /\ At(i, "create_call")
    /\ \E ok \in BOOLEAN : Carried(i, op[i].ip, ok)
    /\ Ends(i)
    /\ UNCHANGED <<entries, issued, row, edit, typed>>

-----------------------------------------------------------------------------
(* ConfigureInstanceNetwork *)

\* Another address, none, or the present one again.  In dedicated mode the
\* address must be free, the instance's own address and entries left out; in
\* another mode it is not looked at.
ConfigureStart(i) ==
    /\ Here(i) /\ guest[i] # "none" /\ At(i, "idle")
    /\ \E a \in IF MayType(i) THEN Network ELSE {row[i], NoAddress}, dedicated \in BOOLEAN :
         /\ dedicated /\ a # NoAddress => ~DedicatedIPTaken(a, i)
         /\ Moves(i, "configure_call", "none", a, NoEntry)
         /\ typed' = IF a \in {NoAddress, row[i]} THEN typed ELSE typed \cup {i}
    /\ UNCHANGED <<entries, issued, row, guest, edit>>

\* The node changes the guest's address; a failed call may have done so too.
ConfigureCall(i) ==
    /\ At(i, "configure_call")
    /\ \E ok \in BOOLEAN :
         /\ Carried(i, op[i].ip, ok)
         /\ IF ok THEN Go(i, "configure_store") ELSE Ends(i)
    /\ UNCHANGED <<entries, issued, row, edit, typed>>

\* The row takes the new network, or the update fails.
ConfigureStore(i) ==
    /\ At(i, "configure_store")
    /\ row' \in {row, [row EXCEPT ![i] = op[i].ip]}
    /\ Ends(i)
    /\ UNCHANGED <<entries, issued, guest, edit, typed>>

-----------------------------------------------------------------------------
(* PurgeInstance *)

PurgeStart(i) ==
    /\ Exists(i) /\ At(i, "idle")
    /\ Go(i, "purge_call")
    /\ UNCHANGED <<entries, issued, row, guest, edit, typed>>

\* The node of the row deletes the guest; a failed call may have done so too.
PurgeCall(i) ==
    /\ At(i, "purge_call")
    /\ \E ok \in BOOLEAN :
         /\ IF Here(i) THEN Carried(i, "none", ok) ELSE UNCHANGED guest
         /\ IF ok THEN Go(i, "purge_release") ELSE Ends(i)
    /\ UNCHANGED <<entries, issued, row, edit, typed>>

\* Slip: only the row is deleted.
PurgeRowOnly(i) ==
    /\ At(i, "purge_release")
    /\ row' \in {row, [row EXCEPT ![i] = "purged"]}
    /\ Ends(i)
    /\ UNCHANGED <<entries, issued, guest, edit, typed>>

\* The last transaction frees all entries of the instance and deletes its row.
PurgeRelease(i) ==
    /\ At(i, "purge_release")
    /\ \/ /\ Release(Owned(i))
          /\ row' = [row EXCEPT ![i] = "purged"]
       \/ UNCHANGED <<entries, row>>
    /\ Ends(i)
    /\ UNCHANGED <<issued, guest, edit, typed>>

-----------------------------------------------------------------------------
(* MigrateInstance, as far as this node's addresses go *)

\* Away from this node: the target holds a copy and the row is switched.
OutStart(i) ==
    /\ Here(i) /\ guest[i] # "none" /\ At(i, "idle")
    /\ Go(i, "out_switch")
    /\ UNCHANGED <<entries, issued, row, guest, edit, typed>>

\* Slip: the entries are given back with the switch, before the guest is gone.
OutSwitchReleasing(i) ==
    /\ At(i, "out_switch")
    /\ \/ Go(i, "out_delete") /\ row' = [row EXCEPT ![i] = "away"] /\ Release(Owned(i))
       \/ Ends(i) /\ UNCHANGED <<row, entries>>
    /\ UNCHANGED <<issued, guest, edit, typed>>

OutSwitch(i) ==
    /\ At(i, "out_switch")
    /\ \/ Go(i, "out_delete") /\ row' = [row EXCEPT ![i] = "away"]
       \/ Ends(i) /\ UNCHANGED row
    /\ UNCHANGED <<entries, issued, guest, edit, typed>>

\* The source guest goes last; without an answer everything is kept.
OutDelete(i) ==
    /\ At(i, "out_delete")
    /\ \E ok \in BOOLEAN :
         /\ Carried(i, "none", ok)
         /\ IF ok THEN Go(i, "out_release") ELSE Keeps(i)
    /\ UNCHANGED <<entries, issued, row, edit, typed>>

\* releaseMigrationReservations(switched): all its entries on this node; the
\* archive may then fail to be removed.
OutRelease(i) ==
    /\ At(i, "out_release")
    /\ \/ Release(Owned(i)) /\ (Ends(i) \/ Keeps(i))
       \/ Keeps(i) /\ UNCHANGED entries
    /\ UNCHANGED <<issued, row, guest, edit, typed>>

\* Towards this node, to an address of its pool.
InStart(i) ==
    /\ row[i] = "away" /\ guest[i] = "none" /\ At(i, "idle")
    /\ \E e \in EntryId :
         /\ entries[e].status = "free"
         /\ Moves(i, "in_check", "none", entries[e].ip, e)
    /\ UNCHANGED <<entries, issued, row, guest, edit, typed>>

InCheck(i) ==
    /\ At(i, "in_check")
    /\ IF DedicatedIPTaken(op[i].ip, i) THEN Ends(i) ELSE Go(i, "in_reserve")
    /\ UNCHANGED <<entries, issued, row, guest, edit, typed>>

\* The first transaction: the entry is still free, or the migration is refused.
InReserve(i) ==
    /\ At(i, "in_reserve")
    /\ \/ op[i].entry \in Takeable /\ AssignPoolEntry(op[i].entry, i) /\ Go(i, "in_import")
       \/ Ends(i) /\ UNCHANGED entries
    /\ UNCHANGED <<issued, row, guest, edit, typed>>

\* The export fails and the entry is given back; or the guest is imported; or
\* the import is not answered and everything is kept.
InImport(i) ==
    /\ At(i, "in_import")
    /\ \/ Go(i, "in_release") /\ UNCHANGED guest
       \/ \E ok \in BOOLEAN :
            /\ Carried(i, op[i].ip, ok)
            /\ IF ok THEN Go(i, "in_switch") ELSE Keeps(i)
    /\ UNCHANGED <<entries, issued, row, edit, typed>>

\* The guest is verified and the row switched; the verification fails and the
\* guest is to be deleted again; or the switch fails and everything is kept.
InSwitch(i) ==
    /\ At(i, "in_switch")
    /\ \/ row' = [row EXCEPT ![i] = op[i].ip] /\ Go(i, "in_finish") /\ typed' = typed \ {i}
       \/ Go(i, "in_undo") /\ UNCHANGED <<row, typed>>
       \/ Keeps(i) /\ UNCHANGED <<row, typed>>
    /\ UNCHANGED <<entries, issued, guest, edit>>

\* The source is cleaned up, or everything is kept.  The cleanup that follows
\* when only the last read failed takes the migration for failed.
InFinish(i) ==
    /\ At(i, "in_finish")
    /\ Ends(i) \/ Keeps(i) \/ (ReadFails /\ Go(i, "in_undo"))
    /\ UNCHANGED <<entries, issued, row, guest, edit, typed>>

InUndo(i) ==
    /\ At(i, "in_undo")
    /\ \E ok \in BOOLEAN :
         /\ Carried(i, "none", ok)
         /\ IF ok THEN Go(i, "in_release") ELSE Keeps(i)
    /\ UNCHANGED <<entries, issued, row, edit, typed>>

\* releaseMigrationReservations(not switched): the entry taken for this move.
InRelease(i) ==
    /\ At(i, "in_release")
    /\ \/ Release({op[i].entry} \cap Owned(i)) /\ Ends(i)
       \/ Keeps(i) /\ UNCHANGED entries
    /\ UNCHANGED <<issued, row, guest, edit, typed>>

-----------------------------------------------------------------------------
(* The pool's own handlers *)

\* AddIPPoolEntries reads the pool: the address is not in it, and it is not full.
AddStart(a, ip) ==
    /\ edit[a].step = "idle"
    /\ ~\E e \in EntryId : entries[e].ip = ip
    /\ Cardinality({e \in EntryId : entries[e] # Absent}) < PoolCap
    /\ Asks(a, "insert", "none", NoEntry, [ip |-> ip, status |-> "free", owner |-> NoOwner])
    /\ UNCHANGED <<entries, issued, row, guest, op, typed>>

\* ... and inserts; the unique index on node and address refuses a second one.
AddInsert(a) ==
    /\ edit[a].step = "insert"
    /\ \/ /\ issued < MaxEntry
          /\ ~\E e \in EntryId : entries[e].ip = edit[a].seen.ip
          /\ issued' = issued + 1
          /\ entries' = [entries EXCEPT ![issued + 1] = edit[a].seen]
       \/ UNCHANGED <<issued, entries>>
    /\ Answered(a)
    /\ UNCHANGED <<row, guest, op, typed>>

\* UpdateIPPoolEntry reads the entry it is to free, disable or only annotate.
UpdateStart(a, e, want) ==
    /\ edit[a].step = "idle"
    /\ entries[e] # Absent
    /\ want = "disabled" => entries[e].status # "assigned"
    /\ Asks(a, IF entries[e].owner = NoOwner \/ want = "note" THEN "write" ELSE "check", want, e, entries[e])
    /\ UNCHANGED <<entries, issued, row, guest, op, typed>>

\* An entry with an owner is only freed, when the owner's row is gone.
UpdateCheck(a) ==
    /\ edit[a].step = "check"
    /\ IF Exists(edit[a].seen.owner) \/ edit[a].want # "free"
       THEN Answered(a)
       ELSE Asks(a, "write", edit[a].want, edit[a].entry, edit[a].seen)
    /\ UNCHANGED <<entries, issued, row, guest, op, typed>>

\* Slip: the write only compares the status.
UnchangedStatus(a) == entries[edit[a].entry].status = edit[a].seen.status

\* The entry is written if its status and owner are those that were read.
Unchanged(a) ==
    LET now == entries[edit[a].entry]
    IN  now.status = edit[a].seen.status /\ now.owner = edit[a].seen.owner

UpdateWrite(a) ==
    /\ edit[a].step = "write"
    /\ IF Unchanged(a)
       THEN entries' = [entries EXCEPT ![edit[a].entry] =
                CASE edit[a].want = "note" -> edit[a].seen
                  [] edit[a].want = "free" -> [@ EXCEPT !.status = "free", !.owner = NoOwner]
                  [] OTHER -> [@ EXCEPT !.status = "disabled"]]
       ELSE UNCHANGED entries
    /\ Answered(a)
    /\ UNCHANGED <<issued, row, guest, op, typed>>

\* DeleteIPPoolEntry reads the entry, and deletes it unless it is assigned or owned.
DeleteStart(a, e) ==
    /\ edit[a].step = "idle"
    /\ entries[e].status \in {"free", "disabled"}
    /\ Asks(a, "delete", "none", e, Absent)
    /\ UNCHANGED <<entries, issued, row, guest, op, typed>>

Deletable(e) == entries[e].status # "assigned" /\ entries[e].owner = NoOwner

DeleteWrite(a) ==
    /\ edit[a].step = "delete"
    /\ IF Deletable(edit[a].entry)
       THEN entries' = [entries EXCEPT ![edit[a].entry] = Absent]
       ELSE UNCHANGED entries
    /\ Answered(a)
    /\ UNCHANGED <<issued, row, guest, op, typed>>

-----------------------------------------------------------------------------
(* Failures *)

\* The process stops in the middle of an operation: the fence is kept.
Crash(i) ==
    /\ op[i].step \notin {"idle", "kept"}
    /\ Keeps(i)
    /\ UNCHANGED <<entries, issued, row, guest, edit, typed>>

\* The operator verifies the node and clears the fence: what is left here of an
\* instance whose row is elsewhere is removed; reservations are not touched.
Recover(i) ==
    /\ At(i, "kept")
    /\ guest' = IF row[i] = "away" THEN [guest EXCEPT ![i] = "none"] ELSE guest
    /\ Ends(i)
    /\ UNCHANGED <<entries, issued, row, edit, typed>>

-----------------------------------------------------------------------------

Create == \E i \in Instance :
    CreateStart(i) \/ CreateCheck(i) \/ CreateReserve(i) \/ CreateRefused(i) \/ CreateCall(i)
Configure == \E i \in Instance : ConfigureStart(i) \/ ConfigureCall(i) \/ ConfigureStore(i)
Purge == \E i \in Instance : PurgeStart(i) \/ PurgeCall(i) \/ PurgeRelease(i)
MoveOut == \E i \in Instance : OutStart(i) \/ OutSwitch(i) \/ OutDelete(i) \/ OutRelease(i)
MoveIn == \E i \in Instance :
    InStart(i) \/ InCheck(i) \/ InReserve(i) \/ InImport(i) \/ InSwitch(i) \/ InFinish(i) \/ InUndo(i) \/ InRelease(i)
Edit == \E a \in Admin :
    \/ \E ip \in Address : AddStart(a, ip)
    \/ \E e \in EntryId : DeleteStart(a, e) \/ \E w \in {"free", "disabled", "note"} : UpdateStart(a, e, w)
    \/ AddInsert(a) \/ UpdateCheck(a) \/ UpdateWrite(a) \/ DeleteWrite(a)
Fail == \E i \in Instance : Crash(i) \/ Recover(i)

Next == Create \/ Configure \/ Purge \/ MoveOut \/ MoveIn \/ Edit \/ Fail
Spec == Init /\ [][Next]_vars

-----------------------------------------------------------------------------
(* Properties *)

Holds(i, a) == \E e \in EntryId : entries[e] = [ip |-> a, status |-> "assigned", owner |-> i]

\* An address that an instance has from the pool, in its row or on its guest,
\* is assigned to it for as long: no failed create, unanswered call, edit of
\* the pool or half-done migration gives it back before the guest is known to
\* be gone (PurgeInstance, releaseMigrationReservations, UpdateIPPoolEntry).
PoolAddressReserved ==
    \A i \in Instance \ typed : \A a \in Address :
        row[i] = a \/ guest[i] = a => Holds(i, a)

\* Two guests of the node have the same address only if one of them was given
\* it by hand: whatever the order of creates, moves and purges.
SharedOnlyByHand ==
    \A i, j \in Instance \ typed : \A a \in Address :
        i # j => ~(guest[i] = a /\ guest[j] = a)

\* An entry is assigned exactly when it has an owner, and no owner's row is
\* deleted before its entries are freed: nothing is lost to the pool for good.
NoOrphanEntry ==
    \A e \in EntryId :
        /\ entries[e].status = "assigned" <=> entries[e].owner # NoOwner
        /\ entries[e].owner # NoOwner => Exists(entries[e].owner)

\* No handler takes an entry from its owner unless the owner's guest is gone
\* from the node (or was never there): edits and deletions that were decided on
\* an older state of the entry come to nothing.
OwnershipKept ==
    [][\A e \in EntryId : \A i \in Instance :
          entries[e].owner = i /\ entries'[e].owner # i => guest[i] = "none"]_vars

\* An entry that an administrator has taken out of service goes to nobody,
\* however long ago a create or a migration has found it free
\* (UpdateIPPoolEntry, assignPoolEntry).
OutOfServiceStays ==
    [][\A e \in EntryId : entries[e].status = "disabled" => entries'[e].owner = NoOwner]_vars

-----------------------------------------------------------------------------
(* The inductive invariant *)

\* The unique index on the address, and ids are given once.
PoolInv ==
    /\ \A e, f \in EntryId : entries[e].ip = entries[f].ip /\ entries[e] # Absent => e = f
    /\ \A e \in EntryId : e > issued => entries[e] = Absent

\* An entry keeps its address for as long as it is there.
SameEntry(e, a) == e \in 1..issued /\ (entries[e] = Absent \/ entries[e].ip = a)

\* An instance that has no row on this node has no guest there either, except
\* while a migration is under way or was cut short.
Settled(i) == op[i].step \notin {"out_delete", "in_switch", "in_undo", "kept"}
NoRowNoGuest(i) ==
    /\ row[i] \in {"none", "purged"} => guest[i] = "none"
    /\ row[i] = "away" /\ Settled(i) => guest[i] = "none"

\* What an operation knows of the row, the guest and the entry it took.
OperationFacts(i) ==
    /\ op[i].step \in {"create_check", "create_reserve"} => row[i] = "none"
    /\ op[i].step \in {"create_call", "in_finish"} => row[i] = op[i].ip
    /\ op[i].step \in {"configure_call", "configure_store", "out_switch"} => row[i] \in Network
    /\ op[i].step \in {"configure_call", "configure_store"} /\ i \notin typed =>
           op[i].ip \in {NoAddress, row[i]}
    /\ op[i].step \in {"purge_call", "purge_release"} => Exists(i)
    /\ op[i].step \in {"purge_release", "in_release"} => guest[i] = "none"
    /\ op[i].step \in {"configure_call", "configure_store"} => guest[i] # "none"
    /\ op[i].step \in {"out_delete", "out_release", "in_check", "in_reserve", "in_import", "in_switch"} =>
           row[i] = "away"
    /\ op[i].step \in {"in_undo", "in_release"} => row[i] = "away" \/ (ReadFails /\ row[i] = op[i].ip)
    /\ op[i].step \in {"in_check", "in_reserve", "in_import", "in_switch", "in_finish", "in_undo",
                       "in_release"} => SameEntry(op[i].entry, op[i].ip)
    /\ op[i].step \in {"in_import", "in_switch", "in_finish", "in_undo"} => entries[op[i].entry].owner = i
    /\ op[i].step = "in_switch" => guest[i] = op[i].ip

\* The row's address counts while there is, or is about to be, a guest with it;
\* without one the read that ends a migration may have lost the entry.
InUse(i) == guest[i] # "none" \/ At(i, "create_call") \/ ~ReadFails
Reserved(i) ==
    i \notin typed => \A a \in Address : (row[i] = a /\ InUse(i)) \/ guest[i] = a => Holds(i, a)

\* What an administrator's request still knows of the entry it read and of the
\* instance that owned it.
RequestFacts(a) ==
    /\ edit[a].step \in {"check", "write"} =>
           /\ SameEntry(edit[a].entry, edit[a].seen.ip) /\ edit[a].seen \in Entry
           /\ edit[a].seen.status = "assigned" <=> edit[a].seen.owner # NoOwner
           /\ edit[a].seen.owner # NoOwner => row[edit[a].seen.owner] # "none"
    /\ edit[a].step = "check" => edit[a].seen.owner # NoOwner
    /\ edit[a].step = "write" =>
           /\ edit[a].want \in {"free", "disabled", "note"}
           /\ edit[a].want = "free" /\ edit[a].seen.owner # NoOwner => row[edit[a].seen.owner] = "purged"
           /\ edit[a].want = "disabled" => edit[a].seen.owner = NoOwner
    /\ edit[a].step = "insert" =>
           edit[a].seen.ip \in Address /\ edit[a].seen.status = "free" /\ edit[a].seen.owner = NoOwner
    /\ edit[a].step = "delete" => edit[a].entry \in EntryId

AddressInv ==
    /\ TypeOK
    /\ PoolInv
    /\ NoOrphanEntry
    /\ \A i \in Instance : NoRowNoGuest(i) /\ OperationFacts(i) /\ Reserved(i)
    /\ \A a \in Admin : RequestFacts(a)
=============================================================================
