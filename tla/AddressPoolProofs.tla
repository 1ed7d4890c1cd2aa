--------------------------- MODULE AddressPoolProofs ---------------------------
(***************************************************************************)
(* Proofs about AddressPool, for any numbers of instances, addresses,      *)
(* entries and administrators: an address from the pool stays with its     *)
(* owner, alone, until the guest is gone, and no entry is lost.            *)
(*                                                                         *)
(* AddressInv is the inductive invariant.  A step of an instance's         *)
(* operation disturbs only that instance and entries that it owns or that  *)
(* nobody does; a step of an administrator's request disturbs no entry     *)
(* that has an owner.  When the read that ends a migration fails, the row  *)
(* may keep an address whose entry is given back; the guest never does.    *)
(***************************************************************************)
EXTENDS AddressPool, TLAPS

\* The row of an instance is inserted, and deleted, once.
RowGoesOn(i) == /\ row'[i] = "none" => row[i] = "none"
                /\ row[i] = "purged" => row'[i] = "purged"

\* No entry with an owner is changed.
OwnedStay == \A e \in EntryId : entries[e].owner # NoOwner => entries'[e] = entries[e]

\* No entry without an owner gets one.
NobodysStay == \A e \in EntryId : entries[e].owner = NoOwner => entries'[e].owner = NoOwner

-----------------------------------------------------------------------------
(* What the helpers do *)

\* An operation of one instance moves on, the others stay where they are.
LEMMA MovesFacts ==
    ASSUME TypeOK, NEW i \in Instance, NEW s \in Step, NEW w \in {"none", "auto", "pick", "typed"},
           NEW a \in Network, NEW e \in EntryId \cup {NoEntry}, Moves(i, s, w, a, e)
    PROVE  /\ op' \in [Instance -> Operation]
           /\ \A j \in Instance \ {i} : op'[j] = op[j]
           /\ op'[i].step = s /\ op'[i].way = w /\ op'[i].ip = a /\ op'[i].entry = e
  BY DEF TypeOK, Moves, Operation

\* The same, keeping what the operation remembers.
LEMMA GoFacts ==
    ASSUME TypeOK, NEW i \in Instance, NEW s \in Step, Go(i, s)
    PROVE  /\ op' \in [Instance -> Operation]
           /\ \A j \in Instance \ {i} : op'[j] = op[j]
           /\ op'[i].step = s /\ op'[i].way = op[i].way /\ op'[i].ip = op[i].ip /\ op'[i].entry = op[i].entry
  <1>1. op[i] \in Operation
    BY DEF TypeOK
  <1>2. Moves(i, s, op[i].way, op[i].ip, op[i].entry)
    BY DEF Go
  <1> QED
    BY <1>1, <1>2, MovesFacts DEF Operation

\* An operation ends, or leaves its fence behind.
LEMMA StopFacts ==
    ASSUME TypeOK, NEW i \in Instance, Ends(i) \/ Keeps(i)
    PROVE  /\ op' \in [Instance -> Operation]
           /\ \A j \in Instance \ {i} : op'[j] = op[j]
           /\ op'[i].step \in {"idle", "kept"} /\ (Ends(i) => op'[i].step = "idle")
  <1>1. CASE Ends(i)
    BY <1>1, MovesFacts DEF Ends, Step, Network
  <1>2. CASE Keeps(i)
    <2>1. op' \in [Instance -> Operation] /\ op'[i].step = "kept" /\ \A j \in Instance \ {i} : op'[j] = op[j]
      BY <1>2, MovesFacts DEF Keeps, Step, Network
    <2>2. ~Ends(i)
      BY <2>1, MovesFacts DEF Ends, Step, Network
    <2> QED
      BY <2>1, <2>2
  <1> QED
    BY <1>1, <1>2

\* A call changes one guest, if it is carried out; an answered one was.
LEMMA CarriedFacts ==
    ASSUME TypeOK, NEW i \in Instance, NEW a \in Network \cup {"none"}, NEW ok \in BOOLEAN, Carried(i, a, ok)
    PROVE  /\ guest' \in [Instance -> Network \cup {"none"}]
           /\ \A j \in Instance \ {i} : guest'[j] = guest[j]
           /\ guest'[i] \in {guest[i], a} /\ (ok => guest'[i] = a)
  <1>1. guest' = guest \/ guest' = [guest EXCEPT ![i] = a]
    BY DEF Carried
  <1>2. ok => guest' = [guest EXCEPT ![i] = a]
    BY DEF Carried
  <1> QED
    BY <1>1, <1>2 DEF TypeOK

\* An entry is the record of its three fields.
LEMMA EntryRecord ==
    ASSUME NEW r \in Entry PROVE r = [ip |-> r.ip, status |-> r.status, owner |-> r.owner]
  BY DEF Entry

\* Assigning takes one free entry and leaves its address.
LEMMA AssignFacts ==
    ASSUME TypeOK, NEW i \in Instance, NEW e \in Takeable, AssignPoolEntry(e, i)
    PROVE  /\ entries' \in [EntryId -> Entry \cup {Absent}]
           /\ \A f \in EntryId \ {e} : entries'[f] = entries[f]
           /\ entries'[e] = [ip |-> entries[e].ip, status |-> "assigned", owner |-> i]
           /\ entries[e] \in Entry /\ entries[e].owner = NoOwner /\ entries[e].status = "free"
  <1>1. e \in EntryId /\ entries[e].status = "free" /\ entries[e].owner = NoOwner
    BY DEF Takeable
  <1>2. entries[e] \in Entry
    BY <1>1 DEF TypeOK, Absent
  <1>3. entries' = [entries EXCEPT ![e] = [entries[e] EXCEPT !.status = "assigned", !.owner = i]]
    BY DEF AssignPoolEntry
  <1> DEFINE n == [entries[e] EXCEPT !.status = "assigned", !.owner = i]
  <1>6. n \in Entry /\ n.ip = entries[e].ip /\ n.status = "assigned" /\ n.owner = i
    BY <1>2 DEF Entry
  <1> HIDE DEF n
  <1>4. n = [ip |-> entries[e].ip, status |-> "assigned", owner |-> i]
    BY <1>6, EntryRecord
  <1>5. entries' = [entries EXCEPT ![e] = n]
    BY <1>3 DEF n
  <1> QED
    BY <1>1, <1>2, <1>6, <1>4, <1>5 DEF TypeOK

\* Releasing frees what an instance owns and leaves the addresses.
LEMMA ReleaseFacts ==
    ASSUME TypeOK, NEW i \in Instance, NEW E, E \subseteq Owned(i), Release(E)
    PROVE  /\ entries' \in [EntryId -> Entry \cup {Absent}]
           /\ \A f \in EntryId \ E : entries'[f] = entries[f]
           /\ \A f \in E : /\ f \in EntryId /\ entries[f].owner = i /\ entries[f] \in Entry
                           /\ entries'[f] = [ip |-> entries[f].ip, status |-> "free", owner |-> NoOwner]
  <1>1. \A f \in E : f \in EntryId /\ entries[f].owner = i /\ entries[f] \in Entry
    BY AddressPoolAssumption DEF Owned, TypeOK, Absent
  <1>2. ASSUME NEW f \in E
        PROVE  /\ [entries[f] EXCEPT !.status = "free", !.owner = NoOwner] \in Entry
               /\ [entries[f] EXCEPT !.status = "free", !.owner = NoOwner]
                      = [ip |-> entries[f].ip, status |-> "free", owner |-> NoOwner]
    <2> DEFINE n == [entries[f] EXCEPT !.status = "free", !.owner = NoOwner]
    <2>1. n \in Entry /\ n.ip = entries[f].ip /\ n.status = "free" /\ n.owner = NoOwner
      BY <1>1, <1>2 DEF Entry
    <2> HIDE DEF n
    <2>2. n = [ip |-> entries[f].ip, status |-> "free", owner |-> NoOwner]
      BY <2>1, EntryRecord
    <2> QED
      BY <2>1, <2>2 DEF n
  <1>3. entries' = [e \in EntryId |-> IF e \in E THEN [entries[e] EXCEPT !.status = "free", !.owner = NoOwner]
                                                ELSE entries[e]]
    BY DEF Release
  <1> QED
    BY <1>1, <1>2, <1>3 DEF TypeOK

\* One request of an administrator moves on.
LEMMA AsksFacts ==
    ASSUME TypeOK, NEW a \in Admin, NEW s \in {"idle", "check", "write", "insert", "delete"},
           NEW w \in {"none", "free", "disabled", "note"}, NEW e \in EntryId \cup {NoEntry},
           NEW n \in Entry \cup {Absent}, Asks(a, s, w, e, n)
    PROVE  /\ edit' \in [Admin -> Request]
           /\ \A b \in Admin \ {a} : edit'[b] = edit[b]
           /\ edit'[a].step = s /\ edit'[a].want = w /\ edit'[a].entry = e /\ edit'[a].seen = n
  <1>1. [step |-> s, want |-> w, entry |-> e, seen |-> n] \in Request
    BY DEF Request
  <1> QED
    BY <1>1 DEF TypeOK, Asks

-----------------------------------------------------------------------------
(* Frames *)

\* An address in the pool belongs to one entry and an entry's id to one address.
IdsStay ==
    /\ issued' >= issued /\ issued' \in Nat
    /\ \A e \in 1..issued : entries'[e] = Absent \/ (entries[e] # Absent /\ entries'[e].ip = entries[e].ip)

\* What an instance relies on stays when only others move.
LEMMA Bystander ==
    ASSUME AddressInv, IdsStay, NEW j \in Instance, op'[j] = op[j], row'[j] = row[j], guest'[j] = guest[j],
           j \in typed' <=> j \in typed,
           \A e \in EntryId : entries[e].owner = j => entries'[e] = entries[e]
    PROVE  NoRowNoGuest(j)' /\ OperationFacts(j)' /\ Reserved(j)'
  <1>1. NoRowNoGuest(j) /\ OperationFacts(j) /\ Reserved(j)
    BY DEF AddressInv
  <1>2. ASSUME NEW e \in EntryId \cup {NoEntry}, NEW a, SameEntry(e, a) PROVE SameEntry(e, a)'
    BY <1>2 DEF AddressInv, TypeOK, IdsStay, SameEntry
  <1>3. NoRowNoGuest(j)'
    BY <1>1 DEF NoRowNoGuest, Settled
  <1>4. Reserved(j)'
    BY <1>1 DEF Reserved, InUse, At, Holds
  <1>5. OperationFacts(j)'
    <2>1. op[j].entry \in EntryId \cup {NoEntry} /\ issued \in 0..MaxEntry /\ MaxEntry \in Nat
      BY AddressPoolAssumption DEF AddressInv, TypeOK, Operation
    <2>2. SameEntry(op[j].entry, op[j].ip) => SameEntry(op[j].entry, op[j].ip)' /\ op[j].entry \in EntryId
      BY <1>2, <2>1 DEF SameEntry, EntryId
    <2> QED
      BY <1>1, <2>2 DEF OperationFacts, Exists
  <1> QED
    BY <1>3, <1>4, <1>5

\* A request of an administrator relies on nothing that other steps change.
LEMMA OtherRequest ==
    ASSUME AddressInv, IdsStay, NEW a \in Admin, edit'[a] = edit[a], \A i \in Instance : RowGoesOn(i)
    PROVE  RequestFacts(a)'
  <1>1. RequestFacts(a) /\ edit[a] \in Request
    BY DEF AddressInv, TypeOK
  <1>2. edit[a].entry \in EntryId \cup {NoEntry} /\ edit[a].seen \in Entry \cup {Absent}
    BY <1>1 DEF Request
  <1>3. ASSUME NEW x, SameEntry(edit[a].entry, x) PROVE SameEntry(edit[a].entry, x)'
    BY <1>2, <1>3 DEF AddressInv, TypeOK, IdsStay, SameEntry
  <1>4. edit[a].seen \in Entry => edit[a].seen.owner \in Instance \cup {NoOwner}
    BY DEF Entry
  <1> QED
    BY <1>1, <1>3, <1>4 DEF RequestFacts, RowGoesOn

\* A step of an instance's operation: it touches entries that nobody or the
\* instance itself owns.
LEMMA InstanceStep ==
    ASSUME AddressInv, NEW i \in Instance, TypeOK', UNCHANGED <<issued, edit>>,
           \A j \in Instance \ {i} : /\ op'[j] = op[j] /\ row'[j] = row[j] /\ guest'[j] = guest[j]
                                     /\ j \in typed' <=> j \in typed,
           \A e \in EntryId : \/ entries'[e] = entries[e]
                              \/ /\ entries[e] # Absent /\ entries'[e].ip = entries[e].ip
                                 /\ entries[e].owner \in {i, NoOwner} /\ entries'[e].owner \in {i, NoOwner}
                                 /\ entries'[e].status = "assigned" <=> entries'[e].owner # NoOwner,
           RowGoesOn(i),
           Exists(i)' \/ (\A e \in EntryId : entries'[e].owner # i),
           NoRowNoGuest(i)', OperationFacts(i)', Reserved(i)'
    PROVE  AddressInv'
  <1> USE AddressPoolAssumption DEF AddressInv
  <1>1. IdsStay
    BY DEF IdsStay, TypeOK, EntryId
  <1>2. PoolInv'
    BY DEF PoolInv, TypeOK, Absent
  <1>3. ASSUME NEW e \in EntryId
        PROVE  /\ entries'[e].status = "assigned" <=> entries'[e].owner # NoOwner
               /\ entries'[e].owner # NoOwner => row'[entries'[e].owner] \in Network \cup {"away"}
    <2>1. /\ entries[e].status = "assigned" <=> entries[e].owner # NoOwner
          /\ entries[e].owner # NoOwner => Exists(entries[e].owner)
      BY DEF NoOrphanEntry
    <2>2. entries'[e].status = "assigned" <=> entries'[e].owner # NoOwner
      BY <2>1
    <2>3. entries'[e].owner \in Instance \cup {NoOwner}
      BY DEF TypeOK, Entry, Absent
    <2>4. CASE entries'[e].owner = i
      BY <2>2, <2>4 DEF Exists
    <2>5. CASE entries'[e].owner # i /\ entries'[e].owner # NoOwner
      <3>1. entries'[e] = entries[e] /\ row'[entries[e].owner] = row[entries[e].owner]
        BY <2>3, <2>5
      <3> QED
        BY <2>1, <2>5, <3>1 DEF Exists
    <2> QED
      BY <2>2, <2>4, <2>5
  <1>4. ASSUME NEW j \in Instance, j # i PROVE NoRowNoGuest(j)' /\ OperationFacts(j)' /\ Reserved(j)'
    <2>1. \A e \in EntryId : entries[e].owner = j => entries'[e] = entries[e]
      BY <1>4
    <2> QED
      BY <1>1, <1>4, <2>1, Bystander
  <1>5. ASSUME NEW j \in Instance PROVE RowGoesOn(j)
    BY <1>5 DEF RowGoesOn
  <1>6. \A a \in Admin : RequestFacts(a)'
    BY <1>1, <1>5, OtherRequest
  <1>7. NoOrphanEntry'
    BY <1>3 DEF NoOrphanEntry, Exists
  <1> QED
    BY <1>2, <1>4, <1>6, <1>7

\* A step of an administrator's request: it touches entries that nobody owns.
LEMMA AdminStep ==
    ASSUME AddressInv, NEW a \in Admin, TypeOK', UNCHANGED <<row, guest, op, typed>>, IdsStay,
           \A b \in Admin \ {a} : edit'[b] = edit[b],
           OwnedStay,
           \A e \in EntryId : entries[e].owner = NoOwner =>
                                  entries'[e].status # "assigned" /\ entries'[e].owner = NoOwner,
           PoolInv', RequestFacts(a)'
    PROVE  AddressInv'
  <1> USE AddressPoolAssumption DEF AddressInv
  <1>1. NoOrphanEntry'
    BY DEF NoOrphanEntry, Exists, TypeOK, OwnedStay
  <1>2. ASSUME NEW j \in Instance PROVE NoRowNoGuest(j)' /\ OperationFacts(j)' /\ Reserved(j)'
    BY Bystander DEF OwnedStay
  <1>3. \A i \in Instance : RowGoesOn(i)
    BY DEF RowGoesOn
  <1>4. ASSUME NEW b \in Admin PROVE RequestFacts(b)'
    BY <1>3, OtherRequest
  <1> QED
    BY <1>1, <1>2, <1>4

\* A step of an instance's operation that leaves the pool alone.
LEMMA QuietStep ==
    ASSUME AddressInv, NEW i \in Instance, TypeOK', UNCHANGED <<entries, issued, edit>>,
           \A j \in Instance \ {i} : /\ op'[j] = op[j] /\ row'[j] = row[j] /\ guest'[j] = guest[j]
                                     /\ j \in typed' <=> j \in typed,
           RowGoesOn(i), Exists(i) => Exists(i)',
           NoRowNoGuest(i)', OperationFacts(i)', Reserved(i)'
    PROVE  AddressInv'
  <1>1. Exists(i)' \/ (\A e \in EntryId : entries'[e].owner # i)
    BY AddressPoolAssumption DEF AddressInv, NoOrphanEntry
  <1> QED
    BY <1>1, InstanceStep

\* A step that only moves an instance's operation on.
LEMMA OpStep ==
    ASSUME AddressInv, NEW i \in Instance, UNCHANGED <<entries, issued, row, guest, edit, typed>>,
           op' \in [Instance -> Operation], \A j \in Instance \ {i} : op'[j] = op[j],
           row[i] = "away" /\ Settled(i)' => guest[i] = "none", op'[i].step # "create_call", OperationFacts(i)'
    PROVE  AddressInv'
  <1>1. TypeOK'
    BY DEF AddressInv, TypeOK
  <1>2. NoRowNoGuest(i)' /\ Reserved(i)' /\ RowGoesOn(i)
    BY DEF AddressInv, NoRowNoGuest, Reserved, InUse, At, Holds, RowGoesOn
  <1> QED
    BY <1>1, <1>2, QuietStep DEF Exists

-----------------------------------------------------------------------------
(* CreateInstance *)

\* What a caller asks for is only remembered.
LEMMA CreateStartStep ==
    ASSUME AddressInv, NEW i \in Instance, CreateStart(i) PROVE AddressInv'
  <1>1. TypeOK /\ row[i] = "none"
    BY DEF AddressInv, CreateStart
  <1>2. \E s \in {"create_check", "create_reserve"}, w \in {"auto", "pick", "typed"}, a \in Network,
            e \in EntryId \cup {NoEntry} : Moves(i, s, w, a, e)
    <2>1. \A e \in EntryId : entries[e].status = "free" => entries[e].ip \in Network
      BY <1>1 DEF TypeOK, Entry, Absent, Network
    <2> QED
      BY <2>1 DEF CreateStart, Network
  <1>3. /\ op' \in [Instance -> Operation] /\ \A j \in Instance \ {i} : op'[j] = op[j]
        /\ op'[i].step \in {"create_check", "create_reserve"}
    BY <1>1, <1>2, MovesFacts DEF Step
  <1>4. OperationFacts(i)'
    BY <1>1, <1>3 DEF OperationFacts, CreateStart
  <1> QED
    BY <1>1, <1>3, <1>4, OpStep DEF CreateStart

\* The check of the address changes nothing but the course of the operation.
LEMMA CreateCheckStep ==
    ASSUME AddressInv, NEW i \in Instance, CreateCheck(i) PROVE AddressInv'
  <1>1. TypeOK /\ row[i] = "none"
    BY DEF AddressInv, OperationFacts, CreateCheck, At
  <1>2. Ends(i) \/ Go(i, "create_reserve")
    BY DEF CreateCheck
  <1>3. /\ op' \in [Instance -> Operation] /\ \A j \in Instance \ {i} : op'[j] = op[j]
        /\ op'[i].step \in {"create_reserve", "idle"}
    BY <1>1, <1>2, GoFacts, StopFacts DEF Step
  <1>4. OperationFacts(i)'
    BY <1>1, <1>3 DEF OperationFacts, CreateCheck
  <1> QED
    BY <1>1, <1>3, <1>4, OpStep DEF CreateCheck

\* The row refers to an entry that this transaction has taken, or to an address
\* typed in.
LEMMA CreateReserveStep ==
    ASSUME AddressInv, NEW i \in Instance, CreateReserve(i) PROVE AddressInv'
  <1> USE AddressPoolAssumption
  <1>1. TypeOK /\ row[i] = "none" /\ guest[i] = "none" /\ op[i] \in Operation
    BY DEF AddressInv, TypeOK, OperationFacts, NoRowNoGuest, CreateReserve, At
  <1>2. UNCHANGED <<issued, guest, edit>>
    BY DEF CreateReserve
  <1>3. ASSUME NEW e \in Takeable, AssignPoolEntry(e, i), row' = [row EXCEPT ![i] = entries[e].ip],
               Moves(i, "create_call", "none", entries[e].ip, NoEntry), UNCHANGED typed
        PROVE  AddressInv'
    <2>1. e \in EntryId /\ entries[e].ip \in Address /\ entries[e].ip \in Network
      BY <1>1, <1>3, AssignFacts DEF Takeable, Entry, Network
    <2>2. /\ op' \in [Instance -> Operation] /\ \A j \in Instance \ {i} : op'[j] = op[j]
          /\ op'[i].step = "create_call" /\ op'[i].ip = entries[e].ip
      BY <1>1, <1>3, <2>1, MovesFacts DEF Step
    <2>3. row'[i] = entries[e].ip /\ \A j \in Instance \ {i} : row'[j] = row[j]
      BY <1>1, <1>3 DEF TypeOK
    <2>4. TypeOK'
      BY <1>1, <1>2, <1>3, <2>1, <2>2, AssignFacts DEF TypeOK
    <2>5. Exists(i)' /\ RowGoesOn(i)
      BY <1>1, <2>1, <2>3 DEF Exists, RowGoesOn, Network
    <2>6. /\ entries'[e] = [ip |-> row'[i], status |-> "assigned", owner |-> i]
          /\ entries[e] # Absent /\ entries'[e].ip = entries[e].ip /\ entries[e].owner = NoOwner
          /\ \A f \in EntryId \ {e} : entries'[f] = entries[f]
      BY <1>1, <1>3, <2>1, <2>3, AssignFacts DEF Absent, Entry
    <2>7. NoRowNoGuest(i)' /\ OperationFacts(i)'
      BY <1>1, <1>2, <2>1, <2>2, <2>3 DEF NoRowNoGuest, OperationFacts, Network
    <2>8. Reserved(i)'
      BY <1>1, <1>2, <2>1, <2>3, <2>6 DEF Reserved, Holds
    <2>9. \A f \in EntryId :
              \/ entries'[f] = entries[f]
              \/ /\ entries[f] # Absent /\ entries'[f].ip = entries[f].ip
                 /\ entries[f].owner \in {i, NoOwner} /\ entries'[f].owner \in {i, NoOwner}
                 /\ entries'[f].status = "assigned" <=> entries'[f].owner # NoOwner
      BY <2>6
    <2>10. \A j \in Instance \ {i} : /\ op'[j] = op[j] /\ row'[j] = row[j] /\ guest'[j] = guest[j]
                                     /\ j \in typed' <=> j \in typed
      BY <1>2, <1>3, <2>2, <2>3
    <2> QED
      BY <1>2, <2>4, <2>5, <2>7, <2>8, <2>9, <2>10, InstanceStep
  <1>4. ASSUME op[i].ip # NoAddress => MayType(i), row' = [row EXCEPT ![i] = op[i].ip],
               typed' = IF op[i].ip = NoAddress THEN typed ELSE typed \cup {i},
               Moves(i, "create_call", "none", op[i].ip, NoEntry), UNCHANGED entries
        PROVE  AddressInv'
    <2>1. op[i].ip \in Network
      BY <1>1 DEF Operation
    <2>2. /\ op' \in [Instance -> Operation] /\ \A j \in Instance \ {i} : op'[j] = op[j]
          /\ op'[i].step = "create_call" /\ op'[i].ip = op[i].ip
      BY <1>1, <1>4, <2>1, MovesFacts DEF Step
    <2>3. row'[i] = op[i].ip /\ \A j \in Instance \ {i} : row'[j] = row[j] /\ (j \in typed' <=> j \in typed)
      BY <1>1, <1>4 DEF TypeOK
    <2>4. TypeOK'
      BY <1>1, <1>2, <1>4, <2>1, <2>2 DEF TypeOK
    <2>5. Exists(i)' /\ RowGoesOn(i)
      BY <1>1, <2>1, <2>3 DEF Exists, RowGoesOn, Network
    <2>6. NoRowNoGuest(i)' /\ OperationFacts(i)' /\ Reserved(i)'
      BY <1>1, <1>2, <1>4, <2>1, <2>2, <2>3 DEF NoRowNoGuest, OperationFacts, Reserved, InUse, At, Network
    <2> QED
      BY <1>2, <1>4, <2>2, <2>3, <2>4, <2>5, <2>6, QuietStep
  <1> QED
    BY <1>3, <1>4 DEF CreateReserve

\* A refused create leaves nothing.
LEMMA CreateRefusedStep ==
    ASSUME AddressInv, NEW i \in Instance, CreateRefused(i) PROVE AddressInv'
  <1>1. TypeOK /\ row[i] = "none"
    BY DEF AddressInv, OperationFacts, CreateRefused, At
  <1>2. op' \in [Instance -> Operation] /\ op'[i].step = "idle" /\ \A j \in Instance \ {i} : op'[j] = op[j]
    BY <1>1, StopFacts DEF CreateRefused
  <1>3. OperationFacts(i)'
    BY <1>2 DEF OperationFacts
  <1> QED
    BY <1>1, <1>2, <1>3, OpStep DEF CreateRefused

\* The guest gets the address of the row.
LEMMA CreateCallStep ==
    ASSUME AddressInv, NEW i \in Instance, CreateCall(i) PROVE AddressInv'
  <1> USE AddressPoolAssumption
  <1>1. TypeOK /\ row[i] = op[i].ip /\ op[i].ip \in Network
    BY DEF AddressInv, TypeOK, Operation, OperationFacts, CreateCall, At
  <1>2. op' \in [Instance -> Operation] /\ op'[i].step = "idle" /\ \A j \in Instance \ {i} : op'[j] = op[j]
    BY <1>1, StopFacts DEF CreateCall
  <1>3. /\ guest' \in [Instance -> Network \cup {"none"}]
        /\ \A j \in Instance \ {i} : guest'[j] = guest[j]
        /\ guest'[i] \in {guest[i], row[i]}
    BY <1>1, CarriedFacts DEF CreateCall
  <1>4. UNCHANGED <<entries, issued, row, edit, typed>>
    BY DEF CreateCall
  <1>5. TypeOK'
    BY <1>1, <1>2, <1>3, <1>4 DEF TypeOK
  <1>6. NoRowNoGuest(i)' /\ OperationFacts(i)' /\ RowGoesOn(i)
    BY <1>1, <1>2, <1>4 DEF NoRowNoGuest, OperationFacts, RowGoesOn, Network
  <1>7. Reserved(i)'
    BY <1>1, <1>2, <1>3, <1>4 DEF AddressInv, CreateCall, Reserved, InUse, At, Holds
  <1> QED
    BY <1>2, <1>3, <1>4, <1>5, <1>6, <1>7, QuietStep DEF Exists

-----------------------------------------------------------------------------
(* ConfigureInstanceNetwork *)

\* An address that is new to the instance is one typed in.
LEMMA ConfigureStartStep ==
    ASSUME AddressInv, NEW i \in Instance, ConfigureStart(i) PROVE AddressInv'
  <1> USE AddressPoolAssumption
  <1>1. TypeOK /\ row[i] \in Network /\ guest[i] # "none" /\ UNCHANGED <<entries, issued, row, guest, edit>>
    BY DEF AddressInv, ConfigureStart, Here
  <1>2. PICK a \in Network : /\ Moves(i, "configure_call", "none", a, NoEntry)
                             /\ typed' = IF a \in {NoAddress, row[i]} THEN typed ELSE typed \cup {i}
    BY <1>1 DEF ConfigureStart, Network
  <1>3. /\ op' \in [Instance -> Operation] /\ \A j \in Instance \ {i} : op'[j] = op[j]
        /\ op'[i].step = "configure_call" /\ op'[i].ip = a
    BY <1>1, <1>2, MovesFacts DEF Step
  <1>4. TypeOK'
    BY <1>1, <1>2, <1>3 DEF TypeOK
  <1>5. OperationFacts(i)' /\ NoRowNoGuest(i)' /\ RowGoesOn(i)
    BY <1>1, <1>2, <1>3 DEF OperationFacts, NoRowNoGuest, RowGoesOn, Network
  <1>6. Reserved(i)'
    BY <1>1, <1>2, <1>3 DEF AddressInv, Reserved, InUse, At, Holds
  <1> QED
    BY <1>1, <1>2, <1>3, <1>4, <1>5, <1>6, QuietStep DEF Exists

\* An instance that was not given an address by hand keeps its own or loses it.
LEMMA ConfigureCallStep ==
    ASSUME AddressInv, NEW i \in Instance, ConfigureCall(i) PROVE AddressInv'
  <1> USE AddressPoolAssumption
  <1>1. /\ TypeOK /\ row[i] \in Network /\ guest[i] # "none" /\ op[i].ip \in Network
        /\ i \notin typed => op[i].ip \in {NoAddress, row[i]}
    BY DEF AddressInv, TypeOK, Operation, OperationFacts, ConfigureCall, At
  <1>2. UNCHANGED <<entries, issued, row, edit, typed>>
    BY DEF ConfigureCall
  <1>3. PICK ok \in BOOLEAN : Carried(i, op[i].ip, ok) /\ IF ok THEN Go(i, "configure_store") ELSE Ends(i)
    BY DEF ConfigureCall
  <1>4. /\ op' \in [Instance -> Operation] /\ \A j \in Instance \ {i} : op'[j] = op[j]
        /\ op'[i].step \in {"configure_store", "idle"}
        /\ op'[i].step = "configure_store" => op'[i].ip = op[i].ip
    BY <1>1, <1>3, GoFacts, StopFacts DEF Step
  <1>5. /\ guest' \in [Instance -> Network \cup {"none"}]
        /\ \A j \in Instance \ {i} : guest'[j] = guest[j]
        /\ guest'[i] \in {guest[i], op[i].ip}
    BY <1>1, <1>3, CarriedFacts
  <1>6. TypeOK'
    BY <1>1, <1>2, <1>4, <1>5 DEF TypeOK
  <1>7. OperationFacts(i)' /\ NoRowNoGuest(i)' /\ RowGoesOn(i)
    BY <1>1, <1>2, <1>4, <1>5 DEF OperationFacts, NoRowNoGuest, RowGoesOn, Network
  <1>8. Reserved(i)'
    BY <1>1, <1>2, <1>4, <1>5 DEF AddressInv, Reserved, InUse, At, Holds
  <1> QED
    BY <1>2, <1>4, <1>5, <1>6, <1>7, <1>8, QuietStep DEF Exists

\* The row follows the guest, or keeps the address it had.
LEMMA ConfigureStoreStep ==
    ASSUME AddressInv, NEW i \in Instance, ConfigureStore(i) PROVE AddressInv'
  <1> USE AddressPoolAssumption
  <1>1. /\ TypeOK /\ row[i] \in Network /\ guest[i] # "none" /\ op[i].ip \in Network
        /\ i \notin typed => op[i].ip \in {NoAddress, row[i]}
    BY DEF AddressInv, TypeOK, Operation, OperationFacts, ConfigureStore, At
  <1>2. UNCHANGED <<entries, issued, guest, edit, typed>>
    BY DEF ConfigureStore
  <1>3. op' \in [Instance -> Operation] /\ op'[i].step = "idle" /\ \A j \in Instance \ {i} : op'[j] = op[j]
    BY <1>1, StopFacts DEF ConfigureStore
  <1>4. /\ row' \in [Instance -> Network \cup {"none", "away", "purged"}]
        /\ \A j \in Instance \ {i} : row'[j] = row[j]
        /\ row'[i] \in {row[i], op[i].ip}
    BY <1>1 DEF ConfigureStore, TypeOK
  <1>5. TypeOK'
    BY <1>1, <1>2, <1>3, <1>4 DEF TypeOK
  <1>6. OperationFacts(i)' /\ NoRowNoGuest(i)' /\ RowGoesOn(i) /\ Exists(i)'
    BY <1>1, <1>3, <1>4 DEF OperationFacts, NoRowNoGuest, RowGoesOn, Exists, Network
  <1>7. Reserved(i)'
    BY <1>1, <1>2, <1>3, <1>4 DEF AddressInv, Reserved, InUse, At, Holds
  <1> QED
    BY <1>2, <1>3, <1>4, <1>5, <1>6, <1>7, QuietStep

-----------------------------------------------------------------------------
(* PurgeInstance and the way out *)

\* Entries are given back over a guest that is gone.
LEMMA ReleaseStep ==
    ASSUME AddressInv, NEW i \in Instance, NEW E, E \subseteq Owned(i), Release(E),
           UNCHANGED <<issued, guest, edit, typed>>, guest[i] = "none",
           op' \in [Instance -> Operation], row' \in [Instance -> Network \cup {"none", "away", "purged"}],
           \A j \in Instance \ {i} : op'[j] = op[j] /\ row'[j] = row[j],
           RowGoesOn(i), op'[i].step # "create_call",
           \/ row'[i] = "away"
           \/ ReadFails /\ row'[i] \in Network
           \/ row'[i] = "purged" /\ E = Owned(i),
           OperationFacts(i)'
    PROVE  AddressInv'
  <1> USE AddressPoolAssumption
  <1>1. TypeOK
    BY DEF AddressInv
  <1>2. TypeOK'
    BY <1>1, ReleaseFacts DEF TypeOK
  <1>3. ASSUME NEW e \in EntryId
        PROVE  \/ entries'[e] = entries[e]
               \/ /\ entries[e] # Absent /\ entries'[e].ip = entries[e].ip
                  /\ entries[e].owner \in {i, NoOwner} /\ entries'[e].owner \in {i, NoOwner}
                  /\ entries'[e].status = "assigned" <=> entries'[e].owner # NoOwner
    <2>1. CASE e \in E
      <3>1. /\ entries[e].owner = i /\ entries[e] \in Entry
            /\ entries'[e] = [ip |-> entries[e].ip, status |-> "free", owner |-> NoOwner]
        BY <1>1, <2>1, ReleaseFacts
      <3>2. entries[e] # Absent
        BY <3>1 DEF Absent, Entry
      <3> QED
        BY <3>1, <3>2
    <2>2. CASE e \notin E
      BY <1>1, <2>2, ReleaseFacts
    <2> QED
      BY <2>1, <2>2
  <1>4. Exists(i)' \/ (\A e \in EntryId : entries'[e].owner # i)
    <2>1. CASE row'[i] \in Network \cup {"away"}
      BY <2>1 DEF Exists
    <2>2. CASE E = Owned(i)
      <3>1. ASSUME NEW e \in EntryId PROVE entries'[e].owner # i
        <4>1. CASE e \in E
          <5>1. entries'[e] = [ip |-> entries[e].ip, status |-> "free", owner |-> NoOwner]
            BY <1>1, <4>1, ReleaseFacts
          <5> QED
            BY <5>1
        <4>2. CASE e \notin E
          BY <1>1, <2>2, <4>2, ReleaseFacts DEF Owned
        <4> QED
          BY <4>1, <4>2
      <3> QED
        BY <3>1
    <2> QED
      BY <2>1, <2>2
  <1>5. NoRowNoGuest(i)' /\ Reserved(i)'
    BY <1>1 DEF NoRowNoGuest, Reserved, InUse, At, Network
  <1>6. \A j \in Instance \ {i} : /\ op'[j] = op[j] /\ row'[j] = row[j] /\ guest'[j] = guest[j]
                                  /\ j \in typed' <=> j \in typed
    OBVIOUS
  <1> QED
    BY <1>2, <1>3, <1>4, <1>5, <1>6, InstanceStep

\* A purge may begin on either node.
LEMMA PurgeStartStep ==
    ASSUME AddressInv, NEW i \in Instance, PurgeStart(i) PROVE AddressInv'
  <1>1. TypeOK /\ Exists(i) /\ (row[i] = "away" => guest[i] = "none")
    BY DEF AddressInv, NoRowNoGuest, Settled, PurgeStart, At
  <1>2. op' \in [Instance -> Operation] /\ op'[i].step = "purge_call" /\ \A j \in Instance \ {i} : op'[j] = op[j]
    BY <1>1, GoFacts DEF PurgeStart, Step
  <1>3. OperationFacts(i)'
    BY <1>1, <1>2 DEF OperationFacts, PurgeStart, Exists
  <1> QED
    BY <1>1, <1>2, <1>3, OpStep DEF PurgeStart

\* The entries are only given back after the node has answered, or has no guest.
LEMMA PurgeCallStep ==
    ASSUME AddressInv, NEW i \in Instance, PurgeCall(i) PROVE AddressInv'
  <1> USE AddressPoolAssumption
  <1>1. TypeOK /\ Exists(i) /\ (row[i] = "away" => guest[i] = "none")
    BY DEF AddressInv, NoRowNoGuest, OperationFacts, Settled, PurgeCall, At
  <1>2. UNCHANGED <<entries, issued, row, edit, typed>>
    BY DEF PurgeCall
  <1>3. PICK ok \in BOOLEAN : /\ IF Here(i) THEN Carried(i, "none", ok) ELSE UNCHANGED guest
                              /\ IF ok THEN Go(i, "purge_release") ELSE Ends(i)
    BY DEF PurgeCall
  <1>4. /\ op' \in [Instance -> Operation] /\ \A j \in Instance \ {i} : op'[j] = op[j]
        /\ op'[i].step = IF ok THEN "purge_release" ELSE "idle"
    BY <1>1, <1>3, GoFacts, StopFacts DEF Step
  <1>5. /\ guest' \in [Instance -> Network \cup {"none"}]
        /\ \A j \in Instance \ {i} : guest'[j] = guest[j]
        /\ guest'[i] \in {guest[i], "none"} /\ (ok => guest'[i] = "none")
    <2>1. CASE Here(i)
      BY <1>1, <1>3, <2>1, CarriedFacts
    <2>2. CASE ~Here(i)
      BY <1>1, <1>3, <2>2 DEF Here, Exists, TypeOK
    <2> QED
      BY <2>1, <2>2
  <1>6. TypeOK'
    BY <1>1, <1>2, <1>4, <1>5 DEF TypeOK
  <1>7. OperationFacts(i)' /\ NoRowNoGuest(i)' /\ RowGoesOn(i)
    BY <1>1, <1>2, <1>4, <1>5 DEF OperationFacts, NoRowNoGuest, RowGoesOn, Exists, Network
  <1>8. Reserved(i)'
    BY <1>1, <1>2, <1>4, <1>5 DEF AddressInv, Reserved, InUse, At, Holds
  <1> QED
    BY <1>2, <1>4, <1>5, <1>6, <1>7, <1>8, QuietStep DEF Exists

\* Row and entries go together, over a guest that is gone.
LEMMA PurgeReleaseStep ==
    ASSUME AddressInv, NEW i \in Instance, PurgeRelease(i) PROVE AddressInv'
  <1> USE AddressPoolAssumption
  <1>1. TypeOK /\ Exists(i) /\ guest[i] = "none"
    BY DEF AddressInv, OperationFacts, PurgeRelease, At
  <1>2. op' \in [Instance -> Operation] /\ op'[i].step = "idle" /\ \A j \in Instance \ {i} : op'[j] = op[j]
    BY <1>1, StopFacts DEF PurgeRelease
  <1>3. OperationFacts(i)'
    BY <1>2 DEF OperationFacts
  <1>4. CASE Release(Owned(i)) /\ row' = [row EXCEPT ![i] = "purged"]
    <2>1. /\ row' \in [Instance -> Network \cup {"none", "away", "purged"}] /\ row'[i] = "purged"
          /\ \A j \in Instance \ {i} : row'[j] = row[j]
      BY <1>1, <1>4 DEF TypeOK
    <2>2. RowGoesOn(i)
      BY <2>1 DEF RowGoesOn
    <2> QED
      BY <1>1, <1>2, <1>3, <1>4, <2>1, <2>2, ReleaseStep DEF PurgeRelease
  <1>5. CASE UNCHANGED <<entries, row>>
    BY <1>1, <1>2, <1>3, <1>5, OpStep DEF PurgeRelease
  <1> QED
    BY <1>4, <1>5 DEF PurgeRelease

\* The row is here when a migration away begins.
LEMMA OutStartStep ==
    ASSUME AddressInv, NEW i \in Instance, OutStart(i) PROVE AddressInv'
  <1> USE AddressPoolAssumption
  <1>1. TypeOK /\ row[i] \in Network
    BY DEF AddressInv, OutStart, Here
  <1>2. op' \in [Instance -> Operation] /\ op'[i].step = "out_switch" /\ \A j \in Instance \ {i} : op'[j] = op[j]
    BY <1>1, GoFacts DEF OutStart, Step
  <1>3. OperationFacts(i)'
    BY <1>1, <1>2 DEF OperationFacts, OutStart
  <1> QED
    BY <1>1, <1>2, <1>3, OpStep DEF OutStart, Network

\* After the switch the guest is still there, and so are its entries.
LEMMA OutSwitchStep ==
    ASSUME AddressInv, NEW i \in Instance, OutSwitch(i) PROVE AddressInv'
  <1> USE AddressPoolAssumption
  <1>1. TypeOK /\ row[i] \in Network
    BY DEF AddressInv, OperationFacts, OutSwitch, At
  <1>2. UNCHANGED <<entries, issued, guest, edit, typed>>
    BY DEF OutSwitch
  <1>3. CASE Go(i, "out_delete") /\ row' = [row EXCEPT ![i] = "away"]
    <2>1. op' \in [Instance -> Operation] /\ op'[i].step = "out_delete" /\ \A j \in Instance \ {i} : op'[j] = op[j]
      BY <1>1, <1>3, GoFacts DEF Step
    <2>2. /\ row' \in [Instance -> Network \cup {"none", "away", "purged"}] /\ row'[i] = "away"
          /\ \A j \in Instance \ {i} : row'[j] = row[j]
      BY <1>1, <1>3 DEF TypeOK
    <2>3. TypeOK'
      BY <1>1, <1>2, <2>1, <2>2 DEF TypeOK
    <2>4. OperationFacts(i)' /\ NoRowNoGuest(i)' /\ RowGoesOn(i) /\ Exists(i)'
      BY <1>1, <2>1, <2>2 DEF OperationFacts, NoRowNoGuest, Settled, RowGoesOn, Exists, Network
    <2>5. Reserved(i)'
      BY <1>2, <2>1, <2>2 DEF AddressInv, Reserved, InUse, At, Holds
    <2> QED
      BY <1>2, <2>1, <2>2, <2>3, <2>4, <2>5, QuietStep
  <1>4. CASE Ends(i) /\ UNCHANGED row
    <2>1. op' \in [Instance -> Operation] /\ op'[i].step = "idle" /\ \A j \in Instance \ {i} : op'[j] = op[j]
      BY <1>1, <1>4, StopFacts
    <2>2. OperationFacts(i)'
      BY <2>1 DEF OperationFacts
    <2> QED
      BY <1>1, <1>2, <1>4, <2>1, <2>2, OpStep DEF Network
  <1> QED
    BY <1>3, <1>4 DEF OutSwitch

\* Without the node's answer the fence is kept.
LEMMA OutDeleteStep ==
    ASSUME AddressInv, NEW i \in Instance, OutDelete(i) PROVE AddressInv'
  <1> USE AddressPoolAssumption
  <1>1. TypeOK /\ row[i] = "away"
    BY DEF AddressInv, OperationFacts, OutDelete, At
  <1>2. UNCHANGED <<entries, issued, row, edit, typed>>
    BY DEF OutDelete
  <1>3. PICK ok \in BOOLEAN : Carried(i, "none", ok) /\ IF ok THEN Go(i, "out_release") ELSE Keeps(i)
    BY DEF OutDelete
  <1>4. /\ op' \in [Instance -> Operation] /\ \A j \in Instance \ {i} : op'[j] = op[j]
        /\ IF ok THEN op'[i].step = "out_release" ELSE op'[i].step \in {"idle", "kept"}
    BY <1>1, <1>3, GoFacts, StopFacts DEF Step
  <1>5. ~ok => op'[i].step = "kept"
    BY <1>1, <1>3, MovesFacts DEF Keeps, Step, Network
  <1>6. /\ guest' \in [Instance -> Network \cup {"none"}]
        /\ \A j \in Instance \ {i} : guest'[j] = guest[j]
        /\ guest'[i] \in {guest[i], "none"} /\ (ok => guest'[i] = "none")
    BY <1>1, <1>3, CarriedFacts
  <1>7. TypeOK'
    BY <1>1, <1>2, <1>4, <1>6 DEF TypeOK
  <1>8. OperationFacts(i)' /\ NoRowNoGuest(i)' /\ RowGoesOn(i) /\ Exists(i)'
    BY <1>1, <1>2, <1>4, <1>5, <1>6 DEF OperationFacts, NoRowNoGuest, Settled, RowGoesOn, Exists
  <1>9. Reserved(i)'
    BY <1>1, <1>2, <1>6 DEF AddressInv, Reserved, InUse, At, Holds
  <1> QED
    BY <1>2, <1>4, <1>6, <1>7, <1>8, <1>9, QuietStep

\* The entries here are given back once the guest is deleted.
LEMMA OutReleaseStep ==
    ASSUME AddressInv, NEW i \in Instance, OutRelease(i) PROVE AddressInv'
  <1> USE AddressPoolAssumption
  <1>1. TypeOK /\ row[i] = "away" /\ guest[i] = "none"
    BY DEF AddressInv, OperationFacts, NoRowNoGuest, Settled, OutRelease, At
  <1>2. op' \in [Instance -> Operation] /\ op'[i].step \in {"idle", "kept"} /\ \A j \in Instance \ {i} : op'[j] = op[j]
    BY <1>1, StopFacts DEF OutRelease
  <1>3. OperationFacts(i)'
    BY <1>2 DEF OperationFacts
  <1>4. CASE Release(Owned(i))
    <2>1. RowGoesOn(i) /\ row' \in [Instance -> Network \cup {"none", "away", "purged"}]
      BY <1>1 DEF OutRelease, RowGoesOn, TypeOK
    <2> QED
      BY <1>1, <1>2, <1>3, <1>4, <2>1, ReleaseStep DEF OutRelease
  <1>5. CASE UNCHANGED entries
    BY <1>1, <1>2, <1>3, <1>5, OpStep DEF OutRelease
  <1> QED
    BY <1>4, <1>5 DEF OutRelease

-----------------------------------------------------------------------------
(* The way in *)

\* An entry that is read as free has an id that was issued.
LEMMA InStartStep ==
    ASSUME AddressInv, NEW i \in Instance, InStart(i) PROVE AddressInv'
  <1> USE AddressPoolAssumption
  <1>1. TypeOK /\ row[i] = "away" /\ guest[i] = "none"
    BY DEF AddressInv, InStart
  <1>2. PICK e \in EntryId : entries[e].status = "free" /\ Moves(i, "in_check", "none", entries[e].ip, e)
    BY DEF InStart
  <1>3. entries[e].ip \in Network /\ e \in 1..issued
    <2>1. entries[e] \in Entry
      BY <1>1, <1>2 DEF TypeOK, Absent
    <2>2. entries[e] # Absent
      BY <1>2 DEF Absent
    <2> QED
      BY <1>1, <2>1, <2>2 DEF AddressInv, TypeOK, PoolInv, EntryId, Entry, Network
  <1>4. /\ op' \in [Instance -> Operation] /\ \A j \in Instance \ {i} : op'[j] = op[j]
        /\ op'[i].step = "in_check" /\ op'[i].ip = entries[e].ip /\ op'[i].entry = e
    BY <1>1, <1>2, <1>3, MovesFacts DEF Step
  <1>5. OperationFacts(i)'
    BY <1>1, <1>3, <1>4 DEF OperationFacts, InStart, SameEntry
  <1> QED
    BY <1>1, <1>4, <1>5, OpStep DEF InStart

\* The check keeps the entry and its address in mind.
LEMMA InCheckStep ==
    ASSUME AddressInv, NEW i \in Instance, InCheck(i) PROVE AddressInv'
  <1>1. TypeOK /\ row[i] = "away" /\ guest[i] = "none" /\ SameEntry(op[i].entry, op[i].ip)
    BY DEF AddressInv, OperationFacts, NoRowNoGuest, Settled, InCheck, At
  <1>2. Ends(i) \/ Go(i, "in_reserve")
    BY DEF InCheck
  <1>3. /\ op' \in [Instance -> Operation] /\ \A j \in Instance \ {i} : op'[j] = op[j]
        /\ \/ op'[i].step = "idle"
           \/ op'[i].step = "in_reserve" /\ op'[i].ip = op[i].ip /\ op'[i].entry = op[i].entry
    BY <1>1, <1>2, GoFacts, StopFacts DEF Step
  <1>4. OperationFacts(i)'
    BY <1>1, <1>3 DEF OperationFacts, InCheck, SameEntry
  <1> QED
    BY <1>1, <1>3, <1>4, OpStep DEF InCheck

\* The entry that was read may have been taken, or be gone, by now.
LEMMA InReserveStep ==
    ASSUME AddressInv, NEW i \in Instance, InReserve(i) PROVE AddressInv'
  <1> USE AddressPoolAssumption
  <1>1. TypeOK /\ row[i] = "away" /\ guest[i] = "none" /\ SameEntry(op[i].entry, op[i].ip)
    BY DEF AddressInv, OperationFacts, NoRowNoGuest, Settled, InReserve, At
  <1>2. UNCHANGED <<issued, row, guest, edit, typed>>
    BY DEF InReserve
  <1>3. CASE op[i].entry \in Takeable /\ AssignPoolEntry(op[i].entry, i) /\ Go(i, "in_import")
    <2> DEFINE e == op[i].entry
    <2>1. /\ e \in EntryId /\ entries[e] \in Entry /\ entries[e].owner = NoOwner
          /\ entries' \in [EntryId -> Entry \cup {Absent}]
          /\ \A f \in EntryId \ {e} : entries'[f] = entries[f]
          /\ entries'[e] = [ip |-> entries[e].ip, status |-> "assigned", owner |-> i]
      BY <1>1, <1>3, AssignFacts DEF Takeable
    <2>2. /\ op' \in [Instance -> Operation] /\ \A j \in Instance \ {i} : op'[j] = op[j]
          /\ op'[i].step = "in_import" /\ op'[i].ip = op[i].ip /\ op'[i].entry = e
      BY <1>1, <1>3, GoFacts DEF Step
    <2> HIDE DEF e
    <2>3. entries[e] # Absent
      BY <2>1 DEF Entry, Absent
    <2>4. SameEntry(e, op[i].ip)
      BY <1>1 DEF e
    <2>5. TypeOK'
      BY <1>1, <1>2, <2>1, <2>2 DEF TypeOK
    <2>6. NoRowNoGuest(i)' /\ Reserved(i)' /\ RowGoesOn(i) /\ Exists(i)'
      BY <1>1, <1>2 DEF NoRowNoGuest, Reserved, RowGoesOn, Exists
    <2>7. OperationFacts(i)'
      BY <1>1, <1>2, <2>1, <2>2, <2>3, <2>4 DEF OperationFacts, SameEntry
    <2>8. \A f \in EntryId :
              \/ entries'[f] = entries[f]
              \/ /\ entries[f] # Absent /\ entries'[f].ip = entries[f].ip
                 /\ entries[f].owner \in {i, NoOwner} /\ entries'[f].owner \in {i, NoOwner}
                 /\ entries'[f].status = "assigned" <=> entries'[f].owner # NoOwner
      BY <2>1, <2>3
    <2>9. \A j \in Instance \ {i} : /\ op'[j] = op[j] /\ row'[j] = row[j] /\ guest'[j] = guest[j]
                                    /\ j \in typed' <=> j \in typed
      BY <1>2, <2>2
    <2> QED
      BY <1>2, <2>5, <2>6, <2>7, <2>8, <2>9, InstanceStep
  <1>4. CASE Ends(i) /\ UNCHANGED entries
    <2>1. op' \in [Instance -> Operation] /\ op'[i].step = "idle" /\ \A j \in Instance \ {i} : op'[j] = op[j]
      BY <1>1, <1>4, StopFacts
    <2>2. OperationFacts(i)'
      BY <2>1 DEF OperationFacts
    <2> QED
      BY <1>1, <1>2, <1>4, <2>1, <2>2, OpStep
  <1> QED
    BY <1>3, <1>4 DEF InReserve

\* An entry that is owned has the address it was read with, and is assigned.
LEMMA OwnedHolds ==
    ASSUME AddressInv, NEW i \in Instance, SameEntry(op[i].entry, op[i].ip), entries[op[i].entry].owner = i
    PROVE  Holds(i, op[i].ip)
  <1> USE AddressPoolAssumption
  <1> DEFINE e == op[i].entry
  <1>1. e \in EntryId /\ SameEntry(e, op[i].ip) /\ entries[e].owner = i
    BY DEF AddressInv, TypeOK, SameEntry, EntryId
  <1> HIDE DEF e
  <1>2. entries[e] # Absent /\ entries[e].status = "assigned"
    BY <1>1 DEF AddressInv, NoOrphanEntry, Absent
  <1>3. entries[e] \in Entry /\ entries[e].ip = op[i].ip
    BY <1>1, <1>2 DEF AddressInv, TypeOK, SameEntry
  <1>4. entries[e] = [ip |-> op[i].ip, status |-> "assigned", owner |-> i]
    BY <1>1, <1>2, <1>3, EntryRecord
  <1> QED
    BY <1>1, <1>4 DEF Holds

\* The imported guest comes up with the address of the entry that was taken.
LEMMA InImportStep ==
    ASSUME AddressInv, NEW i \in Instance, InImport(i) PROVE AddressInv'
  <1> USE AddressPoolAssumption
  <1>1. /\ TypeOK /\ row[i] = "away" /\ guest[i] = "none" /\ op[i].ip \in Network
        /\ SameEntry(op[i].entry, op[i].ip) /\ entries[op[i].entry].owner = i
    BY DEF AddressInv, TypeOK, Operation, OperationFacts, NoRowNoGuest, Settled, InImport, At
  <1>2. UNCHANGED <<entries, issued, row, edit, typed>>
    BY DEF InImport
  <1>3. CASE Go(i, "in_release") /\ UNCHANGED guest
    <2>1. /\ op' \in [Instance -> Operation] /\ \A j \in Instance \ {i} : op'[j] = op[j]
          /\ op'[i].step = "in_release" /\ op'[i].ip = op[i].ip /\ op'[i].entry = op[i].entry
      BY <1>1, <1>3, GoFacts DEF Step
    <2>2. OperationFacts(i)'
      BY <1>1, <1>2, <1>3, <2>1 DEF OperationFacts, SameEntry
    <2> QED
      BY <1>1, <1>2, <1>3, <2>1, <2>2, OpStep
  <1>4. ASSUME NEW ok \in BOOLEAN, Carried(i, op[i].ip, ok), IF ok THEN Go(i, "in_switch") ELSE Keeps(i)
        PROVE  AddressInv'
    <2>1. /\ op' \in [Instance -> Operation] /\ \A j \in Instance \ {i} : op'[j] = op[j]
          /\ ok => op'[i].step = "in_switch" /\ op'[i].ip = op[i].ip /\ op'[i].entry = op[i].entry
      BY <1>1, <1>4, GoFacts, StopFacts DEF Step
    <2>2. ~ok => op'[i].step = "kept"
      BY <1>1, <1>4, MovesFacts DEF Keeps, Step, Network
    <2>3. /\ guest' \in [Instance -> Network \cup {"none"}]
          /\ \A j \in Instance \ {i} : guest'[j] = guest[j]
          /\ guest'[i] \in {"none", op[i].ip} /\ (ok => guest'[i] = op[i].ip)
      BY <1>1, <1>4, CarriedFacts
    <2>4. TypeOK'
      BY <1>1, <1>2, <2>1, <2>3 DEF TypeOK
    <2>5. OperationFacts(i)' /\ NoRowNoGuest(i)' /\ RowGoesOn(i) /\ Exists(i)'
      BY <1>1, <1>2, <2>1, <2>2, <2>3 DEF OperationFacts, SameEntry, NoRowNoGuest, Settled,
         RowGoesOn, Exists
    <2>6. Holds(i, op[i].ip)
      BY <1>1, OwnedHolds
    <2>7. Reserved(i)'
      BY <1>1, <1>2, <2>3, <2>6 DEF Reserved, Holds
    <2> QED
      BY <1>2, <2>1, <2>3, <2>4, <2>5, <2>7, QuietStep
  <1> QED
    BY <1>3, <1>4 DEF InImport

\* From the switch on the instance has this address from the pool.
LEMMA InSwitchStep ==
    ASSUME AddressInv, NEW i \in Instance, InSwitch(i) PROVE AddressInv'
  <1> USE AddressPoolAssumption
  <1>1. /\ TypeOK /\ row[i] = "away" /\ guest[i] = op[i].ip /\ op[i].ip \in Network
        /\ SameEntry(op[i].entry, op[i].ip) /\ entries[op[i].entry].owner = i
    BY DEF AddressInv, TypeOK, Operation, OperationFacts, InSwitch, At
  <1>2. UNCHANGED <<entries, issued, guest, edit>>
    BY DEF InSwitch
  <1>3. CASE row' = [row EXCEPT ![i] = op[i].ip] /\ Go(i, "in_finish") /\ typed' = typed \ {i}
    <2>1. /\ op' \in [Instance -> Operation] /\ \A j \in Instance \ {i} : op'[j] = op[j]
          /\ op'[i].step = "in_finish" /\ op'[i].ip = op[i].ip /\ op'[i].entry = op[i].entry
      BY <1>1, <1>3, GoFacts DEF Step
    <2>2. row'[i] = op[i].ip /\ \A j \in Instance \ {i} : row'[j] = row[j] /\ (j \in typed' <=> j \in typed)
      BY <1>1, <1>3 DEF TypeOK
    <2>3. TypeOK'
      BY <1>1, <1>2, <1>3, <2>1 DEF TypeOK
    <2>4. OperationFacts(i)' /\ NoRowNoGuest(i)' /\ RowGoesOn(i) /\ Exists(i)'
      BY <1>1, <1>2, <1>3, <2>1, <2>2 DEF OperationFacts, SameEntry, NoRowNoGuest, RowGoesOn, Exists, Network
    <2>5. Holds(i, op[i].ip)
      BY <1>1, OwnedHolds
    <2>6. Reserved(i)'
      BY <1>1, <1>2, <2>2, <2>5 DEF Reserved, Holds
    <2> QED
      BY <1>2, <2>1, <2>2, <2>3, <2>4, <2>6, QuietStep
  <1>4. CASE (Go(i, "in_undo") \/ Keeps(i)) /\ UNCHANGED <<row, typed>>
    <2>1. /\ op' \in [Instance -> Operation] /\ \A j \in Instance \ {i} : op'[j] = op[j]
          /\ \/ op'[i].step = "in_undo" /\ op'[i].ip = op[i].ip /\ op'[i].entry = op[i].entry
             \/ op'[i].step = "kept"
      BY <1>1, <1>4, GoFacts, MovesFacts DEF Keeps, Step, Network
    <2>2. OperationFacts(i)'
      BY <1>1, <1>2, <1>4, <2>1 DEF OperationFacts, SameEntry
    <2>3. ~Settled(i)'
      BY <2>1 DEF Settled
    <2> QED
      BY <1>1, <1>2, <1>4, <2>1, <2>2, <2>3, OpStep
  <1> QED
    BY <1>3, <1>4 DEF InSwitch

\* The end of a migration: it succeeded, or is taken for failed after the switch.
LEMMA InFinishStep ==
    ASSUME AddressInv, NEW i \in Instance, InFinish(i) PROVE AddressInv'
  <1> USE AddressPoolAssumption
  <1>1. /\ TypeOK /\ row[i] \in Network /\ row[i] = op[i].ip
        /\ SameEntry(op[i].entry, op[i].ip) /\ entries[op[i].entry].owner = i
    BY DEF AddressInv, TypeOK, Operation, OperationFacts, InFinish, At
  <1>2. UNCHANGED <<entries, issued, row, guest, edit, typed>>
    BY DEF InFinish
  <1>3. CASE Ends(i) \/ Keeps(i)
    <2>1. op' \in [Instance -> Operation] /\ op'[i].step \in {"idle", "kept"} /\ \A j \in Instance \ {i} : op'[j] = op[j]
      BY <1>1, <1>3, StopFacts
    <2>2. OperationFacts(i)'
      BY <2>1 DEF OperationFacts
    <2> QED
      BY <1>1, <1>2, <2>1, <2>2, OpStep DEF Network
  <1>4. CASE ReadFails /\ Go(i, "in_undo")
    <2>1. /\ op' \in [Instance -> Operation] /\ \A j \in Instance \ {i} : op'[j] = op[j]
          /\ op'[i].step = "in_undo" /\ op'[i].ip = op[i].ip /\ op'[i].entry = op[i].entry
      BY <1>1, <1>4, GoFacts DEF Step
    <2>2. OperationFacts(i)'
      BY <1>1, <1>2, <1>4, <2>1 DEF OperationFacts, SameEntry
    <2> QED
      BY <1>1, <1>2, <2>1, <2>2, OpStep DEF Network
  <1> QED
    BY <1>3, <1>4 DEF InFinish

\* The guest is deleted before its entry is given back.
LEMMA InUndoStep ==
    ASSUME AddressInv, NEW i \in Instance, InUndo(i) PROVE AddressInv'
  <1> USE AddressPoolAssumption
  <1>1. /\ TypeOK /\ SameEntry(op[i].entry, op[i].ip) /\ op[i].ip \in Network
        /\ row[i] = "away" \/ (ReadFails /\ row[i] = op[i].ip)
    BY DEF AddressInv, TypeOK, Operation, OperationFacts, InUndo, At
  <1>2. UNCHANGED <<entries, issued, row, edit, typed>>
    BY DEF InUndo
  <1>3. PICK ok \in BOOLEAN : Carried(i, "none", ok) /\ IF ok THEN Go(i, "in_release") ELSE Keeps(i)
    BY DEF InUndo
  <1>4. /\ op' \in [Instance -> Operation] /\ \A j \in Instance \ {i} : op'[j] = op[j]
        /\ ok => op'[i].step = "in_release" /\ op'[i].ip = op[i].ip /\ op'[i].entry = op[i].entry
    BY <1>1, <1>3, GoFacts, StopFacts DEF Step
  <1>5. ~ok => op'[i].step = "kept"
    BY <1>1, <1>3, MovesFacts DEF Keeps, Step, Network
  <1>6. /\ guest' \in [Instance -> Network \cup {"none"}]
        /\ \A j \in Instance \ {i} : guest'[j] = guest[j]
        /\ guest'[i] \in {guest[i], "none"} /\ (ok => guest'[i] = "none")
    BY <1>1, <1>3, CarriedFacts
  <1>7. TypeOK'
    BY <1>1, <1>2, <1>4, <1>6 DEF TypeOK
  <1>8. OperationFacts(i)' /\ NoRowNoGuest(i)' /\ RowGoesOn(i) /\ Exists(i)'
    BY <1>1, <1>2, <1>4, <1>5, <1>6 DEF OperationFacts, SameEntry, NoRowNoGuest, Settled,
       RowGoesOn, Exists, Network
  <1>9. Reserved(i)'
    BY <1>1, <1>2, <1>4, <1>5, <1>6 DEF AddressInv, Reserved, InUse, At, Holds
  <1> QED
    BY <1>2, <1>4, <1>6, <1>7, <1>8, <1>9, QuietStep

\* The entry of a migration that failed is given back.
LEMMA InReleaseStep ==
    ASSUME AddressInv, NEW i \in Instance, InRelease(i) PROVE AddressInv'
  <1> USE AddressPoolAssumption
  <1>1. /\ TypeOK /\ guest[i] = "none" /\ op[i].ip \in Network
        /\ row[i] = "away" \/ (ReadFails /\ row[i] = op[i].ip)
    BY DEF AddressInv, TypeOK, Operation, OperationFacts, InRelease, At
  <1>2. op' \in [Instance -> Operation] /\ op'[i].step \in {"idle", "kept"} /\ \A j \in Instance \ {i} : op'[j] = op[j]
    BY <1>1, StopFacts DEF InRelease
  <1>3. OperationFacts(i)'
    BY <1>2 DEF OperationFacts
  <1>4. CASE Release({op[i].entry} \cap Owned(i))
    <2>1. RowGoesOn(i) /\ row' \in [Instance -> Network \cup {"none", "away", "purged"}]
      BY <1>1 DEF InRelease, RowGoesOn, TypeOK
    <2>2. {op[i].entry} \cap Owned(i) \subseteq Owned(i)
      OBVIOUS
    <2> QED
      BY <1>1, <1>2, <1>3, <1>4, <2>1, <2>2, ReleaseStep DEF InRelease
  <1>5. CASE UNCHANGED entries
    BY <1>1, <1>2, <1>3, <1>5, OpStep DEF InRelease
  <1> QED
    BY <1>4, <1>5 DEF InRelease

-----------------------------------------------------------------------------
(* Failures *)

\* A fence that is left behind promises nothing about the guest.
LEMMA CrashStep ==
    ASSUME AddressInv, NEW i \in Instance, Crash(i) PROVE AddressInv'
  <1>1. TypeOK
    BY DEF AddressInv
  <1>2. op' \in [Instance -> Operation] /\ op'[i].step = "kept" /\ \A j \in Instance \ {i} : op'[j] = op[j]
    BY <1>1, MovesFacts DEF Crash, Keeps, Step, Network
  <1>3. OperationFacts(i)' /\ ~Settled(i)'
    BY <1>2 DEF OperationFacts, Settled
  <1> QED
    BY <1>2, <1>3, OpStep DEF Crash

\* The operator leaves no guest of an instance that is on another node.
LEMMA RecoverStep ==
    ASSUME AddressInv, NEW i \in Instance, Recover(i) PROVE AddressInv'
  <1> USE AddressPoolAssumption
  <1>1. TypeOK
    BY DEF AddressInv
  <1>2. op' \in [Instance -> Operation] /\ op'[i].step = "idle" /\ \A j \in Instance \ {i} : op'[j] = op[j]
    BY <1>1, StopFacts DEF Recover
  <1>3. /\ guest' \in [Instance -> Network \cup {"none"}]
        /\ \A j \in Instance \ {i} : guest'[j] = guest[j]
        /\ guest'[i] \in {guest[i], "none"} /\ (row[i] = "away" => guest'[i] = "none")
    BY <1>1 DEF Recover, TypeOK
  <1>4. UNCHANGED <<entries, issued, row, edit, typed>>
    BY DEF Recover
  <1>5. TypeOK'
    BY <1>1, <1>2, <1>3, <1>4 DEF TypeOK
  <1>6. OperationFacts(i)' /\ NoRowNoGuest(i)' /\ RowGoesOn(i)
    BY <1>2, <1>3, <1>4 DEF AddressInv, OperationFacts, NoRowNoGuest, RowGoesOn
  <1>7. Reserved(i)'
    BY <1>2, <1>3, <1>4 DEF AddressInv, Reserved, InUse, At, Holds
  <1> QED
    BY <1>2, <1>3, <1>4, <1>5, <1>6, <1>7, QuietStep DEF Exists

-----------------------------------------------------------------------------
(* The pool's own handlers *)

\* A step that only moves a request on.
LEMMA AskStep ==
    ASSUME AddressInv, NEW a \in Admin, UNCHANGED <<entries, issued, row, guest, op, typed>>,
           edit' \in [Admin -> Request], \A b \in Admin \ {a} : edit'[b] = edit[b], RequestFacts(a)'
    PROVE  AddressInv'
  <1> USE AddressPoolAssumption
  <1>1. TypeOK' /\ PoolInv' /\ IdsStay /\ OwnedStay
    BY DEF AddressInv, TypeOK, PoolInv, IdsStay, EntryId, OwnedStay
  <1>2. \A e \in EntryId : entries[e].owner = NoOwner =>
                               entries'[e].status # "assigned" /\ entries'[e].owner = NoOwner
    BY DEF AddressInv, NoOrphanEntry
  <1> QED
    BY <1>1, <1>2, AdminStep

\* An answered request knows nothing more.
LEMMA AnsweredFacts ==
    ASSUME TypeOK, NEW a \in Admin, Answered(a)
    PROVE  edit' \in [Admin -> Request] /\ (\A b \in Admin \ {a} : edit'[b] = edit[b]) /\ RequestFacts(a)'
  <1>1. /\ edit' \in [Admin -> Request] /\ \A b \in Admin \ {a} : edit'[b] = edit[b]
        /\ edit'[a].step = "idle"
    BY AsksFacts DEF Answered
  <1> QED
    BY <1>1 DEF RequestFacts

\* What is to be added is free.
LEMMA AddStartStep ==
    ASSUME AddressInv, NEW a \in Admin, NEW ip \in Address, AddStart(a, ip) PROVE AddressInv'
  <1> DEFINE n == [ip |-> ip, status |-> "free", owner |-> NoOwner]
  <1>1. TypeOK /\ n \in Entry
    BY DEF AddressInv, Entry
  <1>2. Asks(a, "insert", "none", NoEntry, n)
    BY DEF AddStart
  <1>3. /\ edit' \in [Admin -> Request] /\ \A b \in Admin \ {a} : edit'[b] = edit[b]
        /\ edit'[a].step = "insert" /\ edit'[a].seen = n
    BY <1>1, <1>2, AsksFacts
  <1>4. RequestFacts(a)'
    BY <1>3 DEF RequestFacts
  <1> QED
    BY <1>3, <1>4, AskStep DEF AddStart

\* The new entry is free, under an id and an address that no other has.
LEMMA AddInsertStep ==
    ASSUME AddressInv, NEW a \in Admin, AddInsert(a) PROVE AddressInv' /\ OwnedStay /\ NobodysStay
  <1> USE AddressPoolAssumption
  <1>1. TypeOK /\ issued \in 0..MaxEntry
    BY DEF AddressInv, TypeOK
  <1>2. edit' \in [Admin -> Request] /\ (\A b \in Admin \ {a} : edit'[b] = edit[b]) /\ RequestFacts(a)'
    BY <1>1, AnsweredFacts DEF AddInsert
  <1>3. CASE UNCHANGED <<issued, entries>>
    BY <1>2, <1>3, AskStep DEF AddInsert, OwnedStay, NobodysStay
  <1>4. CASE /\ issued < MaxEntry /\ ~\E e \in EntryId : entries[e].ip = edit[a].seen.ip
             /\ issued' = issued + 1 /\ entries' = [entries EXCEPT ![issued + 1] = edit[a].seen]
    <2> DEFINE n == edit[a].seen
               k == issued + 1
    <2>1. n.ip \in Address /\ n.status = "free" /\ n.owner = NoOwner /\ n \in Entry \cup {Absent}
      BY <1>1 DEF AddressInv, RequestFacts, AddInsert, TypeOK, Request
    <2>2. n \in Entry
      BY <2>1 DEF Absent
    <2>3. k \in EntryId /\ entries[k] = Absent
      BY <1>1, <1>4 DEF AddressInv, PoolInv, EntryId
    <2>4. entries'[k] = n /\ (\A f \in EntryId \ {k} : entries'[f] = entries[f]) /\ issued' = k
      BY <1>1, <1>4, <2>3 DEF TypeOK
    <2>5. entries' \in [EntryId -> Entry \cup {Absent}]
      BY <1>1, <1>4, <2>2 DEF TypeOK
    <2>6. \A f \in EntryId : entries[f].ip # n.ip
      BY <1>4
    <2>7. k \in Nat /\ k > issued /\ issued' \in 0..MaxEntry
      BY <1>1, <1>4
    <2> HIDE DEF n, k
    <2>8. TypeOK'
      BY <1>1, <1>2, <2>5, <2>7 DEF AddInsert, TypeOK
    <2>9. IdsStay
      BY <1>1, <2>4, <2>7 DEF IdsStay, EntryId
    <2>10. PoolInv'
      <3>1. \A e, f \in EntryId : entries'[e].ip = entries'[f].ip /\ entries'[e] # Absent => e = f
        BY <2>4, <2>6 DEF AddressInv, PoolInv
      <3>2. \A e \in EntryId : e > issued' => entries'[e] = Absent
        BY <1>1, <2>4, <2>7 DEF AddressInv, PoolInv, EntryId
      <3> QED
        BY <3>1, <3>2 DEF PoolInv
    <2>11. OwnedStay
      BY <2>3, <2>4 DEF Absent, OwnedStay
    <2>12. \A e \in EntryId : entries[e].owner = NoOwner =>
                                  entries'[e].status # "assigned" /\ entries'[e].owner = NoOwner
      BY <2>1, <2>4 DEF AddressInv, NoOrphanEntry, n
    <2> QED
      BY <1>2, <2>8, <2>9, <2>10, <2>11, <2>12, AdminStep DEF AddInsert, NobodysStay
  <1> QED
    BY <1>3, <1>4 DEF AddInsert

\* What is read was consistent when it was read.
LEMMA UpdateStartStep ==
    ASSUME AddressInv, NEW a \in Admin, NEW e \in EntryId, NEW w \in {"free", "disabled", "note"},
           UpdateStart(a, e, w)
    PROVE  AddressInv'
  <1> USE AddressPoolAssumption
  <1>1. TypeOK
    BY DEF AddressInv
  <1>2. entries[e] \in Entry /\ e \in 1..issued
    BY <1>1 DEF AddressInv, TypeOK, PoolInv, EntryId, UpdateStart
  <1>3. /\ entries[e].status = "assigned" <=> entries[e].owner # NoOwner
        /\ entries[e].owner # NoOwner => row[entries[e].owner] # "none"
    BY DEF AddressInv, NoOrphanEntry, Exists, Network
  <1>4. /\ edit' \in [Admin -> Request] /\ \A b \in Admin \ {a} : edit'[b] = edit[b]
        /\ edit'[a].want = w /\ edit'[a].entry = e /\ edit'[a].seen = entries[e]
        /\ edit'[a].step = IF entries[e].owner = NoOwner \/ w = "note" THEN "write" ELSE "check"
    BY <1>1, <1>2, AsksFacts DEF UpdateStart
  <1>5. RequestFacts(a)'
    BY <1>2, <1>3, <1>4 DEF RequestFacts, SameEntry, UpdateStart
  <1> QED
    BY <1>4, <1>5, AskStep DEF UpdateStart

\* An owner whose row is gone does not come back.
LEMMA UpdateCheckStep ==
    ASSUME AddressInv, NEW a \in Admin, UpdateCheck(a) PROVE AddressInv'
  <1> USE AddressPoolAssumption
  <1>1. TypeOK /\ edit[a] \in Request /\ RequestFacts(a) /\ edit[a].step = "check"
    BY DEF AddressInv, TypeOK, UpdateCheck
  <1>2. CASE Answered(a)
    BY <1>1, <1>2, AnsweredFacts, AskStep DEF UpdateCheck
  <1>3. CASE /\ ~Exists(edit[a].seen.owner) /\ edit[a].want = "free"
             /\ Asks(a, "write", edit[a].want, edit[a].entry, edit[a].seen)
    <2>1. /\ edit' \in [Admin -> Request] /\ \A b \in Admin \ {a} : edit'[b] = edit[b]
          /\ edit'[a].want = "free" /\ edit'[a].entry = edit[a].entry /\ edit'[a].seen = edit[a].seen
          /\ edit'[a].step = "write"
      BY <1>1, <1>3, AsksFacts DEF Request
    <2>2. edit[a].seen.owner \in Instance /\ row[edit[a].seen.owner] = "purged"
      BY <1>1, <1>3 DEF RequestFacts, Entry, Exists, TypeOK
    <2>3. RequestFacts(a)'
      BY <1>1, <2>1, <2>2 DEF RequestFacts, SameEntry, UpdateCheck
    <2> QED
      BY <2>1, <2>3, AskStep DEF UpdateCheck
  <1> QED
    BY <1>2, <1>3 DEF UpdateCheck

\* What is written compares with what was read: an entry that has an owner now
\* had it then, and is only written back as it is.
LEMMA UpdateWriteStep ==
    ASSUME AddressInv, NEW a \in Admin, UpdateWrite(a) PROVE AddressInv' /\ OwnedStay /\ NobodysStay
  <1> USE AddressPoolAssumption
  <1> DEFINE e == edit[a].entry
             n == edit[a].seen
             w == edit[a].want
  <1>1. TypeOK /\ RequestFacts(a) /\ edit[a].step = "write"
    BY DEF AddressInv, UpdateWrite
  <1>2. edit' \in [Admin -> Request] /\ (\A b \in Admin \ {a} : edit'[b] = edit[b]) /\ RequestFacts(a)'
    BY <1>1, AnsweredFacts DEF UpdateWrite
  <1>3. UNCHANGED <<issued, row, guest, op, typed>>
    BY DEF UpdateWrite
  <1>4. CASE ~Unchanged(a)
    BY <1>2, <1>4, AskStep DEF UpdateWrite, OwnedStay, NobodysStay
  <1>5. CASE Unchanged(a)
    <2>1. /\ e \in EntryId /\ (entries[e] = Absent \/ entries[e].ip = n.ip) /\ n \in Entry
          /\ entries[e].status = n.status /\ entries[e].owner = n.owner
          /\ w \in {"free", "disabled", "note"}
          /\ w = "free" /\ n.owner # NoOwner => row[n.owner] = "purged"
          /\ w = "disabled" => n.owner = NoOwner
      BY <1>1, <1>5 DEF RequestFacts, SameEntry, Unchanged, TypeOK, EntryId
    <2>2. entries' = [entries EXCEPT ![e] =
                CASE w = "note" -> n
                  [] w = "free" -> [entries[e] EXCEPT !.status = "free", !.owner = NoOwner]
                  [] OTHER -> [entries[e] EXCEPT !.status = "disabled"]]
      BY <1>5 DEF UpdateWrite
    <2> HIDE DEF e, n, w
    <2>3. entries[e] # Absent /\ entries[e] \in Entry
      BY <1>1, <2>1 DEF Entry, Absent, TypeOK
    <2>4. entries[e] = n
      BY <2>1, <2>3, EntryRecord
    <2>5. /\ entries[e].status = "assigned" <=> entries[e].owner # NoOwner
          /\ w # "note" => entries[e].owner = NoOwner
      BY <2>1, <2>4 DEF AddressInv, NoOrphanEntry, Exists, Network
    <2>6. PICK m \in Entry : /\ entries' = [entries EXCEPT ![e] = m] /\ m.ip = entries[e].ip
                             /\ entries[e].owner # NoOwner => m = entries[e]
                             /\ entries[e].owner = NoOwner => m.status # "assigned" /\ m.owner = NoOwner
      <3>1. CASE w = "note"
        BY <2>2, <2>3, <2>4, <2>5, <3>1
      <3>2. CASE w = "free"
        <4> DEFINE m == [entries[e] EXCEPT !.status = "free", !.owner = NoOwner]
        <4>1. m \in Entry /\ m.ip = entries[e].ip /\ m.status = "free" /\ m.owner = NoOwner
          BY <2>3 DEF Entry
        <4>2. entries' = [entries EXCEPT ![e] = m]
          BY <2>2, <3>2
        <4> HIDE DEF m
        <4> QED
          BY <2>5, <3>2, <4>1, <4>2
      <3>3. CASE w = "disabled"
        <4> DEFINE m == [entries[e] EXCEPT !.status = "disabled"]
        <4>1. m \in Entry /\ m.ip = entries[e].ip /\ m.status = "disabled" /\ m.owner = entries[e].owner
          BY <2>3 DEF Entry
        <4>2. entries' = [entries EXCEPT ![e] = m]
          BY <2>2, <3>3
        <4> HIDE DEF m
        <4> QED
          BY <2>5, <3>3, <4>1, <4>2
      <3> QED
        BY <2>1, <3>1, <3>2, <3>3
    <2>7. entries'[e] = m /\ (\A f \in EntryId \ {e} : entries'[f] = entries[f])
      BY <1>1, <2>1, <2>6 DEF TypeOK
    <2>8. TypeOK'
      BY <1>1, <1>2, <1>3, <2>6 DEF TypeOK
    <2>9. IdsStay
      BY <1>1, <1>3, <2>3, <2>6, <2>7 DEF IdsStay, TypeOK, EntryId
    <2>10. PoolInv'
      <3>1. \A f \in EntryId : entries'[f].ip = entries[f].ip /\ (entries'[f] # Absent => entries[f] # Absent)
        BY <2>3, <2>6, <2>7
      <3> QED
        BY <1>3, <2>1, <2>3, <2>7, <3>1 DEF AddressInv, PoolInv
    <2>11. OwnedStay
      BY <2>6, <2>7 DEF OwnedStay
    <2>12. \A f \in EntryId : entries[f].owner = NoOwner =>
                                  entries'[f].status # "assigned" /\ entries'[f].owner = NoOwner
      BY <2>6, <2>7 DEF AddressInv, NoOrphanEntry
    <2> QED
      BY <1>2, <1>3, <2>8, <2>9, <2>10, <2>11, <2>12, AdminStep DEF NobodysStay
  <1> QED
    BY <1>4, <1>5

\* A deletion only remembers the id.
LEMMA DeleteStartStep ==
    ASSUME AddressInv, NEW a \in Admin, NEW e \in EntryId, DeleteStart(a, e) PROVE AddressInv'
  <1>1. TypeOK
    BY DEF AddressInv
  <1>2. /\ edit' \in [Admin -> Request] /\ \A b \in Admin \ {a} : edit'[b] = edit[b]
        /\ edit'[a].step = "delete" /\ edit'[a].entry = e
    BY <1>1, AsksFacts DEF DeleteStart
  <1>3. RequestFacts(a)'
    BY <1>2 DEF RequestFacts
  <1> QED
    BY <1>2, <1>3, AskStep DEF DeleteStart

\* The entry that is deleted has no owner at that moment.
LEMMA DeleteWriteStep ==
    ASSUME AddressInv, NEW a \in Admin, DeleteWrite(a) PROVE AddressInv' /\ OwnedStay /\ NobodysStay
  <1> USE AddressPoolAssumption
  <1> DEFINE e == edit[a].entry
  <1>1. TypeOK /\ e \in EntryId
    BY DEF AddressInv, RequestFacts, DeleteWrite
  <1>2. edit' \in [Admin -> Request] /\ (\A b \in Admin \ {a} : edit'[b] = edit[b]) /\ RequestFacts(a)'
    BY <1>1, AnsweredFacts DEF DeleteWrite
  <1>3. UNCHANGED <<issued, row, guest, op, typed>>
    BY DEF DeleteWrite
  <1>4. CASE ~Deletable(e)
    BY <1>2, <1>4, AskStep DEF DeleteWrite, OwnedStay, NobodysStay
  <1>5. CASE Deletable(e)
    <2>1. entries[e].owner = NoOwner
      BY <1>5 DEF Deletable
    <2>2. entries' = [entries EXCEPT ![e] = Absent]
      BY <1>5 DEF DeleteWrite
    <2> HIDE DEF e
    <2>3. entries'[e] = Absent /\ (\A f \in EntryId \ {e} : entries'[f] = entries[f])
      BY <1>1, <2>2 DEF TypeOK
    <2>4. TypeOK'
      BY <1>1, <1>2, <1>3, <2>2 DEF TypeOK
    <2>5. IdsStay
      BY <1>1, <1>3, <2>3 DEF IdsStay, TypeOK, EntryId
    <2>6. PoolInv'
      <3>1. \A f, g \in EntryId : entries'[f].ip = entries'[g].ip /\ entries'[f] # Absent => f = g
        <4>1. \A f \in EntryId : entries[f] # Absent => entries[f].ip \in Address
          BY <1>1 DEF TypeOK, Entry
        <4>2. Absent.ip = NoAddress
          BY DEF Absent
        <4> QED
          BY <2>3, <4>1, <4>2 DEF AddressInv, PoolInv
      <3>2. \A f \in EntryId : f > issued' => entries'[f] = Absent
        BY <1>3, <2>3 DEF AddressInv, PoolInv
      <3> QED
        BY <3>1, <3>2 DEF PoolInv
    <2>7. OwnedStay
      BY <2>1, <2>3 DEF OwnedStay
    <2>8. \A f \in EntryId : entries[f].owner = NoOwner =>
                                 entries'[f].status # "assigned" /\ entries'[f].owner = NoOwner
      BY <2>3 DEF AddressInv, NoOrphanEntry, Absent
    <2> QED
      BY <1>2, <1>3, <2>4, <2>5, <2>6, <2>7, <2>8, AdminStep DEF NobodysStay
  <1> QED
    BY <1>4, <1>5

-----------------------------------------------------------------------------
(* The invariant *)

\* An empty pool, and instances that are elsewhere or nowhere.
LEMMA InitInv == Init => AddressInv
  <1> SUFFICES ASSUME Init PROVE AddressInv
    OBVIOUS
  <1> USE AddressPoolAssumption
  <1>1. Idle \in Operation /\ EditIdle \in Request
    BY DEF Idle, EditIdle, Operation, Request, Step, Network
  <1>2. TypeOK
    BY <1>1 DEF Init, TypeOK
  <1>3. PoolInv /\ NoOrphanEntry
    BY DEF Init, PoolInv, NoOrphanEntry, Absent
  <1>4. \A i \in Instance : Reserved(i)
    BY DEF Init, Reserved
  <1>5. \A i \in Instance : NoRowNoGuest(i) /\ OperationFacts(i)
    BY DEF Init, NoRowNoGuest, OperationFacts, Idle
  <1>6. \A a \in Admin : RequestFacts(a)
    BY DEF Init, RequestFacts, EditIdle
  <1> QED
    BY <1>2, <1>3, <1>4, <1>5, <1>6 DEF AddressInv

\* One step of anybody keeps all of it.
LEMMA NextInv == AddressInv /\ [Next]_vars => AddressInv'
  <1> SUFFICES ASSUME AddressInv, [Next]_vars PROVE AddressInv'
    OBVIOUS
  <1>1. CASE UNCHANGED vars
    BY <1>1 DEF vars, AddressInv, TypeOK, PoolInv, NoOrphanEntry, Reserved, InUse, At, Holds, Exists,
       NoRowNoGuest, Settled, OperationFacts, SameEntry, RequestFacts
  <1>2. CASE Create
    BY <1>2, CreateStartStep, CreateCheckStep, CreateReserveStep, CreateRefusedStep, CreateCallStep
       DEF Create
  <1>3. CASE Configure
    BY <1>3, ConfigureStartStep, ConfigureCallStep, ConfigureStoreStep DEF Configure
  <1>4. CASE Purge
    BY <1>4, PurgeStartStep, PurgeCallStep, PurgeReleaseStep DEF Purge
  <1>5. CASE MoveOut
    BY <1>5, OutStartStep, OutSwitchStep, OutDeleteStep, OutReleaseStep DEF MoveOut
  <1>6. CASE MoveIn
    BY <1>6, InStartStep, InCheckStep, InReserveStep, InImportStep, InSwitchStep, InFinishStep,
       InUndoStep, InReleaseStep DEF MoveIn
  <1>7. CASE Edit
    BY <1>7, AddStartStep, AddInsertStep, UpdateStartStep, UpdateCheckStep, UpdateWriteStep,
       DeleteStartStep, DeleteWriteStep DEF Edit
  <1>8. CASE Fail
    BY <1>8, CrashStep, RecoverStep DEF Fail
  <1> QED
    BY <1>1, <1>2, <1>3, <1>4, <1>5, <1>6, <1>7, <1>8 DEF Next

\* What a step takes from an owner it takes over a guest that is gone.
LEMMA TakenOver ==
    ASSUME AddressInv, [Next]_vars, NEW e \in EntryId, NEW i \in Instance, entries[e].owner = i, entries'[e].owner # i
    PROVE  guest[i] = "none"
  <1> USE AddressPoolAssumption
  <1>1. TypeOK /\ e \notin Takeable /\ entries'[e] # entries[e] /\ entries' # entries
    BY DEF AddressInv, Takeable
  <1>2. ASSUME NEW j \in Instance, CreateReserve(j) \/ InReserve(j) PROVE FALSE
    <2>1. PICK f \in Takeable : AssignPoolEntry(f, j)
      BY <1>1, <1>2 DEF CreateReserve, InReserve
    <2>2. \A g \in EntryId \ {f} : entries'[g] = entries[g]
      BY <1>1, <2>1, AssignFacts
    <2> QED
      BY <1>1, <2>2
  <1>3. ASSUME NEW j \in Instance, PurgeRelease(j) \/ OutRelease(j) \/ InRelease(j) PROVE guest[i] = "none"
    <2>1. PICK E \in SUBSET Owned(j) : Release(E)
      BY <1>1, <1>3 DEF PurgeRelease, OutRelease, InRelease
    <2>2. e \in E
      BY <1>1, <2>1, ReleaseFacts
    <2>3. i = j
      BY <2>1, <2>2 DEF Owned
    <2>4. guest[j] = "none"
      BY <1>3 DEF AddressInv, OperationFacts, NoRowNoGuest, Settled, PurgeRelease, OutRelease,
         InRelease, At
    <2> QED
      BY <2>3, <2>4
  <1>4. ASSUME NEW a \in Admin, AddInsert(a) \/ UpdateWrite(a) \/ DeleteWrite(a) PROVE FALSE
    BY <1>1, <1>4, AddInsertStep, UpdateWriteStep, DeleteWriteStep DEF OwnedStay
  <1>5. CASE UNCHANGED vars
    BY <1>1, <1>5 DEF vars
  <1>6. CASE Create
    BY <1>1, <1>2, <1>6 DEF Create, CreateStart, CreateCheck, CreateRefused, CreateCall
  <1>7. CASE Configure
    BY <1>1, <1>7 DEF Configure, ConfigureStart, ConfigureCall, ConfigureStore
  <1>8. CASE Purge
    BY <1>1, <1>3, <1>8 DEF Purge, PurgeStart, PurgeCall
  <1>9. CASE MoveOut
    BY <1>1, <1>3, <1>9 DEF MoveOut, OutStart, OutSwitch, OutDelete
  <1>10. CASE MoveIn
    BY <1>1, <1>2, <1>3, <1>10 DEF MoveIn, InStart, InCheck, InImport, InSwitch, InFinish, InUndo
  <1>11. CASE Edit
    BY <1>1, <1>4, <1>11 DEF Edit, AddStart, UpdateStart, UpdateCheck, DeleteStart
  <1>12. CASE Fail
    BY <1>1, <1>12 DEF Fail, Crash, Recover
  <1> QED
    BY <1>5, <1>6, <1>7, <1>8, <1>9, <1>10, <1>11, <1>12 DEF Next

\* What is out of service is not free, and only what is free is taken.
LEMMA NotTaken ==
    ASSUME AddressInv, [Next]_vars, NEW e \in EntryId, entries[e].status = "disabled"
    PROVE  entries'[e].owner = NoOwner
  <1> USE AddressPoolAssumption
  <1>1. TypeOK /\ e \notin Takeable /\ entries[e].owner = NoOwner
    BY DEF AddressInv, NoOrphanEntry, Takeable
  <1>2. ASSUME NEW j \in Instance, CreateReserve(j) \/ InReserve(j) PROVE entries'[e].owner = NoOwner
    <2>1. CASE \E f \in Takeable : AssignPoolEntry(f, j)
      BY <1>1, <2>1, AssignFacts
    <2>2. CASE UNCHANGED entries
      BY <1>1, <2>2
    <2> QED
      BY <1>2, <2>1, <2>2 DEF CreateReserve, InReserve
  <1>3. ASSUME NEW j \in Instance, PurgeRelease(j) \/ OutRelease(j) \/ InRelease(j)
        PROVE  entries'[e].owner = NoOwner
    <2>1. CASE \E E \in SUBSET Owned(j) : Release(E)
      <3>1. PICK E \in SUBSET Owned(j) : Release(E)
        BY <2>1
      <3>2. e \notin E
        BY <1>1 DEF Owned
      <3> QED
        BY <1>1, <3>1, <3>2, ReleaseFacts
    <2>2. CASE UNCHANGED entries
      BY <1>1, <2>2
    <2>3. {op[j].entry} \cap Owned(j) \in SUBSET Owned(j) /\ Owned(j) \in SUBSET Owned(j)
      OBVIOUS
    <2> QED
      BY <1>3, <2>1, <2>2, <2>3 DEF PurgeRelease, OutRelease, InRelease
  <1>4. ASSUME NEW a \in Admin, AddInsert(a) \/ UpdateWrite(a) \/ DeleteWrite(a)
        PROVE  entries'[e].owner = NoOwner
    BY <1>1, <1>4, AddInsertStep, UpdateWriteStep, DeleteWriteStep DEF NobodysStay
  <1>5. CASE UNCHANGED vars
    BY <1>1, <1>5 DEF vars
  <1>6. CASE Create
    BY <1>1, <1>2, <1>6 DEF Create, CreateStart, CreateCheck, CreateRefused, CreateCall
  <1>7. CASE Configure
    BY <1>1, <1>7 DEF Configure, ConfigureStart, ConfigureCall, ConfigureStore
  <1>8. CASE Purge
    BY <1>1, <1>3, <1>8 DEF Purge, PurgeStart, PurgeCall
  <1>9. CASE MoveOut
    BY <1>1, <1>3, <1>9 DEF MoveOut, OutStart, OutSwitch, OutDelete
  <1>10. CASE MoveIn
    BY <1>1, <1>2, <1>3, <1>10 DEF MoveIn, InStart, InCheck, InImport, InSwitch, InFinish, InUndo
  <1>11. CASE Edit
    BY <1>1, <1>4, <1>11 DEF Edit, AddStart, UpdateStart, UpdateCheck, DeleteStart
  <1>12. CASE Fail
    BY <1>1, <1>12 DEF Fail, Crash, Recover
  <1> QED
    BY <1>5, <1>6, <1>7, <1>8, <1>9, <1>10, <1>11, <1>12 DEF Next

\* All of AddressInv holds through creates, network changes, purges, moves and
\* edits that overlap, fail, stop in the middle and are cleared by the operator.
THEOREM AddressPoolInvariant == Spec => []AddressInv
  <1>1. AddressInv /\ [Next]_vars => AddressInv'
    BY NextInv
  <1> QED
    BY <1>1, InitInv, PTL DEF Spec

\* An address from the pool is assigned to the instance for as long as its row
\* or its guest has it (PurgeInstance, releaseMigrationReservations,
\* UpdateIPPoolEntry), if the last read of a migration does not fail: a failure
\* has the entry given back under a row that was switched already.
THEOREM AddressesReserved == ~ReadFails => (Spec => []PoolAddressReserved)
  <1> SUFFICES ASSUME ~ReadFails PROVE Spec => []PoolAddressReserved
    OBVIOUS
  <1>1. AddressInv => PoolAddressReserved
    BY DEF AddressInv, Reserved, InUse, PoolAddressReserved
  <1> QED
    BY <1>1, AddressPoolInvariant, PTL

\* No two guests of the node have the same address, unless one of them was given
\* it by hand: an address has one entry, and an entry one owner.  Also when that
\* read fails, because no guest comes back to a row that lost its entry.
THEOREM SharedByHand == Spec => []SharedOnlyByHand
  <1>1. AddressInv => SharedOnlyByHand
    <2> SUFFICES ASSUME AddressInv, NEW i \in Instance \ typed, NEW j \in Instance \ typed,
                        NEW a \in Address, i # j, guest[i] = a, guest[j] = a
                 PROVE  FALSE
      BY DEF SharedOnlyByHand
    <2>1. Holds(i, a) /\ Holds(j, a)
      BY DEF AddressInv, Reserved
    <2>2. PICK e \in EntryId : entries[e] = [ip |-> a, status |-> "assigned", owner |-> i]
      BY <2>1 DEF Holds
    <2>3. PICK f \in EntryId : entries[f] = [ip |-> a, status |-> "assigned", owner |-> j]
      BY <2>1 DEF Holds
    <2>4. entries[e].ip = entries[f].ip /\ entries[e].status = "assigned"
      BY <2>2, <2>3
    <2>5. e = f
      BY <2>4 DEF AddressInv, PoolInv, Absent
    <2> QED
      BY <2>2, <2>3, <2>5
  <1> QED
    BY <1>1, AddressPoolInvariant, PTL

\* An entry is assigned exactly when it has an owner whose row is there.
THEOREM NoOrphans == Spec => []NoOrphanEntry
  <1>1. AddressInv => NoOrphanEntry
    BY DEF AddressInv
  <1> QED
    BY <1>1, AddressPoolInvariant, PTL

\* Every variable keeps its type: an edit writes only what an entry can be.
THEOREM TypeCorrect == Spec => []TypeOK
  <1>1. AddressInv => TypeOK
    BY DEF AddressInv
  <1> QED
    BY <1>1, AddressPoolInvariant, PTL

\* No step takes an entry from its owner before the owner's guest is gone.
THEOREM OwnersKeepTheirs == Spec => OwnershipKept
  <1> DEFINE Kept == \A e \in EntryId : \A i \in Instance :
                         entries[e].owner = i /\ entries'[e].owner # i => guest[i] = "none"
  <1>1. AddressInv /\ [Next]_vars => [Kept]_vars
    BY TakenOver
  <1> HIDE DEF Kept
  <1>2. [][Kept]_vars => OwnershipKept
    BY PTL DEF OwnershipKept, Kept
  <1> QED
    BY <1>1, <1>2, AddressPoolInvariant, PTL DEF Spec

\* An entry that an administrator has taken out of service goes to nobody.
THEOREM OutOfService == Spec => OutOfServiceStays
  <1> DEFINE Stays == \A e \in EntryId : entries[e].status = "disabled" => entries'[e].owner = NoOwner
  <1>1. AddressInv /\ [Next]_vars => [Stays]_vars
    BY NotTaken
  <1> HIDE DEF Stays
  <1>2. [][Stays]_vars => OutOfServiceStays
    BY PTL DEF OutOfServiceStays, Stays
  <1> QED
    BY <1>1, <1>2, AddressPoolInvariant, PTL DEF Spec
================================================================================
