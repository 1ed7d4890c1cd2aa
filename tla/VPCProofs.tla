------------------------------ MODULE VPCProofs ------------------------------
(***************************************************************************)
(* Safety of a private network for every set of rows, instances and        *)
(* administrators: VPCInv is inductive.                                    *)
(***************************************************************************)
EXTENDS VPC, TLAPS

USE DEF State, InUse, GetVPC, At, Go, Ends, Keeps, AdminAt, AdminGo, AdminEnds

\* The invariant holds initially.
LEMMA InitVPCInv == Init => VPCInv
  <1> SUFFICES ASSUME Init PROVE VPCInv
    OBVIOUS
  <1> USE VPCAssumption
  <1>1. TypeOK
    <2>1. CASE pins = {}
      <3>1. op \in [Instance -> [step : Step, row : Row \cup {NoRow}]]
        BY <2>1 DEF Init, Idle, Step
      <3> QED BY <2>1, <3>1 DEF Init, TypeOK, Idle, RequestStep
    <2>2. CASE pins # {}
      <3>1. PICK r \in Row, i \in Instance :
              /\ state = [s \in Row |-> IF s = r THEN "available" ELSE "none"] /\ network = TRUE
              /\ life = [j \in Instance |-> IF j = i THEN "row" ELSE "none"] /\ guest = {i}
              /\ pins = {[instance |-> i, source |-> Unknown, target |-> NoRow]}
              /\ op = [j \in Instance |-> [step |-> IF j = i THEN "kept" ELSE "idle", row |-> NoRow]]
        BY <2>2 DEF Init
      <3>2. pins \subseteq Pin
        BY <3>1 DEF Pin
      <3>3. op \in [Instance -> [step : Step, row : Row \cup {NoRow}]]
        BY <3>1 DEF Step
      <3> QED BY <3>1, <3>2, <3>3 DEF Init, TypeOK, Idle, RequestStep
    <2> QED BY <2>1, <2>2
  <1>2. OneRow
    BY DEF Init, OneRow
  <1>3. RequestInv /\ OneWorker
    BY DEF Init, Idle, RequestInv, RequestFacts, OneWorker, Working, Creating, Deleting
  <1>4. ReferencedIsAvailable /\ SourcesStay
    BY DEF Init, ReferencedIsAvailable, SourcesStay
  <1>5. AvailableIsOnNode /\ NetworkHasRow
    BY DEF Init, AvailableIsOnNode, NetworkHasRow
  <1>6. GuestIsKnown
    <2>1. CASE guest = {}
      BY <2>1 DEF GuestIsKnown
    <2>2. CASE guest # {}
      <3>1. PICK i \in Instance : guest = {i} /\ pins = {[instance |-> i, source |-> Unknown, target |-> NoRow]}
        BY <2>2 DEF Init
      <3> QED BY <3>1 DEF GuestIsKnown, Known
    <2> QED BY <2>1, <2>2
  <1>7. OperationInv
    BY DEF Init, Idle, OperationInv, OperationFacts
  <1> QED BY <1>1, <1>2, <1>3, <1>4, <1>5, <1>6, <1>7 DEF VPCInv

\* A step of an administrator's request does not touch what instances know.
LEMMA InstancesUntouched ==
  ASSUME VPCInv, UNCHANGED instanceVars
  PROVE  (GuestIsKnown /\ OperationInv)'
  BY DEF VPCInv, instanceVars, GuestIsKnown, Known, OperationInv, OperationFacts, InPin, OutPin

\* A step of an instance's operation does not touch the network and its row.
LEMMA NetworkUntouched ==
  ASSUME VPCInv, UNCHANGED <<state, network, req>>
  PROVE  (OneRow /\ RequestInv /\ OneWorker /\ AvailableIsOnNode /\ NetworkHasRow)'
  BY DEF VPCInv, OneRow, RequestInv, RequestFacts, OneWorker, Working, AvailableIsOnNode,
     NetworkHasRow

\* Where an operation goes, and that the others stay where they are.
LEMMA Moved ==
  ASSUME VPCInv, NEW i \in Instance
  PROVE  \A s \in Step, r \in Row \cup {NoRow} : Moves(i, s, r) =>
            /\ op' \in [Instance -> [step : Step, row : Row \cup {NoRow}]]
            /\ op'[i].step = s /\ op'[i].row = r
            /\ \A j \in Instance \ {i} : op'[j] = op[j]
  BY DEF VPCInv, TypeOK, Moves

\* The same of a request.
LEMMA Asked ==
  ASSUME VPCInv, NEW a \in Admin
  PROVE  \A s \in RequestStep, r \in Row \cup {NoRow} : Asks(a, s, r) =>
            /\ req' \in [Admin -> [step : RequestStep, row : Row \cup {NoRow}]]
            /\ req'[a].step = s /\ req'[a].row = r
            /\ \A b \in Admin \ {a} : req'[b] = req[b]
  BY DEF VPCInv, TypeOK, Asks

\* A step of instance i changes nothing of the others.
Only(i) ==
    /\ \A j \in Instance \ {i} : op'[j] = op[j] /\ ref'[j] = ref[j] /\ (j \in guest' <=> j \in guest)
    /\ \A p \in Pin : p.instance # i => (p \in pins' <=> p \in pins)

\* What the other instances know survives such a step.
LEMMA OthersKnow ==
  ASSUME VPCInv, NEW i \in Instance, Only(i), OperationFacts(i)', i \in guest' => Known(i)'
  PROVE  (GuestIsKnown /\ OperationInv)'
  <1>1. pins \subseteq Pin
    BY DEF VPCInv, TypeOK
  <1>2. ASSUME NEW j \in Instance \ {i} PROVE (j \in guest' => Known(j)') /\ OperationFacts(j)'
    <2>1. op'[j] = op[j] /\ ref'[j] = ref[j] /\ (j \in guest' <=> j \in guest)
      BY <1>2 DEF Only
    <2>2. \A p \in pins : p.instance = j => p \in pins'
      BY <1>1, <1>2 DEF Only
    <2>3. InPin(j)' = InPin(j) /\ OutPin(j)' = OutPin(j)
      BY <2>1 DEF InPin, OutPin
    <2>4. (InPin(j) \in pins => InPin(j) \in pins') /\ (OutPin(j) \in pins => OutPin(j) \in pins')
      BY <2>2 DEF InPin, OutPin
    <2>5. OperationFacts(j) /\ (j \in guest => Known(j))
      BY DEF VPCInv, OperationInv, GuestIsKnown
    <2>6. j \in guest' => Known(j)'
      BY <2>1, <2>2, <2>5 DEF Known
    <2>7. OperationFacts(j)'
      BY <2>1, <2>3, <2>4, <2>5 DEF OperationFacts
    <2> QED BY <2>6, <2>7
  <1> QED BY <1>2 DEF GuestIsKnown, OperationInv

\* A step of an administrator's request preserves the invariant.
LEMMA AdministerPreserves ==
  ASSUME VPCInv, Administer
  PROVE  VPCInv'
  <1> USE VPCAssumption
  <1> PICK a \in Admin :
        \/ (\E r \in Row : CreateVPC(a, r)) \/ (\E r \in Row : DeleteVPC(a, r))
        \/ CreateNetwork(a) \/ CreateStore(a) \/ CreateUndo(a) \/ CreateForget(a)
        \/ DeleteMark(a) \/ DeleteNetwork(a) \/ DeleteForget(a) \/ AdminDies(a)
    BY DEF Administer
  <1>1. ASSUME NEW r \in Row, CreateVPC(a, r) PROVE VPCInv'
    <2> USE <1>1 DEF CreateVPC
    <2>1. TypeOK'
      BY Asked DEF TypeOK, RequestStep, instanceVars, VPCInv
    <2>2. OneRow'
      BY DEF VPCInv, TypeOK, OneRow, NameFree
    <2>3. RequestFacts(a)'
      BY Asked DEF VPCInv, TypeOK, OneRow, RequestInv, RequestFacts, RequestStep, Deleting
    <2>4. \A b \in Admin \ {a} : req'[b] = req[b]
      BY Asked DEF VPCInv, RequestStep
    <2>5. \A b \in Admin \ {a} : ~Working(b)
      BY DEF VPCInv, TypeOK, RequestInv, RequestFacts, Working, Creating, Deleting, NameFree
    <2>6. RequestInv'
      BY <2>3, <2>4, <2>5 DEF VPCInv, RequestInv, RequestFacts
    <2>7. OneWorker'
      BY Asked, <2>4, <2>5 DEF VPCInv, OneWorker, Working
    <2>8. ReferencedIsAvailable'
      BY DEF VPCInv, TypeOK, Pin, RequestInv, ReferencedIsAvailable, instanceVars
    <2>9. SourcesStay'
      BY DEF VPCInv, TypeOK, Pin, RequestInv, SourcesStay, instanceVars
    <2>10. AvailableIsOnNode'
      BY DEF VPCInv, TypeOK, OneRow, RequestInv, AvailableIsOnNode
    <2>11. NetworkHasRow'
      BY DEF VPCInv, TypeOK, RequestInv, NetworkHasRow
    <2>12. (GuestIsKnown /\ OperationInv)'
      BY InstancesUntouched
    <2> QED BY <2>1, <2>2, <2>3, <2>4, <2>5, <2>6, <2>7, <2>8, <2>9, <2>10, <2>11, <2>12 DEF VPCInv
  <1>2. ASSUME NEW r \in Row, DeleteVPC(a, r) PROVE VPCInv'
    <2> USE <1>2 DEF DeleteVPC
    <2>1. TypeOK'
      BY Asked DEF TypeOK, RequestStep, instanceVars, VPCInv
    <2>2. OneRow'
      BY DEF VPCInv, TypeOK, OneRow
    <2>3. RequestFacts(a)'
      BY Asked DEF VPCInv, TypeOK, OneRow, RequestInv, RequestFacts, RequestStep, Creating, Deleting
    <2>4. \A b \in Admin \ {a} : req'[b] = req[b]
      BY Asked DEF VPCInv, RequestStep
    <2>5. UNCHANGED <<state, network>>
      OBVIOUS
    <2>6. RequestInv'
      BY <2>3, <2>4, <2>5 DEF VPCInv, RequestInv, RequestFacts
    <2>7. OneWorker'
      BY Asked, <2>4, <2>5 DEF VPCInv, OneWorker, Working, RequestStep, Creating, Deleting
    <2>8. ReferencedIsAvailable'
      BY DEF VPCInv, TypeOK, Pin, RequestInv, ReferencedIsAvailable, instanceVars
    <2>9. SourcesStay'
      BY DEF VPCInv, TypeOK, Pin, RequestInv, SourcesStay, instanceVars
    <2>10. AvailableIsOnNode'
      BY DEF VPCInv, TypeOK, OneRow, RequestInv, AvailableIsOnNode
    <2>11. NetworkHasRow'
      BY DEF VPCInv, TypeOK, RequestInv, NetworkHasRow
    <2>12. (GuestIsKnown /\ OperationInv)'
      BY InstancesUntouched
    <2> QED BY <2>1, <2>2, <2>3, <2>4, <2>5, <2>6, <2>7, <2>8, <2>9, <2>10, <2>11, <2>12 DEF VPCInv
  <1>3. CASE CreateNetwork(a)
    <2> USE <1>3 DEF CreateNetwork
    <2>1. TypeOK'
      BY Asked DEF TypeOK, RequestStep, instanceVars, NetworkMade, VPCInv
    <2>2. OneRow'
      BY DEF VPCInv, TypeOK, OneRow, RequestInv, RequestFacts, Creating
    <2>3. RequestFacts(a)'
      <3>1. \/ req'[a].step = "idle"
            \/ req'[a].step = "create_store" /\ req'[a].row = req[a].row /\ network' = TRUE /\ UNCHANGED state
        BY Asked DEF VPCInv, TypeOK, RequestStep, NetworkMade
      <3> QED BY <3>1 DEF VPCInv, RequestInv, RequestFacts, Creating, Deleting
    <2>4. \A b \in Admin \ {a} : req'[b] = req[b]
      BY Asked DEF VPCInv, TypeOK, RequestStep
    <2>5. \A b \in Admin \ {a} : ~Working(b)
      BY DEF VPCInv, OneWorker, Working, Creating
    <2>6. RequestInv'
      BY <2>3, <2>4, <2>5 DEF VPCInv, RequestInv, RequestFacts, Working, Creating, Deleting
    <2>7. OneWorker'
      BY Asked, <2>4, <2>5 DEF VPCInv, OneWorker, Working
    <2>8. ReferencedIsAvailable'
      BY DEF VPCInv, TypeOK, Pin, RequestInv, RequestFacts, ReferencedIsAvailable, Creating,
         instanceVars
    <2>9. SourcesStay'
      BY DEF VPCInv, TypeOK, Pin, RequestInv, RequestFacts, SourcesStay, Creating, instanceVars
    <2>10. AvailableIsOnNode'
      BY DEF VPCInv, TypeOK, OneRow, RequestInv, RequestFacts, AvailableIsOnNode, Creating
    <2>11. NetworkHasRow'
      BY DEF VPCInv, TypeOK, RequestInv, RequestFacts, NetworkHasRow, Creating
    <2>12. (GuestIsKnown /\ OperationInv)'
      BY InstancesUntouched
    <2> QED BY <2>1, <2>2, <2>3, <2>4, <2>5, <2>6, <2>7, <2>8, <2>9, <2>10, <2>11, <2>12 DEF VPCInv
  <1>4. CASE CreateStore(a)
    <2> USE <1>4 DEF CreateStore
    <2>1. TypeOK'
      BY Asked DEF TypeOK, RequestStep, instanceVars, VPCInv
    <2>2. OneRow'
      BY DEF VPCInv, TypeOK, OneRow, RequestInv, RequestFacts, Creating
    <2>3. RequestFacts(a)'
      BY Asked DEF VPCInv, TypeOK, OneRow, RequestInv, RequestFacts, RequestStep, Creating, Deleting
    <2>4. \A b \in Admin \ {a} : req'[b] = req[b]
      BY Asked DEF VPCInv, TypeOK, RequestStep
    <2>5. \A b \in Admin \ {a} : ~Working(b)
      BY DEF VPCInv, OneWorker, Working, Creating
    <2>6. RequestInv'
      BY <2>3, <2>4, <2>5 DEF VPCInv, RequestInv, RequestFacts, Working
    <2>7. OneWorker'
      BY Asked, <2>4, <2>5 DEF VPCInv, OneWorker, Working
    <2>8. ReferencedIsAvailable'
      BY DEF VPCInv, TypeOK, Pin, RequestInv, ReferencedIsAvailable, instanceVars
    <2>9. SourcesStay'
      BY DEF VPCInv, TypeOK, Pin, RequestInv, SourcesStay, instanceVars
    <2>10. AvailableIsOnNode'
      BY DEF VPCInv, TypeOK, OneRow, RequestInv, RequestFacts, AvailableIsOnNode
    <2>11. NetworkHasRow'
      BY DEF VPCInv, TypeOK, RequestInv, NetworkHasRow
    <2>12. (GuestIsKnown /\ OperationInv)'
      BY InstancesUntouched
    <2> QED BY <2>1, <2>2, <2>3, <2>4, <2>5, <2>6, <2>7, <2>8, <2>9, <2>10, <2>11, <2>12 DEF VPCInv
  <1>5. CASE CreateUndo(a)
    <2> USE <1>5 DEF CreateUndo
    <2>1. TypeOK'
      BY Asked DEF TypeOK, RequestStep, instanceVars, NetworkRemoved, VPCInv
    <2>2. OneRow'
      BY DEF VPCInv, TypeOK, OneRow, RequestInv, RequestFacts, Creating
    <2>3. RequestFacts(a)'
      <3>1. \/ req'[a].step = "idle"
            \/ req'[a].step = "create_forget" /\ req'[a].row = req[a].row /\ network' = FALSE /\ UNCHANGED state
        BY Asked DEF VPCInv, TypeOK, RequestStep, NetworkRemoved
      <3> QED BY <3>1 DEF VPCInv, RequestInv, RequestFacts, Creating, Deleting
    <2>4. \A b \in Admin \ {a} : req'[b] = req[b]
      BY Asked DEF VPCInv, TypeOK, RequestStep
    <2>5. \A b \in Admin \ {a} : ~Working(b)
      BY DEF VPCInv, OneWorker, Working, Creating
    <2>6. RequestInv'
      BY <2>3, <2>4, <2>5 DEF VPCInv, RequestInv, RequestFacts, Working, Creating, Deleting
    <2>7. OneWorker'
      BY Asked, <2>4, <2>5 DEF VPCInv, OneWorker, Working
    <2>8. ReferencedIsAvailable'
      BY DEF VPCInv, TypeOK, Pin, RequestInv, RequestFacts, ReferencedIsAvailable, Creating,
         instanceVars
    <2>9. SourcesStay'
      BY DEF VPCInv, TypeOK, Pin, RequestInv, RequestFacts, SourcesStay, Creating, instanceVars
    <2>10. AvailableIsOnNode'
      BY DEF VPCInv, TypeOK, OneRow, RequestInv, RequestFacts, AvailableIsOnNode, Creating
    <2>11. NetworkHasRow'
      BY DEF VPCInv, TypeOK, RequestInv, RequestFacts, NetworkHasRow, Creating
    <2>12. (GuestIsKnown /\ OperationInv)'
      BY InstancesUntouched
    <2> QED BY <2>1, <2>2, <2>3, <2>4, <2>5, <2>6, <2>7, <2>8, <2>9, <2>10, <2>11, <2>12 DEF VPCInv
  <1>6. CASE CreateForget(a)
    <2> USE <1>6 DEF CreateForget
    <2>1. TypeOK'
      BY Asked DEF TypeOK, RequestStep, instanceVars, VPCInv
    <2>2. OneRow'
      BY DEF VPCInv, TypeOK, OneRow
    <2>3. RequestFacts(a)'
      BY Asked DEF VPCInv, TypeOK, OneRow, RequestInv, RequestFacts, RequestStep, Creating, Deleting
    <2>4. \A b \in Admin \ {a} : req'[b] = req[b]
      BY Asked DEF VPCInv, RequestStep
    <2>5. \A b \in Admin \ {a} : ~Working(b)
      BY DEF VPCInv, OneWorker, Working, Creating
    <2>6. RequestInv'
      BY <2>3, <2>4, <2>5 DEF VPCInv, RequestInv, RequestFacts, Working
    <2>7. OneWorker'
      BY Asked, <2>4, <2>5 DEF VPCInv, OneWorker, Working
    <2>8. ReferencedIsAvailable'
      BY DEF VPCInv, TypeOK, Pin, RequestInv, RequestFacts, ReferencedIsAvailable, Creating,
         instanceVars
    <2>9. SourcesStay'
      BY DEF VPCInv, TypeOK, Pin, RequestInv, RequestFacts, SourcesStay, Creating, instanceVars
    <2>10. AvailableIsOnNode'
      BY DEF VPCInv, TypeOK, OneRow, RequestInv, AvailableIsOnNode
    <2>11. NetworkHasRow'
      BY DEF VPCInv, TypeOK, RequestInv, RequestFacts, NetworkHasRow
    <2>12. (GuestIsKnown /\ OperationInv)'
      BY InstancesUntouched
    <2> QED BY <2>1, <2>2, <2>3, <2>4, <2>5, <2>6, <2>7, <2>8, <2>9, <2>10, <2>11, <2>12 DEF VPCInv
  <1>7. CASE DeleteMark(a)
    <2> USE <1>7 DEF DeleteMark
    <2>1. TypeOK'
      BY Asked DEF TypeOK, RequestStep, instanceVars, VPCInv
    <2>2. OneRow'
      BY DEF VPCInv, TypeOK, OneRow
    <2>3. RequestFacts(a)'
      BY Asked DEF VPCInv, TypeOK, OneRow, RequestInv, RequestFacts, RequestStep, Creating, Deleting
    <2>4. \A b \in Admin \ {a} : req'[b] = req[b]
      BY Asked DEF VPCInv, TypeOK, RequestStep
    <2>5. ASSUME UNCHANGED state, req'[a].step = "idle" PROVE RequestInv' /\ OneWorker'
      BY <2>3, <2>4, <2>5 DEF VPCInv, RequestInv, RequestFacts, OneWorker, Working, Creating,
         Deleting
    <2>6. ASSUME state[req[a].row] \in {"available", "error"} PROVE RequestInv' /\ OneWorker'
      <3>1. \A b \in Admin \ {a} : ~Working(b)
        BY <2>6 DEF VPCInv, TypeOK, OneRow, RequestInv, RequestFacts, Working, Creating, Deleting
      <3> QED BY <2>3, <2>4, <3>1 DEF VPCInv, RequestInv, RequestFacts, OneWorker, Working
    <2>7. RequestInv' /\ OneWorker'
      <3>1. (req'[a].step = "idle" /\ UNCHANGED state) \/ state[req[a].row] \in {"available", "error"}
        BY Asked DEF RequestStep
      <3> QED BY <2>5, <2>6, <3>1
    <2>8. ReferencedIsAvailable'
      BY DEF VPCInv, TypeOK, Pin, RequestInv, ReferencedIsAvailable, Referenced, instanceVars
    <2>9. SourcesStay'
      BY DEF VPCInv, TypeOK, Pin, RequestInv, SourcesStay, Referenced, instanceVars
    <2>10. AvailableIsOnNode'
      BY DEF VPCInv, TypeOK, OneRow, RequestInv, AvailableIsOnNode
    <2>11. NetworkHasRow'
      BY DEF VPCInv, TypeOK, RequestInv, NetworkHasRow
    <2>12. (GuestIsKnown /\ OperationInv)'
      BY InstancesUntouched
    <2> QED BY <2>1, <2>2, <2>7, <2>8, <2>9, <2>10, <2>11, <2>12 DEF VPCInv
  <1>8. CASE DeleteNetwork(a)
    <2> USE <1>8 DEF DeleteNetwork
    <2>1. TypeOK'
      BY Asked DEF TypeOK, RequestStep, instanceVars, NetworkRemoved, VPCInv
    <2>2. OneRow'
      BY DEF VPCInv, TypeOK, OneRow, RequestInv, RequestFacts, Deleting
    <2>3. RequestFacts(a)'
      <3>1. \/ req'[a].step = "idle"
            \/ req'[a].step = "delete_forget" /\ req'[a].row = req[a].row /\ network' = FALSE /\ UNCHANGED state
        BY Asked DEF VPCInv, TypeOK, RequestStep, NetworkRemoved
      <3> QED BY <3>1 DEF VPCInv, RequestInv, RequestFacts, Creating, Deleting
    <2>4. \A b \in Admin \ {a} : req'[b] = req[b]
      BY Asked DEF VPCInv, TypeOK, RequestStep
    <2>5. \A b \in Admin \ {a} : ~Working(b)
      BY DEF VPCInv, OneWorker, Working, Deleting
    <2>6. RequestInv'
      BY <2>3, <2>4, <2>5 DEF VPCInv, RequestInv, RequestFacts, Working, Creating, Deleting
    <2>7. OneWorker'
      BY Asked, <2>4, <2>5 DEF VPCInv, OneWorker, Working
    <2>8. ReferencedIsAvailable'
      BY DEF VPCInv, TypeOK, Pin, RequestInv, RequestFacts, ReferencedIsAvailable, Deleting,
         instanceVars
    <2>9. SourcesStay'
      BY DEF VPCInv, TypeOK, Pin, RequestInv, RequestFacts, SourcesStay, Deleting, instanceVars
    <2>10. AvailableIsOnNode'
      BY DEF VPCInv, TypeOK, OneRow, RequestInv, RequestFacts, AvailableIsOnNode, Deleting
    <2>11. NetworkHasRow'
      BY DEF VPCInv, TypeOK, RequestInv, RequestFacts, NetworkHasRow, Deleting
    <2>12. (GuestIsKnown /\ OperationInv)'
      BY InstancesUntouched
    <2> QED BY <2>1, <2>2, <2>3, <2>4, <2>5, <2>6, <2>7, <2>8, <2>9, <2>10, <2>11, <2>12 DEF VPCInv
  <1>9. CASE DeleteForget(a)
    <2> USE <1>9 DEF DeleteForget
    <2>1. TypeOK'
      BY Asked DEF TypeOK, RequestStep, instanceVars, VPCInv
    <2>2. OneRow'
      BY DEF VPCInv, TypeOK, OneRow, RequestInv, RequestFacts, Deleting
    <2>3. RequestFacts(a)'
      BY Asked DEF VPCInv, TypeOK, OneRow, RequestInv, RequestFacts, RequestStep, Creating, Deleting
    <2>4. \A b \in Admin \ {a} : req'[b] = req[b]
      BY Asked DEF VPCInv, RequestStep
    <2>5. \A b \in Admin \ {a} : ~Working(b)
      BY DEF VPCInv, OneWorker, Working, Deleting
    <2>6. RequestInv'
      BY <2>3, <2>4, <2>5 DEF VPCInv, RequestInv, RequestFacts, Working
    <2>7. OneWorker'
      BY Asked, <2>4, <2>5 DEF VPCInv, OneWorker, Working
    <2>8. ReferencedIsAvailable'
      BY DEF VPCInv, TypeOK, Pin, RequestInv, RequestFacts, ReferencedIsAvailable, Deleting,
         instanceVars
    <2>9. SourcesStay'
      BY DEF VPCInv, TypeOK, Pin, RequestInv, RequestFacts, SourcesStay, Deleting, instanceVars
    <2>10. AvailableIsOnNode'
      BY DEF VPCInv, TypeOK, OneRow, RequestInv, AvailableIsOnNode
    <2>11. NetworkHasRow'
      BY DEF VPCInv, TypeOK, RequestInv, RequestFacts, NetworkHasRow
    <2>12. (GuestIsKnown /\ OperationInv)'
      BY InstancesUntouched
    <2> QED BY <2>1, <2>2, <2>3, <2>4, <2>5, <2>6, <2>7, <2>8, <2>9, <2>10, <2>11, <2>12 DEF VPCInv
  <1>10. CASE AdminDies(a)
    <2> USE <1>10 DEF AdminDies
    <2>1. TypeOK'
      BY Asked DEF TypeOK, RequestStep, instanceVars, VPCInv
    <2>2. OneRow'
      BY DEF VPCInv, TypeOK, OneRow
    <2>3. RequestFacts(a)'
      BY Asked DEF VPCInv, TypeOK, OneRow, RequestInv, RequestFacts, RequestStep, Creating, Deleting
    <2>4. \A b \in Admin \ {a} : req'[b] = req[b]
      BY Asked DEF VPCInv, RequestStep
    <2>5. UNCHANGED <<state, network>>
      OBVIOUS
    <2>6. RequestInv'
      BY <2>3, <2>4, <2>5 DEF VPCInv, RequestInv, RequestFacts
    <2>7. OneWorker'
      BY Asked, <2>4, <2>5 DEF VPCInv, OneWorker, Working, RequestStep, Creating, Deleting
    <2>8. ReferencedIsAvailable'
      BY DEF VPCInv, TypeOK, Pin, RequestInv, ReferencedIsAvailable, instanceVars
    <2>9. SourcesStay'
      BY DEF VPCInv, TypeOK, Pin, RequestInv, SourcesStay, instanceVars
    <2>10. AvailableIsOnNode'
      BY DEF VPCInv, TypeOK, OneRow, RequestInv, AvailableIsOnNode
    <2>11. NetworkHasRow'
      BY DEF VPCInv, TypeOK, RequestInv, NetworkHasRow
    <2>12. (GuestIsKnown /\ OperationInv)'
      BY InstancesUntouched
    <2> QED BY <2>1, <2>2, <2>3, <2>4, <2>5, <2>6, <2>7, <2>8, <2>9, <2>10, <2>11, <2>12 DEF VPCInv
  <1> QED BY <1>1, <1>2, <1>3, <1>4, <1>5, <1>6, <1>7, <1>8, <1>9, <1>10

\* A step of a creation preserves the invariant.
LEMMA CreatePreserves ==
  ASSUME VPCInv, Create
  PROVE  VPCInv'
  <1> USE VPCAssumption
  <1> PICK i \in Instance : (\E r \in Row : CreateStart(i, r)) \/ CreateReserve(i) \/ CreateCall(i)
    BY DEF Create
  <1>m. \A s \in Step, r \in Row \cup {NoRow} : Moves(i, s, r) =>
          /\ op' \in [Instance -> [step : Step, row : Row \cup {NoRow}]]
          /\ op'[i].step = s /\ op'[i].row = r
          /\ \A j \in Instance \ {i} : op'[j] = op[j]
    BY Moved
  <1>t. /\ op[i].step \in Step /\ op[i].row \in Row \cup {NoRow} /\ ref[i] \in Row \cup {NoRow}
        /\ pins \subseteq Pin /\ ref \in [Instance -> Row \cup {NoRow}] /\ guest \subseteq Instance
    BY DEF VPCInv, TypeOK
  <1>k. OperationFacts(i) /\ (i \in guest => Known(i))
    BY DEF VPCInv, OperationInv, GuestIsKnown
  <1>1. ASSUME NEW r \in Row, CreateStart(i, r) PROVE VPCInv'
    <2> USE <1>1 DEF CreateStart
    <2>1. TypeOK'
      BY <1>m, <1>t, <1>k DEF VPCInv, TypeOK, Pin, Step
    <2>2. Only(i)
      BY <1>m, <1>t DEF VPCInv, Only, Step
    <2>3. ReferencedIsAvailable'
      BY <1>t, <1>k DEF VPCInv, ReferencedIsAvailable
    <2>4. SourcesStay'
      BY <1>t, <1>k DEF VPCInv, SourcesStay
    <2>5. i \in guest' => Known(i)'
      BY <1>t, <1>k DEF VPCInv, Known
    <2>6. OperationFacts(i)'
      BY <1>m, <1>t, <1>k DEF OperationFacts, Step
    <2>7. (GuestIsKnown /\ OperationInv)'
      BY <2>2, <2>5, <2>6, OthersKnow
    <2>8. (OneRow /\ RequestInv /\ OneWorker /\ AvailableIsOnNode /\ NetworkHasRow)'
      BY NetworkUntouched
    <2> QED BY <2>1, <2>2, <2>3, <2>4, <2>5, <2>6, <2>7, <2>8 DEF VPCInv
  <1>2. CASE CreateReserve(i)
    <2> USE <1>2 DEF CreateReserve
    <2>1. TypeOK'
      <3>1. op' \in [Instance -> [step : Step, row : Row \cup {NoRow}]]
        BY <1>m, <1>t DEF Step
      <3> QED BY <3>1, <1>t DEF VPCInv, TypeOK
    <2>2. Only(i)
      BY <1>m, <1>t DEF VPCInv, Only, Step
    <2>3. ReferencedIsAvailable'
      BY <1>t, <1>k DEF VPCInv, ReferencedIsAvailable, Reservable
    <2>4. SourcesStay'
      BY <1>t, <1>k DEF VPCInv, SourcesStay
    <2>5. i \in guest' => Known(i)'
      BY <1>t, <1>k DEF VPCInv, OperationFacts, Known
    <2>6. OperationFacts(i)'
      BY <1>m, <1>t, <1>k DEF OperationFacts, Step
    <2>7. (GuestIsKnown /\ OperationInv)'
      BY <2>2, <2>5, <2>6, OthersKnow
    <2>8. (OneRow /\ RequestInv /\ OneWorker /\ AvailableIsOnNode /\ NetworkHasRow)'
      BY NetworkUntouched
    <2> QED BY <2>1, <2>2, <2>3, <2>4, <2>5, <2>6, <2>7, <2>8 DEF VPCInv
  <1>3. CASE CreateCall(i)
    <2> USE <1>3 DEF CreateCall
    <2>1. TypeOK'
      BY <1>m, <1>t, <1>k DEF VPCInv, TypeOK, Pin, Step, Attached
    <2>2. Only(i)
      BY <1>m, <1>t DEF VPCInv, Only, Step, Attached
    <2>3. ReferencedIsAvailable'
      BY <1>t, <1>k DEF VPCInv, ReferencedIsAvailable
    <2>4. SourcesStay'
      BY <1>t, <1>k DEF VPCInv, SourcesStay
    <2>5. i \in guest' => Known(i)'
      BY <1>t, <1>k DEF VPCInv, OperationFacts, Known
    <2>6. OperationFacts(i)'
      BY <1>m, <1>t, <1>k DEF OperationFacts, Step
    <2>7. (GuestIsKnown /\ OperationInv)'
      BY <2>2, <2>5, <2>6, OthersKnow
    <2>8. (OneRow /\ RequestInv /\ OneWorker /\ AvailableIsOnNode /\ NetworkHasRow)'
      BY NetworkUntouched
    <2> QED BY <2>1, <2>2, <2>3, <2>4, <2>5, <2>6, <2>7, <2>8 DEF VPCInv
  <1> QED BY <1>1, <1>2, <1>3

\* A step of a purge preserves the invariant.
LEMMA PurgePreserves ==
  ASSUME VPCInv, Purge
  PROVE  VPCInv'
  <1> USE VPCAssumption
  <1> PICK i \in Instance : PurgeStart(i) \/ PurgeCall(i) \/ PurgeRelease(i)
    BY DEF Purge
  <1>m. \A s \in Step, r \in Row \cup {NoRow} : Moves(i, s, r) =>
          /\ op' \in [Instance -> [step : Step, row : Row \cup {NoRow}]]
          /\ op'[i].step = s /\ op'[i].row = r
          /\ \A j \in Instance \ {i} : op'[j] = op[j]
    BY Moved
  <1>t. /\ op[i].step \in Step /\ op[i].row \in Row \cup {NoRow} /\ ref[i] \in Row \cup {NoRow}
        /\ pins \subseteq Pin /\ ref \in [Instance -> Row \cup {NoRow}] /\ guest \subseteq Instance
    BY DEF VPCInv, TypeOK
  <1>k. OperationFacts(i) /\ (i \in guest => Known(i))
    BY DEF VPCInv, OperationInv, GuestIsKnown
  <1>1. CASE PurgeStart(i)
    <2> USE <1>1 DEF PurgeStart
    <2>1. TypeOK'
      BY <1>m, <1>t, <1>k DEF VPCInv, TypeOK, Pin, Step
    <2>2. Only(i)
      BY <1>m, <1>t DEF VPCInv, Only, Step
    <2>3. ReferencedIsAvailable'
      BY <1>t, <1>k DEF VPCInv, ReferencedIsAvailable
    <2>4. SourcesStay'
      BY <1>t, <1>k DEF VPCInv, SourcesStay
    <2>5. i \in guest' => Known(i)'
      BY <1>t, <1>k DEF VPCInv, Known
    <2>6. OperationFacts(i)'
      BY <1>m, <1>t, <1>k DEF OperationFacts, Step
    <2>7. (GuestIsKnown /\ OperationInv)'
      BY <2>2, <2>5, <2>6, OthersKnow
    <2>8. (OneRow /\ RequestInv /\ OneWorker /\ AvailableIsOnNode /\ NetworkHasRow)'
      BY NetworkUntouched
    <2> QED BY <2>1, <2>2, <2>3, <2>4, <2>5, <2>6, <2>7, <2>8 DEF VPCInv
  <1>2. CASE PurgeCall(i)
    <2> USE <1>2 DEF PurgeCall
    <2>1. TypeOK'
      BY <1>m, <1>t, <1>k DEF VPCInv, TypeOK, Pin, Step, Detached
    <2>2. Only(i)
      BY <1>m, <1>t DEF VPCInv, Only, Step, Detached
    <2>3. ReferencedIsAvailable'
      BY <1>t, <1>k DEF VPCInv, ReferencedIsAvailable
    <2>4. SourcesStay'
      BY <1>t, <1>k DEF VPCInv, SourcesStay
    <2>5. i \in guest' => Known(i)'
      BY <1>t, <1>k DEF VPCInv, Known
    <2>6. OperationFacts(i)'
      BY <1>m, <1>t, <1>k DEF OperationFacts, Step, Detached
    <2>7. (GuestIsKnown /\ OperationInv)'
      BY <2>2, <2>5, <2>6, OthersKnow
    <2>8. (OneRow /\ RequestInv /\ OneWorker /\ AvailableIsOnNode /\ NetworkHasRow)'
      BY NetworkUntouched
    <2> QED BY <2>1, <2>2, <2>3, <2>4, <2>5, <2>6, <2>7, <2>8 DEF VPCInv
  <1>3. CASE PurgeRelease(i)
    <2> USE <1>3 DEF PurgeRelease
    <2>1. TypeOK'
      BY <1>m, <1>t, <1>k DEF VPCInv, TypeOK, Pin, Step, OperationFacts
    <2>2. Only(i)
      BY <1>m, <1>t DEF VPCInv, Only, Step
    <2>3. ReferencedIsAvailable'
      BY <1>t, <1>k DEF VPCInv, ReferencedIsAvailable
    <2>4. SourcesStay'
      BY <1>t, <1>k DEF VPCInv, SourcesStay
    <2>5. i \in guest' => Known(i)'
      BY <1>t, <1>k DEF VPCInv, OperationFacts
    <2>6. OperationFacts(i)'
      BY <1>m, <1>t, <1>k DEF OperationFacts, Step
    <2>7. (GuestIsKnown /\ OperationInv)'
      BY <2>2, <2>5, <2>6, OthersKnow
    <2>8. (OneRow /\ RequestInv /\ OneWorker /\ AvailableIsOnNode /\ NetworkHasRow)'
      BY NetworkUntouched
    <2> QED BY <2>1, <2>2, <2>3, <2>4, <2>5, <2>6, <2>7, <2>8 DEF VPCInv
  <1> QED BY <1>1, <1>2, <1>3

\* A step of a migration into the network preserves the invariant.
LEMMA MoveInPreserves ==
  ASSUME VPCInv, MoveIn
  PROVE  VPCInv'
  <1> USE VPCAssumption
  <1> PICK i \in Instance :
        \/ (\E r \in Row : InStart(i, r)) \/ InReserve(i) \/ InImport(i) \/ InSwitch(i)
        \/ InFinish(i) \/ InUndo(i) \/ InClose(i)
    BY DEF MoveIn
  <1>m. \A s \in Step, r \in Row \cup {NoRow} : Moves(i, s, r) =>
          /\ op' \in [Instance -> [step : Step, row : Row \cup {NoRow}]]
          /\ op'[i].step = s /\ op'[i].row = r
          /\ \A j \in Instance \ {i} : op'[j] = op[j]
    BY Moved
  <1>t. /\ op[i].step \in Step /\ op[i].row \in Row \cup {NoRow} /\ ref[i] \in Row \cup {NoRow}
        /\ pins \subseteq Pin /\ ref \in [Instance -> Row \cup {NoRow}] /\ guest \subseteq Instance
    BY DEF VPCInv, TypeOK
  <1>k. OperationFacts(i) /\ (i \in guest => Known(i))
    BY DEF VPCInv, OperationInv, GuestIsKnown
  <1>1. ASSUME NEW r \in Row, InStart(i, r) PROVE VPCInv'
    <2> USE <1>1 DEF InStart
    <2>1. TypeOK'
      BY <1>m, <1>t, <1>k DEF VPCInv, TypeOK, Pin, Step
    <2>2. Only(i)
      BY <1>m, <1>t DEF VPCInv, Only, Step
    <2>3. ReferencedIsAvailable'
      BY <1>t, <1>k DEF VPCInv, ReferencedIsAvailable
    <2>4. SourcesStay'
      BY <1>t, <1>k DEF VPCInv, SourcesStay
    <2>5. i \in guest' => Known(i)'
      BY <1>t, <1>k DEF VPCInv
    <2>6. OperationFacts(i)'
      BY <1>m, <1>t, <1>k DEF OperationFacts, Step
    <2>7. (GuestIsKnown /\ OperationInv)'
      BY <2>2, <2>5, <2>6, OthersKnow
    <2>8. (OneRow /\ RequestInv /\ OneWorker /\ AvailableIsOnNode /\ NetworkHasRow)'
      BY NetworkUntouched
    <2> QED BY <2>1, <2>2, <2>3, <2>4, <2>5, <2>6, <2>7, <2>8 DEF VPCInv
  <1>2. CASE InReserve(i)
    <2> USE <1>2 DEF InReserve
    <2>1. TypeOK'
      BY <1>m, <1>t, <1>k DEF VPCInv, TypeOK, Pin, Step, InPin
    <2>2. Only(i)
      BY <1>m, <1>t DEF VPCInv, Only, Step, InPin
    <2>3. ReferencedIsAvailable'
      BY <1>t, <1>k DEF VPCInv, ReferencedIsAvailable, Reservable, InPin
    <2>4. SourcesStay'
      BY <1>t, <1>k DEF VPCInv, SourcesStay, InPin
    <2>5. i \in guest' => Known(i)'
      BY <1>t, <1>k DEF VPCInv, OperationFacts
    <2>6. OperationFacts(i)'
      BY <1>m, <1>t, <1>k DEF OperationFacts, Step, InPin
    <2>7. (GuestIsKnown /\ OperationInv)'
      BY <2>2, <2>5, <2>6, OthersKnow
    <2>8. (OneRow /\ RequestInv /\ OneWorker /\ AvailableIsOnNode /\ NetworkHasRow)'
      BY NetworkUntouched
    <2> QED BY <2>1, <2>2, <2>3, <2>4, <2>5, <2>6, <2>7, <2>8 DEF VPCInv
  <1>3. CASE InImport(i)
    <2> USE <1>3 DEF InImport
    <2>1. TypeOK'
      BY <1>m, <1>t, <1>k DEF VPCInv, TypeOK, Pin, Step, Attached
    <2>2. Only(i)
      BY <1>m, <1>t DEF VPCInv, Only, Step, Attached
    <2>3. ReferencedIsAvailable'
      BY <1>t, <1>k DEF VPCInv, ReferencedIsAvailable
    <2>4. SourcesStay'
      BY <1>t, <1>k DEF VPCInv, SourcesStay
    <2>5. i \in guest' => Known(i)'
      BY <1>t, <1>k DEF VPCInv, OperationFacts, Known, InPin
    <2>6. OperationFacts(i)'
      BY <1>m, <1>t, <1>k DEF OperationFacts, Step, Attached, InPin
    <2>7. (GuestIsKnown /\ OperationInv)'
      BY <2>2, <2>5, <2>6, OthersKnow
    <2>8. (OneRow /\ RequestInv /\ OneWorker /\ AvailableIsOnNode /\ NetworkHasRow)'
      BY NetworkUntouched
    <2> QED BY <2>1, <2>2, <2>3, <2>4, <2>5, <2>6, <2>7, <2>8 DEF VPCInv
  <1>4. CASE InSwitch(i)
    <2> USE <1>4 DEF InSwitch
    <2>1. TypeOK'
      <3>1. op' \in [Instance -> [step : Step, row : Row \cup {NoRow}]]
        BY <1>m, <1>t DEF Step
      <3>2. ref' \in [Instance -> Row \cup {NoRow}]
        BY <1>t
      <3> QED BY <3>1, <3>2 DEF VPCInv, TypeOK
    <2>2. Only(i)
      BY <1>m, <1>t DEF VPCInv, Only, Step
    <2>3. ReferencedIsAvailable'
      BY <1>t, <1>k DEF VPCInv, ReferencedIsAvailable, OperationFacts, InPin
    <2>4. SourcesStay'
      BY <1>t, <1>k DEF VPCInv, SourcesStay
    <2>5. i \in guest' => Known(i)'
      BY <1>t, <1>k DEF VPCInv, OperationFacts, Known
    <2>6. OperationFacts(i)'
      BY <1>m, <1>t, <1>k DEF OperationFacts, Step, InPin
    <2>7. (GuestIsKnown /\ OperationInv)'
      BY <2>2, <2>5, <2>6, OthersKnow
    <2>8. (OneRow /\ RequestInv /\ OneWorker /\ AvailableIsOnNode /\ NetworkHasRow)'
      BY NetworkUntouched
    <2> QED BY <2>1, <2>2, <2>3, <2>4, <2>5, <2>6, <2>7, <2>8 DEF VPCInv
  <1>5. CASE InFinish(i)
    <2> USE <1>5 DEF InFinish
    <2>1. TypeOK'
      BY <1>m, <1>t, <1>k DEF VPCInv, TypeOK, Pin, Step
    <2>2. Only(i)
      BY <1>m, <1>t DEF VPCInv, Only, Step, InPin
    <2>3. ReferencedIsAvailable'
      BY <1>t, <1>k DEF VPCInv, ReferencedIsAvailable
    <2>4. SourcesStay'
      BY <1>t, <1>k DEF VPCInv, SourcesStay
    <2>5. i \in guest' => Known(i)'
      BY <1>t, <1>k DEF VPCInv, OperationFacts, Known
    <2>6. OperationFacts(i)'
      BY <1>m, <1>t, <1>k DEF OperationFacts, Step
    <2>7. (GuestIsKnown /\ OperationInv)'
      BY <2>2, <2>5, <2>6, OthersKnow
    <2>8. (OneRow /\ RequestInv /\ OneWorker /\ AvailableIsOnNode /\ NetworkHasRow)'
      BY NetworkUntouched
    <2> QED BY <2>1, <2>2, <2>3, <2>4, <2>5, <2>6, <2>7, <2>8 DEF VPCInv
  <1>6. CASE InUndo(i)
    <2> USE <1>6 DEF InUndo
    <2>1. TypeOK'
      BY <1>m, <1>t, <1>k DEF VPCInv, TypeOK, Pin, Step, Detached, InPin
    <2>2. Only(i)
      BY <1>m, <1>t DEF VPCInv, Only, Step, Detached, InPin
    <2>3. ReferencedIsAvailable'
      <3>1. state[op[i].row] = "available"
        BY <1>t, <1>k DEF VPCInv, ReferencedIsAvailable, OperationFacts, InPin
      <3>2. \A p \in pins' : p \in pins \/ p = InPin(i)
        OBVIOUS
      <3>3. InPin(i).target = op[i].row /\ UNCHANGED <<state, ref>>
        BY DEF InPin
      <3> QED BY <3>1, <3>2, <3>3 DEF VPCInv, ReferencedIsAvailable
    <2>4. SourcesStay'
      <3>1. \A p \in pins' : p \in pins \/ p = InPin(i)
        OBVIOUS
      <3>2. InPin(i).source = NoRow /\ UNCHANGED state
        BY DEF InPin
      <3> QED BY <3>1, <3>2 DEF VPCInv, SourcesStay
    <2>5. i \in guest' => Known(i)'
      BY <1>t, <1>k DEF VPCInv, Known, Detached
    <2>6. OperationFacts(i)'
      BY <1>m, <1>t, <1>k DEF OperationFacts, Step, Detached
    <2>7. (GuestIsKnown /\ OperationInv)'
      BY <2>2, <2>5, <2>6, OthersKnow
    <2>8. (OneRow /\ RequestInv /\ OneWorker /\ AvailableIsOnNode /\ NetworkHasRow)'
      BY NetworkUntouched
    <2> QED BY <2>1, <2>2, <2>3, <2>4, <2>5, <2>6, <2>7, <2>8 DEF VPCInv
  <1>7. CASE InClose(i)
    <2> USE <1>7 DEF InClose
    <2>1. TypeOK'
      BY <1>m, <1>t, <1>k DEF VPCInv, TypeOK, Pin, Step
    <2>2. Only(i)
      BY <1>m, <1>t DEF VPCInv, Only, Step, InPin
    <2>3. ReferencedIsAvailable'
      BY <1>t, <1>k DEF VPCInv, ReferencedIsAvailable
    <2>4. SourcesStay'
      BY <1>t, <1>k DEF VPCInv, SourcesStay
    <2>5. i \in guest' => Known(i)'
      BY <1>t, <1>k DEF VPCInv, OperationFacts, Known
    <2>6. OperationFacts(i)'
      BY <1>m, <1>t, <1>k DEF OperationFacts, Step
    <2>7. (GuestIsKnown /\ OperationInv)'
      BY <2>2, <2>5, <2>6, OthersKnow
    <2>8. (OneRow /\ RequestInv /\ OneWorker /\ AvailableIsOnNode /\ NetworkHasRow)'
      BY NetworkUntouched
    <2> QED BY <2>1, <2>2, <2>3, <2>4, <2>5, <2>6, <2>7, <2>8 DEF VPCInv
  <1> QED BY <1>1, <1>2, <1>3, <1>4, <1>5, <1>6, <1>7

\* A step of a migration out of the network preserves the invariant.
LEMMA MoveOutPreserves ==
  ASSUME VPCInv, MoveOut
  PROVE  VPCInv'
  <1> USE VPCAssumption
  <1> PICK i \in Instance :
        \/ OutStart(i) \/ OutReserve(i) \/ OutSwitch(i) \/ OutDelete(i) \/ OutClose(i)
    BY DEF MoveOut
  <1>m. \A s \in Step, r \in Row \cup {NoRow} : Moves(i, s, r) =>
          /\ op' \in [Instance -> [step : Step, row : Row \cup {NoRow}]]
          /\ op'[i].step = s /\ op'[i].row = r
          /\ \A j \in Instance \ {i} : op'[j] = op[j]
    BY Moved
  <1>t. /\ op[i].step \in Step /\ op[i].row \in Row \cup {NoRow} /\ ref[i] \in Row \cup {NoRow}
        /\ pins \subseteq Pin /\ ref \in [Instance -> Row \cup {NoRow}] /\ guest \subseteq Instance
    BY DEF VPCInv, TypeOK
  <1>k. OperationFacts(i) /\ (i \in guest => Known(i))
    BY DEF VPCInv, OperationInv, GuestIsKnown
  <1>1. CASE OutStart(i)
    <2> USE <1>1 DEF OutStart
    <2>1. TypeOK'
      BY <1>m, <1>t, <1>k DEF VPCInv, TypeOK, Pin, Step
    <2>2. Only(i)
      BY <1>m, <1>t DEF VPCInv, Only, Step
    <2>3. ReferencedIsAvailable'
      BY <1>t, <1>k DEF VPCInv, ReferencedIsAvailable
    <2>4. SourcesStay'
      BY <1>t, <1>k DEF VPCInv, SourcesStay
    <2>5. i \in guest' => Known(i)'
      BY <1>t, <1>k DEF VPCInv, Known
    <2>6. OperationFacts(i)'
      BY <1>m, <1>t, <1>k DEF OperationFacts, Step
    <2>7. (GuestIsKnown /\ OperationInv)'
      BY <2>2, <2>5, <2>6, OthersKnow
    <2>8. (OneRow /\ RequestInv /\ OneWorker /\ AvailableIsOnNode /\ NetworkHasRow)'
      BY NetworkUntouched
    <2> QED BY <2>1, <2>2, <2>3, <2>4, <2>5, <2>6, <2>7, <2>8 DEF VPCInv
  <1>2. CASE OutReserve(i)
    <2> USE <1>2 DEF OutReserve
    <2>1. TypeOK'
      BY <1>m, <1>t, <1>k DEF VPCInv, TypeOK, Pin, Step, OutPin
    <2>2. Only(i)
      BY <1>m, <1>t DEF VPCInv, Only, Step, OutPin
    <2>3. ReferencedIsAvailable'
      BY <1>t, <1>k DEF VPCInv, ReferencedIsAvailable, OutPin
    <2>4. SourcesStay'
      BY <1>t, <1>k DEF VPCInv, SourcesStay, ReferencedIsAvailable,
         OperationFacts, OutPin
    <2>5. i \in guest' => Known(i)'
      BY <1>t, <1>k DEF VPCInv, Known
    <2>6. OperationFacts(i)'
      BY <1>m, <1>t, <1>k DEF OperationFacts, Step, OutPin
    <2>7. (GuestIsKnown /\ OperationInv)'
      BY <2>2, <2>5, <2>6, OthersKnow
    <2>8. (OneRow /\ RequestInv /\ OneWorker /\ AvailableIsOnNode /\ NetworkHasRow)'
      BY NetworkUntouched
    <2> QED BY <2>1, <2>2, <2>3, <2>4, <2>5, <2>6, <2>7, <2>8 DEF VPCInv
  <1>3. CASE OutSwitch(i)
    <2> USE <1>3 DEF OutSwitch
    <2>1. TypeOK'
      BY <1>m, <1>t, <1>k DEF VPCInv, TypeOK, Pin, Step
    <2>2. Only(i)
      BY <1>m, <1>t DEF VPCInv, Only, Step
    <2>3. ReferencedIsAvailable'
      BY <1>t, <1>k DEF VPCInv, ReferencedIsAvailable
    <2>4. SourcesStay'
      BY <1>t, <1>k DEF VPCInv, SourcesStay
    <2>5. i \in guest' => Known(i)'
      BY <1>t, <1>k DEF VPCInv, OperationFacts, Known, OutPin
    <2>6. OperationFacts(i)'
      BY <1>m, <1>t, <1>k DEF OperationFacts, Step, OutPin
    <2>7. (GuestIsKnown /\ OperationInv)'
      BY <2>2, <2>5, <2>6, OthersKnow
    <2>8. (OneRow /\ RequestInv /\ OneWorker /\ AvailableIsOnNode /\ NetworkHasRow)'
      BY NetworkUntouched
    <2> QED BY <2>1, <2>2, <2>3, <2>4, <2>5, <2>6, <2>7, <2>8 DEF VPCInv
  <1>4. CASE OutDelete(i)
    <2> USE <1>4 DEF OutDelete
    <2>1. TypeOK'
      BY <1>m, <1>t, <1>k DEF VPCInv, TypeOK, Pin, Step, Detached
    <2>2. Only(i)
      BY <1>m, <1>t DEF VPCInv, Only, Step, Detached
    <2>3. ReferencedIsAvailable'
      BY <1>t, <1>k DEF VPCInv, ReferencedIsAvailable
    <2>4. SourcesStay'
      BY <1>t, <1>k DEF VPCInv, SourcesStay
    <2>5. i \in guest' => Known(i)'
      BY <1>t, <1>k DEF VPCInv, Known, Detached
    <2>6. OperationFacts(i)'
      BY <1>m, <1>t, <1>k DEF OperationFacts, Step, Detached
    <2>7. (GuestIsKnown /\ OperationInv)'
      BY <2>2, <2>5, <2>6, OthersKnow
    <2>8. (OneRow /\ RequestInv /\ OneWorker /\ AvailableIsOnNode /\ NetworkHasRow)'
      BY NetworkUntouched
    <2> QED BY <2>1, <2>2, <2>3, <2>4, <2>5, <2>6, <2>7, <2>8 DEF VPCInv
  <1>5. CASE OutClose(i)
    <2> USE <1>5 DEF OutClose
    <2>1. TypeOK'
      BY <1>m, <1>t, <1>k DEF VPCInv, TypeOK, Pin, Step
    <2>2. Only(i)
      BY <1>m, <1>t DEF VPCInv, Only, Step, OutPin
    <2>3. ReferencedIsAvailable'
      BY <1>t, <1>k DEF VPCInv, ReferencedIsAvailable
    <2>4. SourcesStay'
      BY <1>t, <1>k DEF VPCInv, SourcesStay
    <2>5. i \in guest' => Known(i)'
      BY <1>t, <1>k DEF VPCInv, OperationFacts, Known
    <2>6. OperationFacts(i)'
      BY <1>m, <1>t, <1>k DEF OperationFacts, Step
    <2>7. (GuestIsKnown /\ OperationInv)'
      BY <2>2, <2>5, <2>6, OthersKnow
    <2>8. (OneRow /\ RequestInv /\ OneWorker /\ AvailableIsOnNode /\ NetworkHasRow)'
      BY NetworkUntouched
    <2> QED BY <2>1, <2>2, <2>3, <2>4, <2>5, <2>6, <2>7, <2>8 DEF VPCInv
  <1> QED BY <1>1, <1>2, <1>3, <1>4, <1>5

\* A crash and a recovery preserve the invariant.
LEMMA FailPreserves ==
  ASSUME VPCInv, Fail
  PROVE  VPCInv'
  <1> USE VPCAssumption
  <1> PICK i \in Instance : Crash(i) \/ Recover(i)
    BY DEF Fail
  <1>m. \A s \in Step, r \in Row \cup {NoRow} : Moves(i, s, r) =>
          /\ op' \in [Instance -> [step : Step, row : Row \cup {NoRow}]]
          /\ op'[i].step = s /\ op'[i].row = r
          /\ \A j \in Instance \ {i} : op'[j] = op[j]
    BY Moved
  <1>t. /\ op[i].step \in Step /\ op[i].row \in Row \cup {NoRow} /\ ref[i] \in Row \cup {NoRow}
        /\ pins \subseteq Pin /\ ref \in [Instance -> Row \cup {NoRow}] /\ guest \subseteq Instance
    BY DEF VPCInv, TypeOK
  <1>k. OperationFacts(i) /\ (i \in guest => Known(i))
    BY DEF VPCInv, OperationInv, GuestIsKnown
  <1>1. CASE Crash(i)
    <2> USE <1>1 DEF Crash
    <2>1. TypeOK'
      BY <1>m, <1>t, <1>k DEF VPCInv, TypeOK, Pin, Step
    <2>2. Only(i)
      BY <1>m, <1>t DEF VPCInv, Only, Step
    <2>3. ReferencedIsAvailable'
      BY <1>t, <1>k DEF VPCInv, ReferencedIsAvailable
    <2>4. SourcesStay'
      BY <1>t, <1>k DEF VPCInv, SourcesStay
    <2>5. i \in guest' => Known(i)'
      BY <1>t, <1>k DEF VPCInv, Known
    <2>6. OperationFacts(i)'
      BY <1>m, <1>t, <1>k DEF OperationFacts, Step
    <2>7. (GuestIsKnown /\ OperationInv)'
      BY <2>2, <2>5, <2>6, OthersKnow
    <2>8. (OneRow /\ RequestInv /\ OneWorker /\ AvailableIsOnNode /\ NetworkHasRow)'
      BY NetworkUntouched
    <2> QED BY <2>1, <2>2, <2>3, <2>4, <2>5, <2>6, <2>7, <2>8 DEF VPCInv
  <1>2. CASE Recover(i)
    <2> USE <1>2 DEF Recover
    <2>1. TypeOK'
      BY <1>m, <1>t, <1>k DEF VPCInv, TypeOK, Pin, Step
    <2>2. Only(i)
      BY <1>m, <1>t DEF VPCInv, Only, Step
    <2>3. ReferencedIsAvailable'
      BY <1>t, <1>k DEF VPCInv, ReferencedIsAvailable
    <2>4. SourcesStay'
      BY <1>t, <1>k DEF VPCInv, SourcesStay
    <2>5. i \in guest' => Known(i)'
      BY <1>t, <1>k DEF VPCInv, Known
    <2>6. OperationFacts(i)'
      BY <1>m, <1>t, <1>k DEF OperationFacts, Step
    <2>7. (GuestIsKnown /\ OperationInv)'
      BY <2>2, <2>5, <2>6, OthersKnow
    <2>8. (OneRow /\ RequestInv /\ OneWorker /\ AvailableIsOnNode /\ NetworkHasRow)'
      BY NetworkUntouched
    <2> QED BY <2>1, <2>2, <2>3, <2>4, <2>5, <2>6, <2>7, <2>8 DEF VPCInv
  <1> QED BY <1>1, <1>2

\* The invariant holds in every reachable state.
THEOREM VPCInvariant == Spec => []VPCInv
  <1>1. ASSUME VPCInv, [Next]_vars PROVE VPCInv'
    <2>1. CASE UNCHANGED vars
      BY <1>1, <2>1, InstancesUntouched, NetworkUntouched DEF VPCInv, vars, instanceVars, TypeOK,
         ReferencedIsAvailable, SourcesStay
    <2> QED BY <1>1, <2>1, AdministerPreserves, CreatePreserves, PurgePreserves, MoveInPreserves,
               MoveOutPreserves, FailPreserves DEF Next
  <1> QED BY <1>1, InitVPCInv, PTL DEF Spec

\* Every variable keeps its type.
THEOREM TypeCorrect == Spec => []TypeOK
  <1>1. VPCInv => TypeOK
    BY DEF VPCInv
  <1> QED BY <1>1, VPCInvariant, PTL

\* A deletion and a new reference never both pass their checks (DeleteVPC,
\* reserveVPCReference).
THEOREM References == Spec => []ReferencedIsAvailable
  <1>1. VPCInv => ReferencedIsAvailable
    BY DEF VPCInv
  <1> QED BY <1>1, VPCInvariant, PTL

\* No deletion and no failed creation takes the network from under a guest.
THEOREM GuestsKeepTheirNetwork == Spec => []GuestKeepsNetwork
  <1>1. VPCInv => GuestKeepsNetwork
    <2> SUFFICES ASSUME VPCInv, NEW i \in guest PROVE network
      BY DEF GuestKeepsNetwork
    <2>1. \E r \in Row : state[r] = "available"
      <3>1. i \in Instance /\ pins \subseteq Pin /\ ref \in [Instance -> Row \cup {NoRow}]
        BY DEF VPCInv, TypeOK
      <3>2. CASE ref[i] # NoRow
        BY <3>1, <3>2 DEF VPCInv, ReferencedIsAvailable
      <3>3. CASE ref[i] = NoRow
        <4>1. PICK p \in pins : p.target # NoRow \/ p.source # NoRow
          BY <3>1, <3>3 DEF VPCInv, GuestIsKnown, Known
        <4>2. p.target \in Row \cup {NoRow} /\ p.source \in Row \cup {NoRow, Unknown}
          BY <3>1 DEF Pin
        <4> QED BY <4>1, <4>2 DEF VPCInv, ReferencedIsAvailable, SourcesStay
      <3> QED BY <3>2, <3>3
    <2> QED BY <2>1 DEF VPCInv, AvailableIsOnNode
  <1> QED BY <1>1, VPCInvariant, PTL

\* What is offered to callers is on the node, and what is on the node has a row.
THEOREM RowAndNetworkAgree == Spec => [](AvailableIsOnNode /\ NetworkHasRow)
  <1>1. VPCInv => AvailableIsOnNode /\ NetworkHasRow
    BY DEF VPCInv
  <1> QED BY <1>1, VPCInvariant, PTL
=============================================================================
