------------------------- MODULE OperationFenceProofs -------------------------
(***************************************************************************)
(* Safety of the lifecycle fence for every set of requests, tokens, ids    *)
(* and actions.                                                            *)
(***************************************************************************)
EXTENDS OperationFence, SequenceTheorems, TLAPS

USE DEF PC, Ended, Holding, Before, NotSent, history

\* The part of the type invariant that most steps need.
Shape ==
    /\ pc \in [Request -> PC]
    /\ arg \in [Request -> [ref: Ref \cup {NoRef}, action: Action]]
    /\ tok \in [Request -> Token \cup {Free}]
    /\ retain \in [Request -> BOOLEAN]
    /\ job \in [Request -> {"none", "working", "done"}]

\* The invariant without the sequence type of the records: what most steps need.
LEMMA FenceShape == FenceInv => Shape
  BY DEF FenceInv, TypeOK, Shape

\* A step that restates the records of one id keeps them well formed.
RecordsKept ==
    /\ recs' \in [Ref -> Seq(OpRecord)]
    /\ \A f \in Ref : recs[f] # <<>> => recs'[f] # <<>>

\* A record whose state changes is still a record.
LEMMA RestateRecord ==
  ASSUME NEW rec \in OpRecord, NEW s \in {"running", "succeeded", "failed"}
  PROVE  [rec EXCEPT !.state = s] \in OpRecord
  BY DEF OpRecord

\* The invariant holds initially.
LEMMA InitFenceInv == Init => FenceInv
  <1> SUFFICES ASSUME Init PROVE FenceInv
    OBVIOUS
  <1> USE FenceAssumption DEF Init
  <1>0. <<>> \in Seq(OpRecord)
    BY EmptySeq
  <1>1. TypeOK
    BY <1>0 DEF TypeOK, Action
  <1>2. FenceExclusive /\ HolderOwnsRow /\ NoRowNoFence /\ PassInv /\ DangerInv
    BY DEF FenceExclusive, HolderOwnsRow, NoRowNoFence, PassInv, DangerInv
  <1> QED BY <1>1, <1>2 DEF FenceInv

\* Entering a handler keeps the invariant.
LEMMA ArrivePreserves ==
  ASSUME FenceInv, NEW r \in Request, NEW f \in Ref \cup {NoRef},
         NEW a \in CallerAction \cup {Purge}, Arrive(r, f, a)
  PROVE  FenceInv'
  <1> USE FenceAssumption DEF Arrive, At, Goto, Fail, Fault
  <1>1. TypeOK'
    BY DEF FenceInv, TypeOK, Action, PassInv
  <1>2. Shape
    BY FenceShape
  <1>3. FenceExclusive'
    BY <1>2 DEF FenceInv, Shape, FenceExclusive, HolderOwnsRow, NoRowNoFence
  <1>4. HolderOwnsRow'
    BY <1>2 DEF FenceInv, Shape, HolderOwnsRow, FenceExclusive, PassInv, NoRowNoFence
  <1>5. NoRowNoFence'
    BY <1>2 DEF FenceInv, Shape, NoRowNoFence, HolderOwnsRow
  <1>6. PassInv'
    BY <1>1, <1>2 DEF FenceInv, Shape, PassInv
  <1>7. DangerInv'
    BY <1>2 DEF FenceInv, Shape, PassInv, DangerInv, HolderOwnsRow, FenceExclusive,
               NoRowNoFence
  <1> QED BY <1>1, <1>3, <1>4, <1>5, <1>6, <1>7 DEF FenceInv

\* Reading the idempotency record keeps the invariant.
LEMMA LookupPreserves ==
  ASSUME FenceInv, NEW r \in Request, Lookup(r)
  PROVE  FenceInv'
  <1> USE FenceAssumption DEF Lookup, At, Goto, Fail, Fault, Found, Records
  <1>0. Found(r) # <<>> => Head(Found(r)) \in OpRecord
    BY DEF FenceInv, TypeOK, PassInv
  <1>1. TypeOK'
    BY <1>0 DEF OpRecord, FenceInv, TypeOK, Action, PassInv
  <1>2. Shape
    BY FenceShape
  <1>3. FenceExclusive'
    BY <1>2 DEF FenceInv, Shape, FenceExclusive, HolderOwnsRow, NoRowNoFence
  <1>4. HolderOwnsRow'
    BY <1>2 DEF FenceInv, Shape, HolderOwnsRow, FenceExclusive, PassInv, NoRowNoFence
  <1>5. NoRowNoFence'
    BY <1>2 DEF FenceInv, Shape, NoRowNoFence, HolderOwnsRow
  <1>6. PassInv'
    BY <1>0, <1>1, <1>2 DEF OpRecord, FenceInv, Shape, PassInv
  <1>7. DangerInv'
    BY <1>2 DEF FenceInv, Shape, PassInv, DangerInv, HolderOwnsRow, FenceExclusive,
               NoRowNoFence
  <1> QED BY <1>1, <1>3, <1>4, <1>5, <1>6, <1>7 DEF FenceInv

\* Counting the row that carries the token keeps the invariant.
LEMMA CheckFencePreserves ==
  ASSUME FenceInv, NEW r \in Request, CheckFence(r)
  PROVE  FenceInv'
  <1> USE FenceAssumption DEF CheckFence, At, Goto, Fail, Fault
  <1>1. TypeOK'
    BY DEF FenceInv, TypeOK, Action, PassInv
  <1>2. Shape
    BY FenceShape
  <1>3. FenceExclusive'
    BY <1>2 DEF FenceInv, Shape, FenceExclusive, HolderOwnsRow, NoRowNoFence
  <1>4. HolderOwnsRow'
    BY <1>2 DEF FenceInv, Shape, HolderOwnsRow, FenceExclusive, PassInv, NoRowNoFence
  <1>5. NoRowNoFence'
    BY <1>2 DEF FenceInv, Shape, NoRowNoFence, HolderOwnsRow
  <1>6. PassInv'
    BY <1>1, <1>2 DEF FenceInv, Shape, PassInv
  <1>7. DangerInv'
    BY <1>2 DEF FenceInv, Shape, PassInv, DangerInv, HolderOwnsRow, FenceExclusive,
               NoRowNoFence
  <1> QED BY <1>1, <1>3, <1>4, <1>5, <1>6, <1>7 DEF FenceInv

\* Setting the record back to running keeps the invariant.
LEMMA ResetRecordPreserves ==
  ASSUME FenceInv, NEW r \in Request, ResetRecord(r)
  PROVE  FenceInv'
  <1> USE FenceAssumption DEF ResetRecord, At, Goto, Fail, Fault
  <1>0. RecordsKept
    <2> DEFINE f == arg[r].ref
    <2>1. f \in Ref /\ recs[f] \in Seq(OpRecord) /\ recs[f] # <<>> /\ recs \in [Ref -> Seq(OpRecord)]
      BY DEF FenceInv, TypeOK, PassInv
    <2>2. CASE UNCHANGED recs
      BY <2>1, <2>2 DEF RecordsKept
    <2>3. CASE recs' = [recs EXCEPT ![f][1].state = "running"]
      <3> DEFINE new == [recs[f][1] EXCEPT !.state = "running"]
                 s == [recs[f] EXCEPT ![1] = new]
      <3>1. 1 \in 1 .. Len(recs[f]) /\ recs[f][1] \in OpRecord
        BY <2>1
      <3>2. new \in OpRecord
        BY <3>1, RestateRecord
      <3>3. s \in Seq(OpRecord) /\ Len(s) = Len(recs[f])
        BY <2>1, <3>1, <3>2, ExceptSeq
      <3>4. recs' = [recs EXCEPT ![f] = s]
        BY <2>3
      <3>5. s # <<>>
        BY <3>1, <3>3
      <3> HIDE DEF s, new
      <3> QED BY <2>1, <3>3, <3>4, <3>5 DEF RecordsKept
    <2> QED BY <2>2, <2>3
  <1>1. TypeOK'
    BY <1>0 DEF RecordsKept, FenceInv, TypeOK, Action, PassInv
  <1>2. Shape
    BY FenceShape
  <1>3. FenceExclusive'
    BY <1>2 DEF FenceInv, Shape, FenceExclusive, HolderOwnsRow, NoRowNoFence
  <1>4. HolderOwnsRow'
    BY <1>2 DEF FenceInv, Shape, HolderOwnsRow, FenceExclusive, PassInv, NoRowNoFence
  <1>5. NoRowNoFence'
    BY <1>2 DEF FenceInv, Shape, NoRowNoFence, HolderOwnsRow
  <1>6. PassInv'
    BY <1>0, <1>1, <1>2 DEF RecordsKept, FenceInv, Shape, PassInv
  <1>7. DangerInv'
    BY <1>2 DEF FenceInv, Shape, PassInv, DangerInv, HolderOwnsRow, FenceExclusive,
               NoRowNoFence
  <1> QED BY <1>1, <1>3, <1>4, <1>5, <1>6, <1>7 DEF FenceInv

\* Taking the in-memory flag keeps the invariant.
LEMMA LockMemoryPreserves ==
  ASSUME FenceInv, NEW r \in Request, LockMemory(r)
  PROVE  FenceInv'
  <1> USE FenceAssumption DEF LockMemory, At, Goto, Fail, Fault
  <1>1. TypeOK'
    BY DEF FenceInv, TypeOK, Action, PassInv
  <1>2. Shape
    BY FenceShape
  <1>3. FenceExclusive'
    BY <1>2 DEF FenceInv, Shape, FenceExclusive, HolderOwnsRow, NoRowNoFence
  <1>4. HolderOwnsRow'
    BY <1>2 DEF FenceInv, Shape, HolderOwnsRow, FenceExclusive, PassInv, NoRowNoFence
  <1>5. NoRowNoFence'
    BY <1>2 DEF FenceInv, Shape, NoRowNoFence, HolderOwnsRow
  <1>6. PassInv'
    BY <1>1, <1>2 DEF FenceInv, Shape, PassInv
  <1>7. DangerInv'
    BY <1>2 DEF FenceInv, Shape, PassInv, DangerInv, HolderOwnsRow, FenceExclusive,
               NoRowNoFence
  <1> QED BY <1>1, <1>3, <1>4, <1>5, <1>6, <1>7 DEF FenceInv

\* The compare-and-set of busy_operation, whose reply may be lost, keeps the invariant.
LEMMA ClaimSQLPreserves ==
  ASSUME FenceInv, NEW r \in Request, ClaimSQL(r)
  PROVE  FenceInv'
  <1> USE FenceAssumption DEF ClaimSQL, At, Goto, Fail, Fault, TakeToken, HasRef
  <1>a. pc' \in [Request -> PC] /\ err' \in [Request -> BOOLEAN]
    <2>1. \E p \in PC : pc' = [pc EXCEPT ![r] = p]
      OBVIOUS
    <2>2. err' = err \/ err' = [err EXCEPT ![r] = TRUE]
      OBVIOUS
    <2> QED BY <2>1, <2>2 DEF FenceInv, TypeOK
  <1>b. /\ busy' \in Token \cup {Free}
        /\ issued' \in SUBSET Token
        /\ tok' \in [Request -> Token \cup {Free}]
    <2>1. \/ \E t \in Token : busy' = t /\ issued' = issued \cup {t} /\ tok' = [tok EXCEPT ![r] = t]
          \/ UNCHANGED <<busy, issued, tok>>
      OBVIOUS
    <2> QED BY <2>1 DEF FenceInv, TypeOK
  <1>0. /\ UNCHANGED <<up, row, mem, recs, arg, retain, job>>
    OBVIOUS
  <1>1. TypeOK'
    BY <1>a, <1>b, <1>0 DEF FenceInv, TypeOK
  <1>2. Shape
    BY FenceShape
  <1>3. FenceExclusive'
    BY <1>2 DEF FenceInv, Shape, FenceExclusive, HolderOwnsRow, NoRowNoFence
  <1>4. HolderOwnsRow'
    BY <1>2 DEF FenceInv, Shape, HolderOwnsRow, FenceExclusive, PassInv, NoRowNoFence
  <1>5. NoRowNoFence'
    BY <1>2 DEF FenceInv, Shape, NoRowNoFence, HolderOwnsRow
  <1>6. PassInv'
    BY <1>1, <1>2 DEF FenceInv, Shape, PassInv
  <1>7. DangerInv'
    BY <1>2 DEF FenceInv, Shape, PassInv, DangerInv, HolderOwnsRow, FenceExclusive,
               NoRowNoFence
  <1> QED BY <1>1, <1>3, <1>4, <1>5, <1>6, <1>7 DEF FenceInv

\* A record appended to well-formed records leaves well-formed records.
LEMMA RecordAppended ==
  ASSUME NEW s \in Seq(OpRecord), NEW e \in OpRecord
  PROVE  Append(s, e) \in Seq(OpRecord) /\ Append(s, e) # <<>>
  <1>1. Append(s, e) \in Seq(OpRecord)
    BY AppendProperties
  <1>2. Append(s, e) # <<>>
    BY AppendProperties
  <1> QED BY <1>1, <1>2

\* Inserting the idempotency record keeps the invariant.
LEMMA InsertRecordPreserves ==
  ASSUME FenceInv, NEW r \in Request, InsertRecord(r)
  PROVE  FenceInv'
  <1> USE FenceAssumption DEF InsertRecord, NewRecord, At, Goto, Fail, Fault, Records
  <1>0. RecordsKept
    <2> DEFINE f == arg[r].ref
               rec == [action |-> arg[r].action, token |-> tok[r], state |-> "running"]
    <2>1. f \in Ref /\ recs[f] \in Seq(OpRecord) /\ recs \in [Ref -> Seq(OpRecord)]
      BY DEF FenceInv, TypeOK, PassInv
    <2>2. rec \in OpRecord
      BY <2>1 DEF FenceInv, TypeOK, PassInv, HolderOwnsRow, OpRecord
    <2>3. recs' = [recs EXCEPT ![f] = Append(recs[f], rec)] \/ UNCHANGED recs
      OBVIOUS
    <2> HIDE DEF rec, f
    <2> DEFINE s == Append(recs[f], rec)
    <2>4. s \in Seq(OpRecord) /\ s # <<>>
      BY <2>1, <2>2, RecordAppended
    <2> HIDE DEF s
    <2>5. CASE recs' = [recs EXCEPT ![f] = s]
      BY <2>1, <2>4, <2>5 DEF RecordsKept
    <2>6. CASE UNCHANGED recs
      BY <2>1, <2>6 DEF RecordsKept
    <2> QED BY <2>3, <2>5, <2>6 DEF s
  <1>1. TypeOK'
    BY <1>0 DEF RecordsKept, FenceInv, TypeOK, Action, PassInv
  <1>2. Shape
    BY FenceShape
  <1>3. FenceExclusive'
    BY <1>2 DEF FenceInv, Shape, FenceExclusive, HolderOwnsRow, NoRowNoFence
  <1>4. HolderOwnsRow'
    BY <1>2 DEF FenceInv, Shape, HolderOwnsRow, FenceExclusive, PassInv, NoRowNoFence
  <1>5. NoRowNoFence'
    BY <1>2 DEF FenceInv, Shape, NoRowNoFence, HolderOwnsRow
  <1>6. PassInv'
    BY <1>0, <1>1, <1>2 DEF RecordsKept, FenceInv, Shape, PassInv
  <1>7. DangerInv'
    BY <1>2 DEF FenceInv, Shape, PassInv, DangerInv, HolderOwnsRow, FenceExclusive,
               NoRowNoFence
  <1> QED BY <1>1, <1>3, <1>4, <1>5, <1>6, <1>7 DEF FenceInv

\* Writing the start log row keeps the invariant.
LEMMA LogStartPreserves ==
  ASSUME FenceInv, NEW r \in Request, LogStart(r)
  PROVE  FenceInv'
  <1> USE FenceAssumption DEF LogStart, At, Goto, Fail, Fault
  <1>1. TypeOK'
    BY DEF FenceInv, TypeOK, Action, PassInv
  <1>2. Shape
    BY FenceShape
  <1>3. FenceExclusive'
    BY <1>2 DEF FenceInv, Shape, FenceExclusive, HolderOwnsRow, NoRowNoFence
  <1>4. HolderOwnsRow'
    BY <1>2 DEF FenceInv, Shape, HolderOwnsRow, FenceExclusive, PassInv, NoRowNoFence
  <1>5. NoRowNoFence'
    BY <1>2 DEF FenceInv, Shape, NoRowNoFence, HolderOwnsRow
  <1>6. PassInv'
    BY <1>1, <1>2 DEF FenceInv, Shape, PassInv
  <1>7. DangerInv'
    BY <1>2 DEF FenceInv, Shape, PassInv, DangerInv, HolderOwnsRow, FenceExclusive,
               NoRowNoFence
  <1> QED BY <1>1, <1>3, <1>4, <1>5, <1>6, <1>7 DEF FenceInv

\* Giving the fence back on an early return keeps the invariant.
LEMMA GiveBackPreserves ==
  ASSUME FenceInv, NEW r \in Request, GiveBack(r)
  PROVE  FenceInv'
  <1> USE FenceAssumption DEF GiveBack, At, Goto, Fail, Fault, Release
  <1>1. TypeOK'
    BY DEF FenceInv, TypeOK, Action, PassInv
  <1>2. Shape
    BY FenceShape
  <1>3. FenceExclusive'
    BY <1>2 DEF FenceInv, Shape, FenceExclusive, HolderOwnsRow, NoRowNoFence
  <1>4. HolderOwnsRow'
    BY <1>2 DEF FenceInv, Shape, HolderOwnsRow, FenceExclusive, PassInv, NoRowNoFence
  <1>5. NoRowNoFence'
    BY <1>2 DEF FenceInv, Shape, NoRowNoFence, HolderOwnsRow
  <1>6. PassInv'
    BY <1>1, <1>2 DEF FenceInv, Shape, PassInv
  <1>7. DangerInv'
    BY <1>2 DEF FenceInv, Shape, PassInv, DangerInv, HolderOwnsRow, FenceExclusive,
               NoRowNoFence
  <1> QED BY <1>1, <1>3, <1>4, <1>5, <1>6, <1>7 DEF FenceInv

\* Deleting the in-memory flag keeps the invariant.
LEMMA UnlockMemoryPreserves ==
  ASSUME FenceInv, NEW r \in Request, UnlockMemory(r)
  PROVE  FenceInv'
  <1> USE FenceAssumption DEF UnlockMemory, At, Goto, Fail, Fault
  <1>1. TypeOK'
    BY DEF FenceInv, TypeOK, Action, PassInv
  <1>2. Shape
    BY FenceShape
  <1>3. FenceExclusive'
    BY <1>2 DEF FenceInv, Shape, FenceExclusive, HolderOwnsRow, NoRowNoFence
  <1>4. HolderOwnsRow'
    BY <1>2 DEF FenceInv, Shape, HolderOwnsRow, FenceExclusive, PassInv, NoRowNoFence
  <1>5. NoRowNoFence'
    BY <1>2 DEF FenceInv, Shape, NoRowNoFence, HolderOwnsRow
  <1>6. PassInv'
    BY <1>1, <1>2 DEF FenceInv, Shape, PassInv
  <1>7. DangerInv'
    BY <1>2 DEF FenceInv, Shape, PassInv, DangerInv, HolderOwnsRow, FenceExclusive,
               NoRowNoFence
  <1> QED BY <1>1, <1>3, <1>4, <1>5, <1>6, <1>7 DEF FenceInv

\* Creating an instance that is born fenced keeps the invariant.
LEMMA CreateRowPreserves ==
  ASSUME FenceInv, NEW r \in Request, CreateRow(r)
  PROVE  FenceInv'
  <1> USE FenceAssumption DEF CreateRow, At, Goto, Fail, Fault
  <1>1. TypeOK'
    BY DEF FenceInv, TypeOK, Action, PassInv
  <1>2. Shape
    BY FenceShape
  <1>3. FenceExclusive'
    BY <1>2 DEF FenceInv, Shape, FenceExclusive, HolderOwnsRow, NoRowNoFence
  <1>4. HolderOwnsRow'
    BY <1>2 DEF FenceInv, Shape, HolderOwnsRow, FenceExclusive, PassInv, NoRowNoFence
  <1>5. NoRowNoFence'
    BY <1>2 DEF FenceInv, Shape, NoRowNoFence, HolderOwnsRow
  <1>6. PassInv'
    BY <1>1, <1>2 DEF FenceInv, Shape, PassInv
  <1>7. DangerInv'
    BY <1>2 DEF FenceInv, Shape, PassInv, DangerInv, HolderOwnsRow, FenceExclusive,
               NoRowNoFence
  <1> QED BY <1>1, <1>3, <1>4, <1>5, <1>6, <1>7 DEF FenceInv

\* Giving up before the agent is called keeps the invariant.
LEMMA RejectPreserves ==
  ASSUME FenceInv, NEW r \in Request, Reject(r)
  PROVE  FenceInv'
  <1> USE FenceAssumption DEF Reject, At, Goto, Fail, Fault
  <1>1. TypeOK'
    BY DEF FenceInv, TypeOK, Action, PassInv
  <1>2. Shape
    BY FenceShape
  <1>3. FenceExclusive'
    BY <1>2 DEF FenceInv, Shape, FenceExclusive, HolderOwnsRow, NoRowNoFence
  <1>4. HolderOwnsRow'
    BY <1>2 DEF FenceInv, Shape, HolderOwnsRow, FenceExclusive, PassInv, NoRowNoFence
  <1>5. NoRowNoFence'
    BY <1>2 DEF FenceInv, Shape, NoRowNoFence, HolderOwnsRow
  <1>6. PassInv'
    BY <1>1, <1>2 DEF FenceInv, Shape, PassInv
  <1>7. DangerInv'
    BY <1>2 DEF FenceInv, Shape, PassInv, DangerInv, HolderOwnsRow, FenceExclusive,
               NoRowNoFence
  <1> QED BY <1>1, <1>3, <1>4, <1>5, <1>6, <1>7 DEF FenceInv

\* Calling the agent keeps the invariant.
LEMMA SendPreserves ==
  ASSUME FenceInv, NEW r \in Request, Send(r)
  PROVE  FenceInv'
  <1> USE FenceAssumption DEF Send, At, Goto, Fail, Fault
  <1>1. TypeOK'
    BY DEF FenceInv, TypeOK, Action, PassInv
  <1>2. Shape
    BY FenceShape
  <1>3. FenceExclusive'
    BY <1>2 DEF FenceInv, Shape, FenceExclusive, HolderOwnsRow, NoRowNoFence
  <1>4. HolderOwnsRow'
    BY <1>2 DEF FenceInv, Shape, HolderOwnsRow, FenceExclusive, PassInv, NoRowNoFence
  <1>5. NoRowNoFence'
    BY <1>2 DEF FenceInv, Shape, NoRowNoFence, HolderOwnsRow
  <1>6. PassInv'
    BY <1>1, <1>2 DEF FenceInv, Shape, PassInv
  <1>7. DangerInv'
    BY <1>2 DEF FenceInv, Shape, PassInv, DangerInv, HolderOwnsRow, FenceExclusive,
               NoRowNoFence
  <1> QED BY <1>1, <1>3, <1>4, <1>5, <1>6, <1>7 DEF FenceInv

\* The end of the work on the node keeps the invariant.
LEMMA JobEndsPreserves ==
  ASSUME FenceInv, NEW r \in Request, JobEnds(r)
  PROVE  FenceInv'
  <1> USE FenceAssumption DEF JobEnds, At, Goto, Fail, Fault
  <1>1. TypeOK'
    BY DEF FenceInv, TypeOK, Action, PassInv
  <1>2. Shape
    BY FenceShape
  <1>3. FenceExclusive'
    BY <1>2 DEF FenceInv, Shape, FenceExclusive, HolderOwnsRow, NoRowNoFence
  <1>4. HolderOwnsRow'
    BY <1>2 DEF FenceInv, Shape, HolderOwnsRow, FenceExclusive, PassInv, NoRowNoFence
  <1>5. NoRowNoFence'
    BY <1>2 DEF FenceInv, Shape, NoRowNoFence, HolderOwnsRow
  <1>6. PassInv'
    BY <1>1, <1>2 DEF FenceInv, Shape, PassInv
  <1>7. DangerInv'
    BY <1>2 DEF FenceInv, Shape, PassInv, DangerInv, HolderOwnsRow, FenceExclusive,
               NoRowNoFence
  <1> QED BY <1>1, <1>3, <1>4, <1>5, <1>6, <1>7 DEF FenceInv

\* Storing the agent's answer, or deleting the row, keeps the invariant.
LEMMA ReplyPreserves ==
  ASSUME FenceInv, NEW r \in Request, Reply(r)
  PROVE  FenceInv'
  <1> USE FenceAssumption DEF Reply, At, Goto, Fail, Fault
  <1>1. TypeOK'
    BY DEF FenceInv, TypeOK, Action, PassInv
  <1>2. Shape
    BY FenceShape
  <1>3. FenceExclusive'
    BY <1>2 DEF FenceInv, Shape, FenceExclusive, HolderOwnsRow, NoRowNoFence
  <1>4. HolderOwnsRow'
    BY <1>2 DEF FenceInv, Shape, HolderOwnsRow, FenceExclusive, PassInv, NoRowNoFence
  <1>5. NoRowNoFence'
    BY <1>2 DEF FenceInv, Shape, NoRowNoFence, HolderOwnsRow
  <1>6. PassInv'
    BY <1>1, <1>2 DEF FenceInv, Shape, PassInv
  <1>7. DangerInv'
    BY <1>2 DEF FenceInv, Shape, PassInv, DangerInv, HolderOwnsRow, FenceExclusive,
               NoRowNoFence
  <1> QED BY <1>1, <1>3, <1>4, <1>5, <1>6, <1>7 DEF FenceInv

\* A failed call, which retains the fence of destructive work, keeps the invariant.
LEMMA CallFailsPreserves ==
  ASSUME FenceInv, NEW r \in Request, CallFails(r)
  PROVE  FenceInv'
  <1> USE FenceAssumption DEF CallFails, At, Goto, Fail, Fault
  <1>0. /\ arg[r].action \in Retaining => retain'[r]
        /\ \A q \in Request \ {r} : retain'[q] = retain[q]
    BY DEF FenceInv, TypeOK
  <1>1. TypeOK'
    BY DEF FenceInv, TypeOK, Action, PassInv
  <1>2. Shape
    BY FenceShape
  <1>3. FenceExclusive'
    BY <1>2 DEF FenceInv, Shape, FenceExclusive, HolderOwnsRow, NoRowNoFence
  <1>4. HolderOwnsRow'
    BY <1>2 DEF FenceInv, Shape, HolderOwnsRow, FenceExclusive, PassInv, NoRowNoFence
  <1>5. NoRowNoFence'
    BY <1>2 DEF FenceInv, Shape, NoRowNoFence, HolderOwnsRow
  <1>6. PassInv'
    BY <1>1, <1>2 DEF FenceInv, Shape, PassInv
  <1>7. DangerInv'
    BY <1>0, <1>2 DEF FenceInv, Shape, PassInv, DangerInv, HolderOwnsRow, FenceExclusive,
               NoRowNoFence
  <1> QED BY <1>1, <1>3, <1>4, <1>5, <1>6, <1>7 DEF FenceInv

\* Writing the complete log row keeps the invariant.
LEMMA LogCompletePreserves ==
  ASSUME FenceInv, NEW r \in Request, LogComplete(r)
  PROVE  FenceInv'
  <1> USE FenceAssumption DEF LogComplete, At, Goto, Fail, Fault
  <1>1. TypeOK'
    BY DEF FenceInv, TypeOK, Action, PassInv
  <1>2. Shape
    BY FenceShape
  <1>3. FenceExclusive'
    BY <1>2 DEF FenceInv, Shape, FenceExclusive, HolderOwnsRow, NoRowNoFence
  <1>4. HolderOwnsRow'
    BY <1>2 DEF FenceInv, Shape, HolderOwnsRow, FenceExclusive, PassInv, NoRowNoFence
  <1>5. NoRowNoFence'
    BY <1>2 DEF FenceInv, Shape, NoRowNoFence, HolderOwnsRow
  <1>6. PassInv'
    BY <1>1, <1>2 DEF FenceInv, Shape, PassInv
  <1>7. DangerInv'
    BY <1>2 DEF FenceInv, Shape, PassInv, DangerInv, HolderOwnsRow, FenceExclusive,
               NoRowNoFence
  <1> QED BY <1>1, <1>3, <1>4, <1>5, <1>6, <1>7 DEF FenceInv

\* Completing every record of the caller id keeps the invariant.
LEMMA CompleteRecordPreserves ==
  ASSUME FenceInv, NEW r \in Request, CompleteRecord(r)
  PROVE  FenceInv'
  <1> USE FenceAssumption DEF CompleteRecord, Completed, RecordOutcome, At, Goto, Fail, Fault,
                              HasRef
  <1>0. RecordsKept
    <2> DEFINE f == arg[r].ref
               st == IF err[r] THEN "failed" ELSE "succeeded"
               s == [i \in DOMAIN recs[f] |-> [recs[f][i] EXCEPT !.state = st]]
    <2>1. recs \in [Ref -> Seq(OpRecord)] /\ f \in Ref \cup {NoRef}
      BY DEF FenceInv, TypeOK
    <2>2. CASE UNCHANGED recs
      BY <2>1, <2>2 DEF RecordsKept
    <2>3. CASE recs' = [recs EXCEPT ![f] = s] /\ f # NoRef
      <3>1. f \in Ref /\ recs[f] \in Seq(OpRecord)
        BY <2>1, <2>3
      <3>2. \A i \in 1 .. Len(recs[f]) : recs[f][i] \in OpRecord
        BY <3>1
      <3>3. s = [i \in 1 .. Len(recs[f]) |-> [recs[f][i] EXCEPT !.state = st]]
        BY <3>1
      <3>4. \A i \in 1 .. Len(recs[f]) : [recs[f][i] EXCEPT !.state = st] \in OpRecord
        BY <3>2, RestateRecord
      <3>5. s \in Seq(OpRecord) /\ Len(s) = Len(recs[f])
        <4> DEFINE n == Len(recs[f])
        <4>1. n \in Nat
          BY <3>1
        <4>2. s \in [1 .. n -> OpRecord]
          BY <3>3, <3>4
        <4> HIDE DEF s, n
        <4>3. s \in Seq(OpRecord) /\ Len(s) = n
          BY <4>1, <4>2
        <4> QED BY <4>3 DEF n
      <3>6. recs[f] # <<>> => s # <<>>
        BY <3>1, <3>5
      <3> HIDE DEF s
      <3> QED BY <2>1, <2>3, <3>1, <3>5, <3>6 DEF RecordsKept
    <2> QED BY <2>2, <2>3
  <1>a. overtaken' \in SUBSET Ref
    <2>1. overtaken \in SUBSET Ref /\ arg[r].ref \in Ref \cup {NoRef}
      BY DEF FenceInv, TypeOK
    <2>2. overtaken' = overtaken \/ (HasRef(r) /\ \A f \in overtaken' : f \in overtaken \/ f = arg[r].ref)
      OBVIOUS
    <2> QED BY <2>1, <2>2
  <1> HIDE DEF RecordOutcome, Completed
  <1>1. TypeOK'
    BY <1>0, <1>a DEF RecordsKept, FenceInv, TypeOK, Action, PassInv
  <1>2. Shape
    BY FenceShape
  <1>3. FenceExclusive'
    BY <1>2 DEF FenceInv, Shape, FenceExclusive, HolderOwnsRow, NoRowNoFence
  <1>4. HolderOwnsRow'
    BY <1>2 DEF FenceInv, Shape, HolderOwnsRow, FenceExclusive, PassInv, NoRowNoFence
  <1>5. NoRowNoFence'
    BY <1>2 DEF FenceInv, Shape, NoRowNoFence, HolderOwnsRow
  <1>6. PassInv'
    BY <1>0, <1>1, <1>2 DEF RecordsKept, FenceInv, Shape, PassInv
  <1>7. DangerInv'
    BY <1>2 DEF FenceInv, Shape, PassInv, DangerInv, HolderOwnsRow, FenceExclusive,
               NoRowNoFence
  <1> QED BY <1>1, <1>3, <1>4, <1>5, <1>6, <1>7 DEF FenceInv

\* Releasing or retaining the fence keeps the invariant.
LEMMA SettlePreserves ==
  ASSUME FenceInv, NEW r \in Request, Settle(r)
  PROVE  FenceInv'
  <1> USE FenceAssumption DEF Settle, At, Goto, Fail, Fault, Release, Retained
  <1>1. TypeOK'
    BY DEF FenceInv, TypeOK, Action, PassInv
  <1>2. Shape
    BY FenceShape
  <1>3. FenceExclusive'
    BY <1>2 DEF FenceInv, Shape, FenceExclusive, HolderOwnsRow, NoRowNoFence
  <1>4. HolderOwnsRow'
    BY <1>2 DEF FenceInv, Shape, HolderOwnsRow, FenceExclusive, PassInv, NoRowNoFence
  <1>5. NoRowNoFence'
    BY <1>2 DEF FenceInv, Shape, NoRowNoFence, HolderOwnsRow
  <1>6. PassInv'
    BY <1>1, <1>2 DEF FenceInv, Shape, PassInv
  <1>7. DangerInv'
    BY <1>2 DEF FenceInv, Shape, PassInv, DangerInv, HolderOwnsRow, FenceExclusive,
               NoRowNoFence
  <1> QED BY <1>1, <1>3, <1>4, <1>5, <1>6, <1>7 DEF FenceInv

\* A crash of the master keeps the invariant.
LEMMA MasterStopsPreserves ==
  ASSUME FenceInv, MasterStops
  PROVE  FenceInv'
  <1> USE FenceAssumption DEF MasterStops, At, Goto, Fail, Fault
  <1>1. TypeOK'
    BY DEF FenceInv, TypeOK, Action, PassInv
  <1>2. Shape
    BY FenceShape
  <1>3. FenceExclusive'
    BY <1>2 DEF FenceInv, Shape, FenceExclusive, HolderOwnsRow, NoRowNoFence
  <1>4. HolderOwnsRow'
    BY <1>2 DEF FenceInv, Shape, HolderOwnsRow, FenceExclusive, PassInv, NoRowNoFence
  <1>5. NoRowNoFence'
    BY <1>2 DEF FenceInv, Shape, NoRowNoFence, HolderOwnsRow
  <1>6. PassInv'
    BY <1>1, <1>2 DEF FenceInv, Shape, PassInv
  <1>7. DangerInv'
    BY <1>2 DEF FenceInv, Shape, PassInv, DangerInv, HolderOwnsRow, FenceExclusive,
               NoRowNoFence
  <1> QED BY <1>1, <1>3, <1>4, <1>5, <1>6, <1>7 DEF FenceInv

\* A restart keeps the invariant.
LEMMA MasterStartsPreserves ==
  ASSUME FenceInv, MasterStarts
  PROVE  FenceInv'
  <1> USE FenceAssumption DEF MasterStarts, At, Goto, Fail, Fault
  <1>1. TypeOK'
    BY DEF FenceInv, TypeOK, Action, PassInv
  <1>2. Shape
    BY FenceShape
  <1>3. FenceExclusive'
    BY <1>2 DEF FenceInv, Shape, FenceExclusive, HolderOwnsRow, NoRowNoFence
  <1>4. HolderOwnsRow'
    BY <1>2 DEF FenceInv, Shape, HolderOwnsRow, FenceExclusive, PassInv, NoRowNoFence
  <1>5. NoRowNoFence'
    BY <1>2 DEF FenceInv, Shape, NoRowNoFence, HolderOwnsRow
  <1>6. PassInv'
    BY <1>1, <1>2 DEF FenceInv, Shape, PassInv
  <1>7. DangerInv'
    BY <1>2 DEF FenceInv, Shape, PassInv, DangerInv, HolderOwnsRow, FenceExclusive,
               NoRowNoFence
  <1> QED BY <1>1, <1>3, <1>4, <1>5, <1>6, <1>7 DEF FenceInv

\* Manual recovery keeps the invariant.
LEMMA OperatorClearsPreserves ==
  ASSUME FenceInv, OperatorClears
  PROVE  FenceInv'
  <1> USE FenceAssumption DEF OperatorClears, At, Goto, Fail, Fault
  <1>1. TypeOK'
    BY DEF FenceInv, TypeOK, Action, PassInv
  <1>2. Shape
    BY FenceShape
  <1>3. FenceExclusive'
    BY <1>2 DEF FenceInv, Shape, FenceExclusive, HolderOwnsRow, NoRowNoFence
  <1>4. HolderOwnsRow'
    BY <1>2 DEF FenceInv, Shape, HolderOwnsRow, FenceExclusive, PassInv, NoRowNoFence
  <1>5. NoRowNoFence'
    BY <1>2 DEF FenceInv, Shape, NoRowNoFence, HolderOwnsRow
  <1>6. PassInv'
    BY <1>1, <1>2 DEF FenceInv, Shape, PassInv
  <1>7. DangerInv'
    BY <1>2 DEF FenceInv, Shape, PassInv, DangerInv, HolderOwnsRow, FenceExclusive,
               NoRowNoFence
  <1> QED BY <1>1, <1>3, <1>4, <1>5, <1>6, <1>7 DEF FenceInv

-----------------------------------------------------------------------------
(* Every step keeps the invariant. *)

\* Every step keeps the invariant.
LEMMA NextFenceInv == FenceInv /\ [Next]_vars => FenceInv'
  <1> SUFFICES ASSUME FenceInv, [Next]_vars PROVE FenceInv'
    OBVIOUS
  <1>1. ASSUME NEW r \in Request, Step(r) PROVE FenceInv'
    BY <1>1, LookupPreserves, CheckFencePreserves, ResetRecordPreserves,
       LockMemoryPreserves, ClaimSQLPreserves, InsertRecordPreserves,
       LogStartPreserves, GiveBackPreserves, UnlockMemoryPreserves,
       RejectPreserves, SendPreserves, ReplyPreserves, CallFailsPreserves,
       LogCompletePreserves, CompleteRecordPreserves, SettlePreserves
    DEF Step
  <1>2. CASE UNCHANGED vars
    BY <1>2 DEF vars, FenceInv, TypeOK, FenceExclusive, HolderOwnsRow,
               NoRowNoFence, PassInv, DangerInv
  <1> QED
    BY <1>1, <1>2, ArrivePreserves, CreateRowPreserves, JobEndsPreserves,
       MasterStopsPreserves, MasterStartsPreserves, OperatorClearsPreserves
    DEF Next

\* The inductive invariant of the fence.
THEOREM FenceInvariant == Spec => []FenceInv
  BY InitFenceInv, NextFenceInv, PTL DEF Spec

\* Type correctness of the guard and its records.
THEOREM TypeCorrect == Spec => []TypeOK
  <1>1. FenceInv => TypeOK
    BY DEF FenceInv
  <1> QED BY <1>1, FenceInvariant, PTL

\* Operation bodies of one instance never overlap.
THEOREM Exclusion == Spec => []FenceExclusive
  <1>1. FenceInv => FenceExclusive
    BY DEF FenceInv
  <1> QED BY <1>1, FenceInvariant, PTL

\* Destructive work on the node is always behind its own fence.
THEOREM DangerFenced == Spec => []DestructiveWorkFenced
  <1>1. FenceInv => DestructiveWorkFenced
    BY DEF FenceInv, DangerInv, DestructiveWorkFenced
  <1> QED BY <1>1, FenceInvariant, PTL

-----------------------------------------------------------------------------
(* What a step may do to the fence *)

\* The condition of FenceNeverStolen, for one step.
Surrender ==
    busy # Free /\ busy' # busy =>
        /\ busy' = Free
        /\ \/ \E r \in Request : pc[r] \in Holding /\ tok[r] = busy /\ ~retain[r]
           \/ ~up /\ \A r \in Request : job[r] # "working"

\* A step of a request that changes a held fence is its holder's.
LEMMA StepSurrenders ==
  ASSUME FenceInv, NEW r \in Request, Step(r)
  PROVE  Surrender
  <1> USE DEF At, Surrender
  <1>1. Shape
    BY FenceShape
  <1>2. CASE ClaimSQL(r)
    BY <1>2 DEF ClaimSQL, TakeToken
  <1>3. CASE GiveBack(r)
    BY <1>1, <1>3 DEF GiveBack, Release, FenceInv, HolderOwnsRow, PassInv, Shape, Fault
  <1>4. CASE Settle(r)
    BY <1>1, <1>4 DEF Settle, Retained, Release, FenceInv, HolderOwnsRow, PassInv, Shape, Fault
  <1>5. CASE Reply(r)
    BY <1>1, <1>5, FenceAssumption DEF Reply, Fail, FenceInv, HolderOwnsRow, PassInv, Shape
  <1>6. CASE UNCHANGED busy
    BY <1>6
  <1> QED
    BY <1>2, <1>3, <1>4, <1>5, <1>6
    DEF Step, Lookup, CheckFence, ResetRecord, LockMemory, InsertRecord, LogStart,
        UnlockMemory, Reject, Send, CallFails, LogComplete, CompleteRecord

\* A step that changes a held fence is its holder's, or manual recovery.
LEMMA NextSurrenders == FenceInv /\ [Next]_vars => [Surrender]_vars
  <1> SUFFICES ASSUME FenceInv, Next PROVE Surrender
    OBVIOUS
  <1>1. ASSUME NEW r \in Request, CreateRow(r) PROVE Surrender
    BY <1>1 DEF CreateRow, Surrender, FenceInv, NoRowNoFence
  <1>2. CASE OperatorClears
    BY <1>2 DEF OperatorClears, Surrender
  <1>3. CASE UNCHANGED busy
    BY <1>3 DEF Surrender
  <1> QED
    BY <1>1, <1>2, <1>3, StepSurrenders
    DEF Next, Arrive, JobEnds, MasterStops, MasterStarts

\* A persisted fence is never stolen, on a timer, at a restart or by a retry.
THEOREM NeverStolen == Spec => FenceNeverStolen
  BY NextSurrenders, FenceInvariant, PTL DEF Spec, FenceNeverStolen, Surrender

-----------------------------------------------------------------------------
(* The in-memory flag *)

FlagOwners == {"claim", "unlock"} \cup Holding

\* The in-memory flag is set only while a request that will delete it is alive.
THEOREM FlagOwned == Spec => []MemoryFlagOwned
  <1>1. Init => MemoryFlagOwned
    BY DEF Init, MemoryFlagOwned
  <1>2. FenceInv /\ MemoryFlagOwned /\ [Next]_vars => MemoryFlagOwned'
    <2> SUFFICES ASSUME FenceInv, MemoryFlagOwned, [Next]_vars, mem'
                 PROVE  \E q \in Request : pc'[q] \in FlagOwners
      BY DEF MemoryFlagOwned, FlagOwners
    <2> USE DEF FlagOwners
    <2>0. pc \in [Request -> PC]
      BY DEF FenceInv, TypeOK
    <2>1. ASSUME NEW r \in Request, LockMemory(r), ~mem
          PROVE  pc'[r] \in FlagOwners
      BY <2>0, <2>1 DEF LockMemory, At, Goto
    <2>2. mem \/ \E r \in Request : LockMemory(r) /\ ~mem
      BY DEF Next, vars, Arrive, CreateRow, Step, JobEnds, MasterStops, MasterStarts,
             OperatorClears, Lookup, CheckFence, ResetRecord, LockMemory, ClaimSQL,
             InsertRecord, LogStart, GiveBack, UnlockMemory, Reject, Send, Reply,
             CallFails, LogComplete, CompleteRecord, Settle
    <2>3. ASSUME mem, NEW q \in Request, pc[q] \in FlagOwners
          PROVE  pc'[q] \in FlagOwners
      <3>2. CASE UNCHANGED pc
        BY <2>3, <3>2
      <3>3. CASE MasterStops
        BY <3>3 DEF MasterStops
      <3>4. ASSUME NEW r \in Request, Step(r) PROVE pc'[q] \in FlagOwners
        BY <2>0, <2>3, <3>4
        DEF At, Goto, Fail, Step, Lookup, CheckFence, ResetRecord, LockMemory, ClaimSQL,
            InsertRecord, LogStart, GiveBack, UnlockMemory, Reject, Send, Reply,
            CallFails, LogComplete, CompleteRecord, Settle
      <3>5. ASSUME NEW r \in Request,
                   CreateRow(r) \/ \E f \in Ref \cup {NoRef}, a \in CallerAction \cup {Purge} : Arrive(r, f, a)
            PROVE  pc'[q] \in FlagOwners
        BY <2>0, <2>3, <3>5 DEF CreateRow, Arrive, At, Goto
      <3> QED
        BY <3>2, <3>3, <3>4, <3>5
        DEF Next, vars, JobEnds, MasterStarts, OperatorClears
    <2> QED
      BY <2>1, <2>2, <2>3 DEF MemoryFlagOwned
  <1> QED BY <1>1, <1>2, FenceInvariant, PTL DEF Spec

-----------------------------------------------------------------------------
(* Refinement of the exclusive fence *)

AbsVars == <<Owner, Danger>>

\* What Owner is, in terms of the holder.
LEMMA OwnerIsHolder ==
  ASSUME FenceExclusive, NEW r \in Request, pc[r] \in Holding
  PROVE  Owner = r
  BY DEF FenceExclusive, Owner

\* The same in the next state.
LEMMA OwnerIsHolderNext ==
  ASSUME FenceExclusive', NEW r \in Request, pc'[r] \in Holding
  PROVE  Owner' = r
  BY DEF FenceExclusive, Owner

\* What Owner is when nobody holds the fence.
Unheld == IF busy # Free THEN "stranded" ELSE IF row = "deleted" THEN "gone" ELSE "nobody"

\* What Owner is when nobody holds the fence.
LEMMA OwnerUnheld ==
  ASSUME \A r \in Request : pc[r] \notin Holding
  PROVE  Owner = Unheld
  BY DEF Owner, Unheld

\* The same in the next state.
LEMMA OwnerUnheldNext ==
  ASSUME \A r \in Request : pc'[r] \notin Holding
  PROVE  Owner' = Unheld'
  BY DEF Owner, Unheld

\* Dangerous work runs only for the request that holds the fence, if any does.
LEMMA DangerIsHolders ==
  ASSUME FenceInv, NEW r \in Request, pc[r] \in Holding, job[r] # "working" \/ row = "deleted"
  PROVE  Danger = {}
  BY DEF FenceInv, DangerInv, Danger

\* A request outside the fence moves without entering it.
LEMMA OutsideStep ==
  ASSUME FenceInv, NEW r \in Request, NEW p \in PC \ Holding,
         pc[r] \notin Holding, pc' = [pc EXCEPT ![r] = p], UNCHANGED <<busy, row>>
  PROVE  Owner' = Owner
  <1>1. pc \in [Request -> PC]
    BY DEF FenceInv, TypeOK
  <1>2. \A q \in Request : pc'[q] \in Holding <=> pc[q] \in Holding
    BY <1>1
  <1>3. \A q \in Request : pc[q] \in Holding => pc'[q] \in Holding /\ FenceExclusive'
    BY <1>2 DEF FenceInv, FenceExclusive
  <1>4. CASE \E q \in Request : pc[q] \in Holding
    BY <1>3, <1>4, OwnerIsHolder, OwnerIsHolderNext DEF FenceInv
  <1>5. CASE \A q \in Request : pc[q] \notin Holding
    BY <1>2, <1>5, OwnerUnheld, OwnerUnheldNext DEF Unheld
  <1> QED BY <1>4, <1>5

\* A request inside the fence stays inside.
LEMMA InsideStep ==
  ASSUME FenceInv, FenceInv', NEW r \in Request, NEW p \in Holding,
         pc[r] \in Holding, pc' = [pc EXCEPT ![r] = p]
  PROVE  Owner' = Owner
  <1>1. pc'[r] \in Holding
    BY DEF FenceInv, TypeOK
  <1> QED BY <1>1, OwnerIsHolder, OwnerIsHolderNext DEF FenceInv

\* A request enters the free fence.
LEMMA EnterStep ==
  ASSUME FenceInv, FenceInv', NEW r \in Request, NEW p \in Holding,
         row # "deleted", busy = Free, pc' = [pc EXCEPT ![r] = p]
  PROVE  Owner = "nobody" /\ Owner' = r
  <1>1. \A q \in Request : pc[q] \notin Holding
    BY FenceAssumption DEF FenceInv, HolderOwnsRow
  <1>2. pc'[r] \in Holding
    BY DEF FenceInv, TypeOK
  <1>3. Owner = "nobody"
    BY <1>1, OwnerUnheld DEF Unheld
  <1> QED BY <1>2, <1>3, OwnerIsHolderNext DEF FenceInv

\* The holder leaves the fence.
LEMMA LeaveStep ==
  ASSUME FenceInv, NEW r \in Request, NEW p \in PC \ Holding,
         pc[r] \in Holding, pc' = [pc EXCEPT ![r] = p]
  PROVE  Owner = r /\ Owner' = Unheld'
  <1>1. \A q \in Request : pc'[q] \notin Holding
    BY DEF FenceInv, TypeOK, FenceExclusive
  <1>2. Owner' = Unheld'
    BY <1>1, OwnerUnheldNext
  <1> QED BY <1>2, OwnerIsHolder DEF FenceInv

AbsNext == Fence!Next \/ UNCHANGED AbsVars

\* The claim: an abstract Acquire, or a stranded fence when the reply is lost.
LEMMA ClaimRefines ==
  ASSUME FenceInv, FenceInv', NEW r \in Request, ClaimSQL(r)
  PROVE  AbsNext
  <1> USE DEF AbsNext, AbsVars
  <1>0. UNCHANGED Danger /\ pc[r] = "claim" /\ UNCHANGED row
    BY DEF ClaimSQL, Danger, At
  <1>1. CASE \E t \in Token : TakeToken(r, t)
    <2>1. row = "present" /\ busy = Free /\ busy' \in Token
      BY <1>1 DEF TakeToken
    <2>2. CASE \E p \in {"record", "start"} : pc' = [pc EXCEPT ![r] = p]
      <3>1. Owner = "nobody" /\ Owner' = r
        BY <2>1, <2>2, EnterStep
      <3> QED BY <1>0, <3>1 DEF Fence!Next, Fence!Acquire
    <2>3. CASE pc' = [pc EXCEPT ![r] = "unlock"]
      <3>1. \A q \in Request : pc[q] \notin Holding
        BY <2>1, FenceAssumption DEF FenceInv, HolderOwnsRow
      <3>2. \A q \in Request : pc'[q] \notin Holding
        BY <2>3, <3>1 DEF FenceInv, TypeOK
      <3>3. Owner = "nobody" /\ Owner' = "stranded"
        BY <2>1, <3>1, <3>2, OwnerUnheld, OwnerUnheldNext, FenceAssumption DEF Unheld
      <3> QED BY <1>0, <3>3 DEF Fence!Next, Fence!Strand
    <2> QED BY <1>1, <2>1, <2>2, <2>3, FenceAssumption DEF ClaimSQL, Goto, Fail, HasRef
  <1>2. CASE UNCHANGED busy /\ pc' = [pc EXCEPT ![r] = "unlock"]
    BY <1>0, <1>2, OutsideStep
  <1> QED BY <1>1, <1>2 DEF ClaimSQL, Goto, Fail

\* The holder leaves: it lets go, or the fence stays behind, stranded.
LEMMA LeaveRefines ==
  ASSUME FenceInv, FenceInv', NEW r \in Request, GiveBack(r) \/ Settle(r)
  PROVE  AbsNext
  <1> USE DEF AbsNext, AbsVars
  <1>0. /\ UNCHANGED <<Danger, row>> /\ pc[r] \in {"giveback", "settle"}
        /\ pc' = [pc EXCEPT ![r] = "unlock"]
    BY DEF GiveBack, Settle, Danger, At, Goto
  <1>1. Owner = r /\ Owner' = Unheld'
    BY <1>0, LeaveStep
  <1>2. CASE busy' # Free
    BY <1>0, <1>1, <1>2 DEF Unheld, Fence!Next, Fence!Strand
  <1>3. CASE busy' = Free
    <2>1. ASSUME NEW d \in Danger PROVE FALSE
      <3>1. d = r /\ pc[r] = "settle" /\ retain[r] /\ busy \in Token
        BY <1>0 DEF FenceInv, DangerInv, Danger
      <3>2. busy' = busy
        BY <3>1 DEF Settle, Retained, GiveBack, At
      <3> QED BY <1>3, <3>1, <3>2, FenceAssumption
    <2> QED BY <1>0, <1>1, <1>3, <2>1 DEF Unheld, Fence!Next, Fence!LetGo
  <1> QED BY <1>2, <1>3

\* Everything else a request does.
LEMMA StepRefines ==
  ASSUME FenceInv, FenceInv', NEW r \in Request, Step(r)
  PROVE  AbsNext
  <1> USE DEF AbsNext, AbsVars, At, Goto, Fail
  <1>1. CASE Lookup(r) \/ CheckFence(r) \/ ResetRecord(r) \/ LockMemory(r) \/ UnlockMemory(r)
    <2>1. UNCHANGED <<Danger, busy, row>>
      BY <1>1 DEF Danger, Lookup, CheckFence, ResetRecord, LockMemory, UnlockMemory
    <2>2. pc[r] \notin Holding /\ \E p \in PC \ Holding : pc' = [pc EXCEPT ![r] = p]
      BY <1>1 DEF Lookup, CheckFence, ResetRecord, LockMemory, UnlockMemory
    <2> QED BY <2>1, <2>2, OutsideStep
  <1>2. CASE InsertRecord(r) \/ LogStart(r) \/ Reject(r) \/ Reply(r) \/ CallFails(r)
                \/ LogComplete(r) \/ CompleteRecord(r)
    <2>1. UNCHANGED Danger
      BY <1>2 DEF Danger, InsertRecord, LogStart, Reject, Reply, CallFails, LogComplete,
                  CompleteRecord
    <2>2. pc[r] \in Holding /\ \E p \in Holding : pc' = [pc EXCEPT ![r] = p]
      BY <1>2 DEF InsertRecord, LogStart, Reject, Reply, CallFails, LogComplete, CompleteRecord
    <2> QED BY <2>1, <2>2, InsideStep
  <1>3. CASE Send(r)
    <2>1. UNCHANGED Owner /\ Owner = r
      BY <1>3, InsideStep, OwnerIsHolder DEF Send, FenceInv
    <2>2. Danger' = IF arg[r].action \in Retaining THEN Danger \cup {r} ELSE Danger
      BY <1>3 DEF Send, Danger, FenceInv, TypeOK, PassInv
    <2> QED BY <2>1, <2>2 DEF Fence!Next, Fence!Launch
  <1> QED BY <1>1, <1>2, <1>3, ClaimRefines, LeaveRefines DEF Step

\* The guard, its records, failures and restarts implement an exclusive fence.
THEOREM Refinement == Spec => ImplementsExclusiveFence
  <1>1. Init => Fence!Init
    <2> SUFFICES ASSUME Init PROVE Fence!Init
      OBVIOUS
    <2>1. Owner = "nobody"
      BY OwnerUnheld DEF Init, Unheld
    <2> QED BY <2>1 DEF Init, Fence!Init, Danger
  <1>2. FenceInv /\ FenceInv' /\ [Next]_vars => [Fence!Next]_AbsVars
    <2> SUFFICES ASSUME FenceInv, FenceInv', [Next]_vars PROVE AbsNext
      BY DEF AbsNext
    <2> USE DEF AbsNext, AbsVars
    <2>1. ASSUME NEW r \in Request, NEW f \in Ref \cup {NoRef},
                 NEW a \in CallerAction \cup {Purge}, Arrive(r, f, a)
          PROVE  AbsNext
      <3>1. UNCHANGED Owner
        BY <2>1, OutsideStep DEF Arrive, At, Goto
      <3>2. UNCHANGED Danger
        BY <2>1 DEF Arrive, At, Danger, FenceInv, TypeOK, PassInv
      <3> QED BY <3>1, <3>2
    <2>2. ASSUME NEW r \in Request, CreateRow(r) PROVE AbsNext
      <3>1. Owner = "nobody" /\ Owner' = r
        BY <2>2, EnterStep DEF CreateRow, At, Goto, FenceInv, NoRowNoFence
      <3>2. UNCHANGED Danger
        BY <2>2 DEF CreateRow, Danger
      <3> QED BY <3>1, <3>2 DEF Fence!Next, Fence!Acquire
    <2>3. ASSUME NEW r \in Request, JobEnds(r) PROVE AbsNext
      <3>1. UNCHANGED Owner
        BY <2>3 DEF JobEnds, Owner
      <3>2. Danger' = Danger \ {r}
        BY <2>3 DEF JobEnds, Danger, FenceInv, TypeOK
      <3> QED BY <3>1, <3>2 DEF Fence!Next, Fence!Land
    <2>4. CASE MasterStops
      <3>1. /\ UNCHANGED <<Danger, busy, row>>
            /\ \A q \in Request : pc'[q] \notin Holding
        BY <2>4 DEF MasterStops, Danger
      <3>2. Owner' = Unheld'
        BY <3>1, OwnerUnheldNext
      <3>3. CASE \A q \in Request : pc[q] \notin Holding
        BY <3>1, <3>2, <3>3, OwnerUnheld DEF Unheld
      <3>4. ASSUME NEW q \in Request, pc[q] \in Holding PROVE AbsNext
        <4>1. Owner = q
          BY <3>4, OwnerIsHolder DEF FenceInv
        <4>2. CASE busy # Free
          BY <3>1, <3>2, <4>1, <4>2 DEF Unheld, Fence!Next, Fence!Strand
        <4>3. CASE busy = Free
          <5>1. row = "deleted"
            BY <3>4, <4>3, FenceAssumption DEF FenceInv, HolderOwnsRow
          <5>2. Danger = {}
            BY <3>4, <5>1, DangerIsHolders
          <5> QED BY <3>1, <3>2, <4>1, <4>3, <5>1, <5>2 DEF Unheld, Fence!Next, Fence!LetGo
        <4> QED BY <4>2, <4>3
      <3> QED BY <3>3, <3>4
    <2>5. CASE OperatorClears
      <3>1. /\ \A q \in Request : pc[q] \notin Holding /\ pc'[q] \notin Holding
            /\ Danger = {} /\ Danger' = {} /\ busy' = Free /\ busy # Free /\ row' = row
        BY <2>5 DEF OperatorClears, Danger, FenceInv, PassInv
      <3>2. row # "deleted"
        BY <3>1 DEF FenceInv, NoRowNoFence
      <3>3. Owner = "stranded" /\ Owner' = "nobody"
        BY <3>1, <3>2, OwnerUnheld, OwnerUnheldNext DEF Unheld
      <3> QED BY <3>1, <3>3 DEF Fence!Next, Fence!Recover
    <2>6. CASE MasterStarts \/ UNCHANGED vars
      BY <2>6 DEF MasterStarts, vars, Owner, Danger
    <2> QED
      BY <2>1, <2>2, <2>3, <2>4, <2>5, <2>6, StepRefines DEF Next
  <1> QED
    BY <1>1, <1>2, FenceInvariant, PTL
    DEF Spec, ImplementsExclusiveFence, Fence!Spec, AbsVars

-----------------------------------------------------------------------------
(* A fence that stays behind is accounted for *)

\* A request that has left its fence because a statement on it failed is past it.
StuckInv == \A r \in stuck : pc[r] \in {"unlock", "done", "lost"}

\* A step leaves a request that has left its fence past it.
LEMMA StuckPreserved == FenceInv /\ StuckInv /\ [Next]_vars => StuckInv'
  <1> SUFFICES ASSUME FenceInv, StuckInv, [Next]_vars, NEW q \in stuck'
               PROVE  pc'[q] \in {"unlock", "done", "lost"}
    BY DEF StuckInv
  <1> USE DEF StuckInv, At, Goto, Fail
  <1>0. Shape /\ stuck \subseteq Request
    BY FenceShape DEF FenceInv, TypeOK
  <1>1. ASSUME NEW r \in Request, ClaimSQL(r) \/ GiveBack(r) \/ Settle(r)
        PROVE  pc'[q] \in {"unlock", "done", "lost"}
    <2>1. q \in stuck \/ (q = r /\ pc'[r] = "unlock")
      BY <1>0, <1>1 DEF Shape, ClaimSQL, GiveBack, Settle, Release, Retained
    <2>2. q \in stuck => q # r /\ pc'[q] = pc[q]
      BY <1>0, <1>1 DEF Shape, ClaimSQL, GiveBack, Settle
    <2> QED
      BY <2>1, <2>2
  <1>2. ASSUME NEW r \in Request, Step(r), ~ClaimSQL(r), ~GiveBack(r), ~Settle(r)
        PROVE  pc'[q] \in {"unlock", "done", "lost"}
    BY <1>0, <1>2
    DEF Shape, Step, Lookup, CheckFence, ResetRecord, LockMemory, InsertRecord, LogStart,
        UnlockMemory, Reject, Send, Reply, CallFails, LogComplete, CompleteRecord
  <1>3. ASSUME NEW r \in Request,
               CreateRow(r) \/ \E f \in Ref \cup {NoRef}, a \in CallerAction \cup {Purge} : Arrive(r, f, a)
        PROVE  pc'[q] \in {"unlock", "done", "lost"}
    BY <1>0, <1>3 DEF Shape, CreateRow, Arrive
  <1>4. CASE MasterStops
    BY <1>0, <1>4 DEF Shape, MasterStops
  <1>5. CASE UNCHANGED <<pc, stuck>>
    BY <1>5
  <1> QED
    BY <1>1, <1>2, <1>3, <1>4, <1>5 DEF Next, vars, JobEnds, MasterStarts, OperatorClears

\* The account of one request for its token.
Accounts(r) ==
    /\ tok[r] = busy
    /\ pc[r] \in Holding \cup {"lost"} \/ retain[r] \/ r \in stuck

\* A fence that was free is taken by a request that accounts for it.
LEMMA TakerAccounts ==
  ASSUME FenceInv, [Next]_vars, busy = Free, busy' # Free
  PROVE  \E r \in Request : Accounts(r)'
  <1>0. Shape
    BY FenceShape
  <1>1. \/ \E r \in Request : CreateRow(r) \/ ClaimSQL(r)
        \/ UNCHANGED busy \/ busy' = Free
    BY DEF Next, vars, Step, Arrive, JobEnds, MasterStops, MasterStarts, OperatorClears, Lookup,
           CheckFence, ResetRecord, LockMemory, InsertRecord, LogStart, GiveBack, Release,
           UnlockMemory, Reject, Send, Reply, CallFails, LogComplete, CompleteRecord, Settle,
           Retained
  <1>2. PICK r \in Request : CreateRow(r) \/ ClaimSQL(r)
    BY <1>1
  <1>3. tok'[r] = busy'
    BY <1>0, <1>2 DEF Shape, CreateRow, ClaimSQL, TakeToken
  <1>4. pc'[r] \in Holding \/ r \in stuck'
    BY <1>0, <1>2 DEF Shape, CreateRow, ClaimSQL, At, Goto, Fail
  <1> QED
    BY <1>3, <1>4 DEF Accounts

\* A request that accounts for a fence goes on doing so until it is free.
LEMMA AccountStays ==
  ASSUME FenceInv, StuckInv, [Next]_vars, busy # Free, busy' = busy,
         NEW r \in Request, Accounts(r)
  PROVE  Accounts(r)'
  <1> USE DEF Accounts, At, Goto, Fail
  <1>0. /\ Shape /\ stuck \subseteq Request
        /\ pc[r] \in Holding \cup {"unlock", "done", "lost", "replayed"}
        /\ pc[r] = "wait" => ~retain[r]
    BY FenceShape DEF Shape, FenceInv, TypeOK, PassInv, StuckInv
  <1>1. CASE UNCHANGED <<tok, pc, retain, stuck>>
    BY <1>1
  <1>2. CASE MasterStops
    BY <1>0, <1>2 DEF Shape, MasterStops
  <1>3. ASSUME NEW q \in Request \ {r}, Step(q) PROVE Accounts(r)'
    <2>1. tok'[r] = tok[r] /\ pc'[r] = pc[r]
      BY <1>0, <1>3
      DEF Shape, Step, Lookup, CheckFence, ResetRecord, LockMemory, ClaimSQL, TakeToken,
          InsertRecord, LogStart, GiveBack, UnlockMemory, Reject, Send, Reply, CallFails,
          LogComplete, CompleteRecord, Settle
    <2>2. retain'[r] = retain[r]
      BY <1>0, <1>3
      DEF Shape, Step, Lookup, CheckFence, ResetRecord, LockMemory, ClaimSQL,
          InsertRecord, LogStart, GiveBack, UnlockMemory, Reject, Send, Reply, CallFails,
          LogComplete, CompleteRecord, Settle
    <2>3. stuck \subseteq stuck'
      BY <1>0, <1>3
      DEF Step, Lookup, CheckFence, ResetRecord, LockMemory, ClaimSQL,
          InsertRecord, LogStart, GiveBack, UnlockMemory, Reject, Send, Reply, CallFails,
          LogComplete, CompleteRecord, Settle, Release, Retained
    <2> QED
      BY <2>1, <2>2, <2>3
  <1>4. CASE GiveBack(r) \/ Settle(r)
    <2>1. tok' = tok /\ retain' = retain
      BY <1>4 DEF GiveBack, Settle
    <2>2. retain[r] \/ r \in stuck'
      BY <1>4 DEF GiveBack, Settle, Release, Retained
    <2> QED
      BY <2>1, <2>2
  <1>5. CASE Step(r) /\ ~GiveBack(r) /\ ~Settle(r)
    <2>1. tok' = tok /\ stuck' = stuck
      BY <1>0, <1>5
      DEF Step, Lookup, CheckFence, ResetRecord, LockMemory, ClaimSQL, InsertRecord, LogStart,
          UnlockMemory, Reject, Send, Reply, CallFails, LogComplete, CompleteRecord
    <2>2. retain[r] => retain'[r]
      BY <1>0, <1>5
      DEF Shape, Step, Lookup, CheckFence, ResetRecord, LockMemory, ClaimSQL, InsertRecord,
          LogStart, UnlockMemory, Reject, Send, Reply, CallFails, LogComplete, CompleteRecord
    <2>3. pc[r] \in Holding \cup {"lost"} => pc'[r] \in Holding \cup {"lost"}
      BY <1>0, <1>5
      DEF Shape, Step, Lookup, CheckFence, ResetRecord, LockMemory, ClaimSQL, InsertRecord,
          LogStart, UnlockMemory, Reject, Send, Reply, CallFails, LogComplete, CompleteRecord
    <2> QED
      BY <2>1, <2>2, <2>3
  <1>6. ASSUME NEW q \in Request,
               CreateRow(q) \/ \E f \in Ref \cup {NoRef}, a \in CallerAction \cup {Purge} : Arrive(q, f, a)
        PROVE  Accounts(r)'
    <2>1. q # r /\ UNCHANGED <<retain, stuck>>
      BY <1>0, <1>6 DEF CreateRow, Arrive
    <2> QED
      BY <1>0, <1>6, <2>1 DEF Shape, CreateRow, Arrive
  <1> QED
    BY <1>1, <1>2, <1>3, <1>4, <1>5, <1>6
    DEF Next, vars, JobEnds, MasterStarts, OperatorClears

\* A fence does not stay behind by accident: its token is that of a request at work,
\* or of one that retained it, was cut off by a stop, or saw its statement fail.
THEOREM Accounted == Spec => []FenceAccounted
  <1>1. Init => FenceAccounted /\ StuckInv
    BY DEF Init, FenceAccounted, StuckInv
  <1>2. FenceInv /\ StuckInv /\ FenceAccounted /\ [Next]_vars => FenceAccounted'
    <2> SUFFICES ASSUME FenceInv, StuckInv, FenceAccounted, [Next]_vars, busy' # Free
                 PROVE  \E r \in Request : Accounts(r)'
      BY DEF FenceAccounted, Accounts
    <2>1. CASE busy = Free
      BY <2>1, TakerAccounts
    <2>2. CASE busy # Free
      <3>1. busy' = busy
        BY <2>2, NextSurrenders DEF Surrender, vars
      <3>2. PICK r \in Request : Accounts(r)
        BY <2>2 DEF FenceAccounted, Accounts
      <3> QED
        BY <2>2, <3>1, <3>2, AccountStays
    <2> QED
      BY <2>1, <2>2
  <1> QED BY <1>1, <1>2, StuckPreserved, FenceInvariant, PTL DEF Spec
-----------------------------------------------------------------------------
(* The promise of the records *)

HasRecord(f, a) == \E i \in DOMAIN recs[f] : recs[f][i].action = a
FirstIs(f, a) == recs[f] # <<>> /\ recs[f][1].action = a

\* What each point of a pass knows of the records of its id.
OwnRecord(r) ==
    /\ pc[r] = "idle" => ~HasRef(r)
    /\ pc[r] \in {"idle", "lookup"} => tok[r] = Free
    /\ pc[r] = "giveback" => err[r]
    /\ pc[r] \in Before /\ tok[r] # Free => HasRef(r) /\ FirstIs(arg[r].ref, arg[r].action)
    /\ pc[r] \in {"start", "run", "wait", "log", "complete"} /\ HasRef(r)
          => HasRecord(arg[r].ref, arg[r].action)

\* An id and action are closed: the record is there, a lookup does not find it
\* running, and no request is on its way to the agent with them.
Closed(f, a) ==
    /\ HasRecord(f, a)
    /\ recs[f][1].action = a => recs[f][1].state # "running"
    /\ \A r \in Request :
          arg[r].ref = f /\ arg[r].action = a =>
              /\ pc[r] \notin {"start", "run"}
              /\ tok[r] # Free => pc[r] \notin Before

\* The caller has been told of success, or is about to be.
Final(q) ==
    /\ HasRef(q) /\ arg[q].ref \notin overtaken
    /\ pc[q] = "replayed" \/ (pc[q] \in {"settle", "unlock", "done"} /\ ~err[q])

OwnInv == \A r \in Request : OwnRecord(r)

\* What a lookup answers from the record, and what a request has been told, is closed.
FirstInv ==
    \A f \in Ref \ overtaken :
        recs[f] # <<>> /\ recs[f][1].state = "succeeded" => Closed(f, recs[f][1].action)
ToldInv == \A q \in Request : Final(q) => Closed(arg[q].ref, arg[q].action)

\* The records of an id keep their places and actions.
Kept(f) ==
    \A i \in DOMAIN recs[f] : i \in DOMAIN recs'[f] /\ recs'[f][i].action = recs[f][i].action

\* What each statement on the records of an id does to them.
LEMMA ResetWrites ==
  ASSUME FenceInv, NEW r \in Request, ResetRecord(r), NEW f \in Ref
  PROVE  Kept(f) /\ (recs'[f] = recs[f] \/ (arg[r].ref = f /\ tok[r] # Free /\ pc[r] \in Before))
  <1>0. /\ arg[r].ref \in Ref /\ tok[r] \in Token /\ recs[arg[r].ref] # <<>>
        /\ recs \in [Ref -> Seq(OpRecord)]
    BY DEF ResetRecord, At, FenceInv, PassInv, TypeOK
  <1>1. CASE UNCHANGED recs
    BY <1>0, <1>1 DEF Kept
  <1>2. CASE recs' = [recs EXCEPT ![arg[r].ref][1].state = "running"]
    <2> DEFINE g == arg[r].ref
               new == [recs[g][1] EXCEPT !.state = "running"]
               s == [recs[g] EXCEPT ![1] = new]
    <2>1. 1 \in 1 .. Len(recs[g]) /\ recs[g][1] \in OpRecord
      BY <1>0
    <2>2. new \in OpRecord /\ new.action = recs[g][1].action
      BY <2>1, RestateRecord DEF OpRecord
    <2>3. DOMAIN s = DOMAIN recs[g] /\ \A i \in DOMAIN s : s[i].action = recs[g][i].action
      BY <1>0, <2>1, <2>2
    <2>4. recs' = [recs EXCEPT ![g] = s]
      BY <1>2
    <2> HIDE DEF s, new
    <2> QED
      BY <1>0, <2>3, <2>4, FenceAssumption DEF Kept, ResetRecord, At
  <1> QED
    BY <1>1, <1>2 DEF ResetRecord

\* An insertion puts a running record of the request's own action behind the others.
LEMMA InsertWrites ==
  ASSUME FenceInv, NEW r \in Request, InsertRecord(r), NEW f \in Ref
  PROVE  /\ Kept(f)
         /\ \/ recs'[f] = recs[f]
            \/ /\ arg[r].ref = f /\ ~HasRecord(f, arg[r].action) /\ HasRecord(f, arg[r].action)'
               /\ recs[f] = <<>> => recs'[f][1].state = "running"
               /\ recs[f] # <<>> => recs'[f][1] = recs[f][1]
         /\ arg[r].ref = f /\ pc'[r] = "start" =>
                ~HasRecord(f, arg[r].action) /\ HasRecord(f, arg[r].action)'
  <1>0. recs \in [Ref -> Seq(OpRecord)] /\ UNCHANGED arg
    BY DEF InsertRecord, FenceInv, TypeOK
  <1>1. CASE UNCHANGED recs /\ pc' = [pc EXCEPT ![r] = "giveback"]
    BY <1>0, <1>1 DEF Kept, FenceInv, TypeOK
  <1>2. CASE arg[r].ref # f
    BY <1>0, <1>2 DEF Kept, InsertRecord
  <1>3. CASE arg[r].ref = f /\ ~Registered(r) /\ recs' = [recs EXCEPT ![f] = Append(recs[f], NewRecord(r))]
    <2> DEFINE rec == NewRecord(r)
               s == recs[f]
    <2>1. rec.action = arg[r].action /\ rec.state = "running"
      BY DEF NewRecord
    <2> HIDE DEF rec
    <2>2. s \in Seq(OpRecord) /\ recs'[f] = Append(s, rec)
      BY <1>0, <1>3 DEF rec
    <2> HIDE DEF s
    <2>3. /\ DOMAIN s \subseteq DOMAIN Append(s, rec)
          /\ \A i \in DOMAIN s : Append(s, rec)[i] = s[i]
          /\ Len(s) + 1 \in DOMAIN Append(s, rec) /\ Append(s, rec)[Len(s) + 1] = rec
          /\ s = <<>> => Append(s, rec)[1] = rec
          /\ s # <<>> => 1 \in DOMAIN s
      BY <2>2
    <2>4. Kept(f)
      BY <2>2, <2>3 DEF Kept, s
    <2>5. HasRecord(f, arg[r].action)'
      BY <1>0, <2>1, <2>2, <2>3 DEF HasRecord
    <2>6. ~HasRecord(f, arg[r].action)
      BY <1>3 DEF HasRecord, Registered, Records
    <2> QED
      BY <1>3, <2>1, <2>2, <2>3, <2>4, <2>5, <2>6 DEF s
  <1> QED
    BY <1>1, <1>2, <1>3 DEF InsertRecord, Fail, Goto

\* The outcome is written to every record of the id.
LEMMA CompleteWrites ==
  ASSUME FenceInv, NEW r \in Request, CompleteRecord(r), NEW f \in Ref
  PROVE  /\ Kept(f)
         /\ \/ recs'[f] = recs[f]
            \/ /\ arg[r].ref = f /\ HasRef(r) /\ RecordOutcome(r)
               /\ recs[f] = <<>> => recs'[f] = <<>>
               /\ recs[f] # <<>> =>
                      recs'[f][1].state = IF err[r] THEN "failed" ELSE "succeeded"
  <1>0. recs \in [Ref -> Seq(OpRecord)]
    BY DEF FenceInv, TypeOK
  <1>1. CASE UNCHANGED recs
    BY <1>0, <1>1 DEF Kept
  <1>2. CASE arg[r].ref # f
    BY <1>0, <1>2 DEF Kept, CompleteRecord, RecordOutcome, Completed
  <1>3. CASE arg[r].ref = f /\ HasRef(r) /\ RecordOutcome(r)
    <2> DEFINE st == IF err[r] THEN "failed" ELSE "succeeded"
               s == [i \in DOMAIN recs[f] |-> [recs[f][i] EXCEPT !.state = st]]
    <2>1. recs' = [recs EXCEPT ![f] = s]
      BY <1>3 DEF RecordOutcome, Completed
    <2>2. DOMAIN s = DOMAIN recs[f] /\ \A i \in DOMAIN recs[f] : recs[f][i] \in OpRecord
      BY <1>0
    <2>3. \A i \in DOMAIN recs[f] : s[i].action = recs[f][i].action /\ s[i].state = st
      BY <2>2 DEF OpRecord
    <2>4. recs[f] # <<>> => 1 \in DOMAIN recs[f]
      BY <1>0
    <2>5. recs[f] = <<>> => s = <<>>
      BY <2>2
    <2> HIDE DEF s
    <2>6. recs'[f] = s
      BY <1>0, <2>1
    <2> QED
      BY <1>3, <2>2, <2>3, <2>4, <2>5, <2>6 DEF Kept
  <1> QED
    BY <1>1, <1>2, <1>3 DEF CompleteRecord

\* What a step of the system may do to the records of an id.
RecordsStep(f) ==
    \/ recs'[f] = recs[f]
    \/ \E r \in Request :
          /\ arg[r].ref = f
          /\ \/ ResetRecord(r) /\ tok[r] # Free
             \/ /\ InsertRecord(r) /\ ~HasRecord(f, arg[r].action) /\ HasRecord(f, arg[r].action)'
                /\ recs[f] = <<>> => recs'[f][1].state = "running"
                /\ recs[f] # <<>> => recs'[f][1] = recs[f][1]
             \/ /\ CompleteRecord(r) /\ HasRef(r) /\ RecordOutcome(r)
                /\ recs[f] = <<>> => recs'[f] = <<>>
                /\ recs[f] # <<>> =>
                       recs'[f][1].state = IF err[r] THEN "failed" ELSE "succeeded"

\* Only resetting, inserting and completing write records, and none forgets one.
LEMMA RecordsWritten ==
  ASSUME FenceInv, [Next]_vars, NEW f \in Ref
  PROVE  Kept(f) /\ RecordsStep(f)
  <1>1. CASE UNCHANGED recs
    BY <1>1 DEF Kept, RecordsStep
  <1>2. ASSUME NEW r \in Request, ResetRecord(r) PROVE Kept(f) /\ RecordsStep(f)
    BY <1>2, ResetWrites DEF RecordsStep
  <1>3. ASSUME NEW r \in Request, InsertRecord(r) PROVE Kept(f) /\ RecordsStep(f)
    BY <1>3, InsertWrites DEF RecordsStep
  <1>4. ASSUME NEW r \in Request, CompleteRecord(r) PROVE Kept(f) /\ RecordsStep(f)
    BY <1>4, CompleteWrites DEF RecordsStep
  <1> QED
    BY <1>1, <1>2, <1>3, <1>4
    DEF Next, vars, Arrive, CreateRow, JobEnds, MasterStops, MasterStarts, OperatorClears, Step,
        Lookup, CheckFence, LockMemory, ClaimSQL, LogStart, GiveBack, UnlockMemory, Reject, Send,
        Reply, CallFails, LogComplete, Settle

\* The ways into the points of a pass that the records are about.
Moves(r) ==
    /\ pc'[r] # "idle" \/ UNCHANGED <<pc[r], arg[r], tok[r]>>
    /\ arg'[r] = arg[r] \/ (pc[r] = "idle" /\ pc'[r] \in {"lookup", "lock"} /\ tok'[r] = tok[r])
    /\ pc'[r] = "lookup" => pc[r] \in {"idle", "lookup"} /\ tok'[r] = tok[r]
    /\ pc'[r] = "giveback" => err'[r] \/ (pc[r] = "giveback" /\ err'[r] = err[r])
    /\ pc'[r] \in Before /\ tok'[r] # Free =>
          \/ pc[r] \in Before /\ tok[r] # Free
          \/ Lookup(r) /\ FirstIs(arg[r].ref, arg[r].action) /\ recs[arg[r].ref][1].state = "running"
          \/ pc[r] = "idle" /\ tok[r] # Free
    /\ pc'[r] \in {"start", "run", "wait", "log", "complete"} =>
          \/ pc[r] \in {"start", "run", "wait", "log", "complete"}
             /\ (pc'[r] \in {"start", "run"} => pc[r] \in {"start", "run"})
          \/ pc[r] = "idle" /\ arg'[r] = arg[r]
          \/ pc[r] = "claim" /\ (tok[r] # Free \/ ~HasRef(r))
          \/ InsertRecord(r) /\ ~Registered(r) /\ pc'[r] = "start"

\* Every step moves a request in one of these ways.
LEMMA StepMoves ==
  ASSUME FenceInv, NEW r \in Request, Step(r)
  PROVE  Moves(r)
  <1> USE DEF At, Goto, Fail, Moves
  <1>0. Shape /\ err \in [Request -> BOOLEAN] /\ recs \in [Ref -> Seq(OpRecord)]
    BY FenceShape DEF FenceInv, TypeOK
  <1>1. CASE Lookup(r)
    <2>1. arg[r].ref \in Ref
      BY <1>1 DEF Lookup, FenceInv, PassInv
    <2>2. recs[arg[r].ref] # <<>> => Head(recs[arg[r].ref]) = recs[arg[r].ref][1]
      BY <1>0, <2>1
    <2> QED
      BY <1>0, <1>1, <2>1, <2>2 DEF Shape, Lookup, Found, Records, FirstIs
  <1>2. CASE InsertRecord(r)
    BY <1>0, <1>2 DEF Shape, InsertRecord
  <1>3. CASE ClaimSQL(r)
    BY <1>0, <1>3 DEF Shape, ClaimSQL, HasRef
  <1>4. CASE CheckFence(r) \/ ResetRecord(r) \/ LockMemory(r)
    BY <1>0, <1>4 DEF Shape, CheckFence, ResetRecord, LockMemory
  <1>5. CASE LogStart(r) \/ GiveBack(r) \/ UnlockMemory(r) \/ Reject(r) \/ Send(r)
    BY <1>0, <1>5 DEF Shape, LogStart, GiveBack, UnlockMemory, Reject, Send
  <1>6. CASE Reply(r) \/ CallFails(r) \/ LogComplete(r) \/ CompleteRecord(r) \/ Settle(r)
    BY <1>0, <1>6 DEF Shape, Reply, CallFails, LogComplete, CompleteRecord, Settle
  <1> QED
    BY <1>1, <1>2, <1>3, <1>4, <1>5, <1>6 DEF Step

\* A step of one request leaves the others where they are.
LEMMA OthersStay ==
  ASSUME FenceInv, NEW r \in Request, Step(r), NEW q \in Request \ {r}
  PROVE  UNCHANGED <<pc[q], arg[q], tok[q], err[q]>>
  <1> USE DEF Shape, At, Goto, Fail
  <1>1. UNCHANGED arg
    BY DEF Step, Lookup, CheckFence, ResetRecord, LockMemory, ClaimSQL, InsertRecord, LogStart,
           GiveBack, UnlockMemory, Reject, Send, Reply, CallFails, LogComplete, CompleteRecord,
           Settle
  <1>2. \E p \in PC : pc' = [pc EXCEPT ![r] = p]
    BY DEF Step, Lookup, CheckFence, ResetRecord, LockMemory, ClaimSQL, InsertRecord, LogStart,
           GiveBack, UnlockMemory, Reject, Send, Reply, CallFails, LogComplete, CompleteRecord,
           Settle
  <1>3. tok' = tok \/ \E t : tok' = [tok EXCEPT ![r] = t]
    BY DEF Step, Lookup, CheckFence, ResetRecord, LockMemory, ClaimSQL, TakeToken, InsertRecord,
           LogStart, GiveBack, UnlockMemory, Reject, Send, Reply, CallFails, LogComplete,
           CompleteRecord, Settle
  <1>4. err' = err \/ err' = [err EXCEPT ![r] = TRUE]
    BY DEF Step, Lookup, CheckFence, ResetRecord, LockMemory, ClaimSQL, InsertRecord, LogStart,
           GiveBack, Release, UnlockMemory, Reject, Send, Reply, CallFails, LogComplete,
           CompleteRecord, Settle, Retained
  <1>5. Shape /\ err \in [Request -> BOOLEAN]
    BY FenceShape DEF FenceInv, TypeOK
  <1> QED
    BY <1>1, <1>2, <1>3, <1>4, <1>5

\* In a step of the system every request moves in one of these ways, is cut off, or stays.
LEMMA NextMoves ==
  ASSUME FenceInv, [Next]_vars, NEW q \in Request
  PROVE  \/ Moves(q)
         \/ pc'[q] = "lost" /\ arg'[q] = arg[q]
  <1>0. Shape
    BY FenceShape
  <1>1. ASSUME NEW r \in Request, Step(r) PROVE Moves(q)
    <2>1. CASE q = r
      BY <1>1, <2>1, StepMoves
    <2>2. CASE q # r
      BY <1>1, <2>2, OthersStay DEF Moves
    <2> QED
      BY <2>1, <2>2
  <1>2. CASE MasterStops
    <2>1. pc'[q] = "lost" \/ pc'[q] = pc[q]
      BY <1>0, <1>2 DEF Shape, MasterStops
    <2>2. UNCHANGED <<arg, tok, err>>
      BY <1>2 DEF MasterStops
    <2> QED
      BY <2>1, <2>2 DEF Moves
  <1>3. ASSUME NEW r \in Request, CreateRow(r) PROVE Moves(q)
    BY <1>0, <1>3 DEF Shape, CreateRow, Moves, At, Goto
  <1>4. ASSUME NEW r \in Request, NEW f \in Ref \cup {NoRef},
               NEW a \in CallerAction \cup {Purge}, Arrive(r, f, a)
        PROVE  Moves(q)
    BY <1>0, <1>4 DEF Shape, Arrive, Moves, At, Goto
  <1>5. CASE UNCHANGED <<pc, arg, tok, err>>
    BY <1>5 DEF Moves
  <1> QED
    BY <1>1, <1>2, <1>3, <1>4, <1>5 DEF Next, vars, JobEnds, MasterStarts, OperatorClears

\* What requests know of their records stays true.
LEMMA NextOwn == FenceInv /\ OwnInv /\ [Next]_vars => OwnInv'
  <1> SUFFICES ASSUME FenceInv, OwnInv, [Next]_vars, NEW q \in Request
               PROVE  OwnRecord(q)'
    BY DEF OwnInv
  <1>0. Shape /\ OwnRecord(q) /\ recs \in [Ref -> Seq(OpRecord)]
    BY FenceShape DEF OwnInv, FenceInv, TypeOK
  <1>1. CASE pc'[q] = "lost"
    BY <1>1 DEF OwnRecord
  <1>2. CASE Moves(q) /\ arg'[q] # arg[q]
    BY <1>0, <1>2 DEF Moves, OwnRecord
  <1>3. CASE Moves(q) /\ arg'[q] = arg[q] /\ ~HasRef(q)
    <2>1. ~HasRef(q)'
      BY <1>3 DEF HasRef
    <2>2. ~Lookup(q)
      BY <1>3, FenceAssumption DEF Lookup, At, FenceInv, PassInv, HasRef
    <2> QED
      BY <1>0, <1>3, <2>1, <2>2 DEF Moves, OwnRecord
  <1>4. CASE Moves(q) /\ arg'[q] = arg[q] /\ HasRef(q)
    <2> DEFINE f == arg[q].ref
               a == arg[q].action
    <2>1. f \in Ref /\ HasRef(q)' /\ arg'[q].ref = f /\ arg'[q].action = a
      BY <1>0, <1>4 DEF Shape, HasRef
    <2>2. Kept(f)
      BY <2>1, RecordsWritten
    <2>3. FirstIs(f, a) => FirstIs(f, a)' /\ HasRecord(f, a)
      BY <1>0, <2>1, <2>2 DEF Kept, FirstIs, HasRecord
    <2>4. HasRecord(f, a) => HasRecord(f, a)'
      BY <2>1, <2>2 DEF Kept, HasRecord
    <2>5. InsertRecord(q) /\ pc'[q] = "start" => HasRecord(f, a)'
      BY <2>1, InsertWrites
    <2>6. pc'[q] \in Before /\ tok'[q] # Free => FirstIs(f, a)'
      BY <1>0, <1>4, <2>3 DEF Moves, OwnRecord
    <2>7. pc'[q] \in {"start", "run", "wait", "log", "complete"} => HasRecord(f, a)'
      BY <1>0, <1>4, <2>3, <2>4, <2>5 DEF Moves, OwnRecord
    <2>8. /\ pc'[q] # "idle"
          /\ pc'[q] = "lookup" => tok'[q] = Free
          /\ pc'[q] = "giveback" => err'[q]
      BY <1>0, <1>4 DEF Moves, OwnRecord
    <2> HIDE DEF f, a
    <2> QED
      BY <2>1, <2>6, <2>7, <2>8 DEF OwnRecord, f, a
  <1> QED
    BY <1>1, <1>2, <1>3, <1>4, NextMoves

\* What is closed stays closed, whatever fails, restarts or is tried again.
LEMMA ClosedStays ==
  ASSUME FenceInv, OwnInv, [Next]_vars, NEW f \in Ref, NEW a, Closed(f, a)
  PROVE  Closed(f, a)'
  <1>0. /\ Shape /\ recs \in [Ref -> Seq(OpRecord)] /\ recs[f] # <<>>
        /\ 1 \in DOMAIN recs[f]
    BY FenceShape DEF FenceInv, TypeOK, Closed, HasRecord
  <1>1. Kept(f) /\ RecordsStep(f)
    BY RecordsWritten
  <1>2. HasRecord(f, a)'
    BY <1>1 DEF Closed, HasRecord, Kept
  <1>3. recs'[f][1].action = a => recs'[f][1].state # "running"
    <2> SUFFICES ASSUME recs'[f][1].action = a PROVE recs'[f][1].state # "running"
      OBVIOUS
    <2>1. FirstIs(f, a) /\ recs[f][1].state # "running"
      BY <1>0, <1>1 DEF Kept, FirstIs, Closed
    <2>2. ASSUME NEW r \in Request, arg[r].ref = f, ResetRecord(r), tok[r] # Free
          PROVE  FALSE
      <3>1. pc[r] \in Before /\ arg[r].action = a
        BY <2>1, <2>2 DEF ResetRecord, At, OwnInv, OwnRecord, FirstIs
      <3> QED
        BY <2>2, <3>1 DEF Closed
    <2> QED
      BY <1>0, <1>1, <2>1, <2>2 DEF RecordsStep
  <1>4. ASSUME NEW q \in Request, arg'[q].ref = f, arg'[q].action = a
        PROVE  /\ pc'[q] \notin {"start", "run"}
               /\ tok'[q] # Free => pc'[q] \notin Before
    <2>1. CASE pc'[q] = "lost"
      BY <2>1
    <2>2. CASE Moves(q) /\ arg'[q] # arg[q]
      BY <2>2 DEF Moves, OwnInv, OwnRecord
    <2>3. CASE Moves(q) /\ arg'[q] = arg[q]
      <3>1. /\ HasRef(q) /\ pc[q] \notin {"start", "run", "idle"}
            /\ tok[q] # Free => pc[q] \notin Before
        BY <1>4, <2>3, FenceAssumption DEF Closed, OwnInv, OwnRecord, HasRef
      <3>2. ~(InsertRecord(q) /\ pc'[q] = "start")
        BY <1>4, <2>3, InsertWrites DEF Closed
      <3>3. ~(FirstIs(f, a) /\ recs[f][1].state = "running")
        BY DEF Closed, FirstIs
      <3> QED
        BY <1>4, <2>3, <3>1, <3>2, <3>3 DEF Moves
    <2> QED
      BY <2>1, <2>2, <2>3, NextMoves
  <1> QED
    BY <1>2, <1>3, <1>4 DEF Closed

\* A recorded success closes every action the id has a record of, unless a retry had
\* already taken the record for one of interrupted work.
LEMMA SuccessCloses ==
  ASSUME FenceInv, OwnInv, [Next]_vars, NEW r \in Request, CompleteRecord(r), HasRef(r),
         ~err[r], RecordOutcome(r), arg[r].ref \notin overtaken', NEW a,
         HasRecord(arg[r].ref, a)
  PROVE  Closed(arg[r].ref, a)'
  <1> DEFINE f == arg[r].ref
  <1>0. /\ Shape /\ recs \in [Ref -> Seq(OpRecord)] /\ f \in Ref /\ recs[f] # <<>>
        /\ pc[r] = "complete" /\ pc' = [pc EXCEPT ![r] = "settle"] /\ UNCHANGED <<arg, tok>>
    BY FenceShape DEF Shape, FenceInv, TypeOK, HasRef, HasRecord, CompleteRecord, At, Goto, Fail
  <1>1. HasRecord(f, a)'
    BY <1>0, RecordsWritten DEF HasRecord, Kept
  <1>2. recs'[f][1].state = "succeeded"
    <2>1. 1 \in DOMAIN recs[f]
      BY <1>0
    <2>2. recs'[f] = [i \in DOMAIN recs[f] |-> [recs[f][i] EXCEPT !.state = "succeeded"]]
      BY <1>0 DEF RecordOutcome, Completed
    <2>3. recs[f][1] \in OpRecord
      BY <1>0, <2>1
    <2> QED
      BY <2>1, <2>2, <2>3 DEF OpRecord
  <1>3. ASSUME NEW q \in Request, arg'[q].ref = f
        PROVE  /\ pc'[q] \notin {"start", "run"}
               /\ tok'[q] # Free => pc'[q] \notin Before
    <2>1. CASE q = r
      BY <1>0, <2>1 DEF Shape
    <2>2. CASE q # r
      <3>1. pc'[q] = pc[q] /\ tok'[q] = tok[q] /\ arg[q].ref = f
        BY <1>0, <1>3, <2>2 DEF Shape
      <3>2. pc[q] \notin Holding
        BY <1>0, <2>2 DEF FenceInv, FenceExclusive
      <3>3. ~Overtaking(r, q)
        BY DEF RecordOutcome
      <3> QED
        BY <2>2, <3>1, <3>2, <3>3 DEF Overtaking
    <2> QED
      BY <2>1, <2>2
  <1> QED
    BY <1>0, <1>1, <1>2, <1>3 DEF Closed

\* The ids that were overtaken stay so.
LEMMA OvertakenGrows == [Next]_vars => overtaken \subseteq overtaken'
  BY DEF Next, vars, Arrive, CreateRow, JobEnds, MasterStops, MasterStarts, OperatorClears, Step,
         Lookup, CheckFence, ResetRecord, LockMemory, ClaimSQL, InsertRecord, LogStart, GiveBack,
         UnlockMemory, Reject, Send, Reply, CallFails, LogComplete, CompleteRecord,
         RecordOutcome, Settle

\* A request is told of success by a lookup or by its own completed record.
LEMMA FinalEntered ==
  ASSUME FenceInv, OwnInv, [Next]_vars, NEW q \in Request, Final(q)'
  PROVE  /\ UNCHANGED arg[q]
         /\ \/ HasRef(q) /\ (pc[q] = "replayed" \/ (pc[q] \in {"settle", "unlock", "done"} /\ ~err[q]))
            \/ Lookup(q) /\ pc'[q] = "replayed"
            \/ CompleteRecord(q) /\ RecordOutcome(q) /\ ~err[q]
  <1> USE DEF Final, HasRef, At, Goto, Fail
  <1>0. Shape /\ OwnRecord(q) /\ err \in [Request -> BOOLEAN]
    BY FenceShape DEF OwnInv, FenceInv, TypeOK
  <1>1. ASSUME NEW r \in Request, Step(r), r # q
        PROVE  UNCHANGED <<pc[q], arg[q], err[q]>>
    BY <1>1, OthersStay
  <1>2. CASE Step(q)
    <2>0. UNCHANGED arg
      BY <1>2 DEF Step, Lookup, CheckFence, ResetRecord, LockMemory, ClaimSQL, InsertRecord,
                  LogStart, GiveBack, UnlockMemory, Reject, Send, Reply, CallFails, LogComplete,
                  CompleteRecord, Settle
    <2>1. CASE Lookup(q)
      BY <1>0, <2>1 DEF Shape, Lookup
    <2>2. CASE CompleteRecord(q)
      BY <1>0, <2>0, <2>2 DEF Shape, CompleteRecord
    <2>3. CASE GiveBack(q)
      BY <1>0, <2>3 DEF Shape, GiveBack, Release, OwnRecord
    <2>4. CASE Settle(q)
      BY <1>0, <2>0, <2>4 DEF Shape, Settle, Release, Retained
    <2>5. CASE UnlockMemory(q)
      BY <1>0, <2>0, <2>5 DEF Shape, UnlockMemory
    <2>6. CASE CheckFence(q) \/ ResetRecord(q) \/ LockMemory(q) \/ ClaimSQL(q)
      BY <1>0, <2>6 DEF Shape, CheckFence, ResetRecord, LockMemory, ClaimSQL
    <2>7. CASE InsertRecord(q) \/ LogStart(q) \/ Reject(q) \/ Send(q) \/ Reply(q)
               \/ CallFails(q) \/ LogComplete(q)
      BY <1>0, <2>7 DEF Shape, InsertRecord, LogStart, Reject, Send, Reply, CallFails, LogComplete
    <2> QED
      BY <1>2, <2>1, <2>2, <2>3, <2>4, <2>5, <2>6, <2>7 DEF Step
  <1>3. CASE MasterStops
    BY <1>0, <1>3 DEF Shape, MasterStops
  <1>4. ASSUME NEW r \in Request,
               CreateRow(r) \/ \E g \in Ref \cup {NoRef}, b \in CallerAction \cup {Purge} : Arrive(r, g, b)
        PROVE  UNCHANGED <<pc[q], arg[q], err[q]>>
    BY <1>0, <1>4 DEF Shape, CreateRow, Arrive
  <1>5. CASE UNCHANGED <<pc, arg, err>>
    BY <1>5
  <1> QED
    BY <1>1, <1>2, <1>3, <1>4, <1>5 DEF Next, vars, JobEnds, MasterStarts, OperatorClears

\* What a lookup may answer, and what has been told, stays closed.
RecordsInv == OwnInv /\ FirstInv /\ ToldInv

\* Before anything has begun there is nothing to promise.
LEMMA InitRecords == Init => RecordsInv
  <1> SUFFICES ASSUME Init PROVE RecordsInv
    OBVIOUS
  <1>1. OwnInv
    BY DEF Init, OwnInv, OwnRecord, HasRef
  <1>2. FirstInv
    BY DEF Init, FirstInv
  <1>3. ToldInv
    BY DEF Init, ToldInv, Final
  <1> QED
    BY <1>1, <1>2, <1>3 DEF RecordsInv

\* A first record that says succeeded is of a closed action.
LEMMA NextFirst == FenceInv /\ RecordsInv /\ [Next]_vars => FirstInv'
  <1> SUFFICES ASSUME FenceInv, RecordsInv, [Next]_vars, NEW f \in Ref, f \notin overtaken',
                      recs'[f] # <<>>, recs'[f][1].state = "succeeded",
                      NEW a, a = recs'[f][1].action
               PROVE  Closed(f, a)'
    <2>1. ASSUME FenceInv, RecordsInv, [Next]_vars, NEW f \in Ref, f \notin overtaken',
                 recs'[f] # <<>>, recs'[f][1].state = "succeeded"
          PROVE  Closed(f, recs[f][1].action)'
      <3>1. \E a : a = recs'[f][1].action
        OBVIOUS
      <3>2. PICK a : a = recs'[f][1].action
        BY <3>1
      <3>3. Closed(f, a)'
        BY <2>1, <3>2
      <3> QED
        BY <3>2, <3>3 DEF Closed, HasRecord
    <2> QED
      BY <2>1 DEF FirstInv
  <1>0. /\ FenceInv /\ OwnInv /\ f \notin overtaken
        /\ recs \in [Ref -> Seq(OpRecord)]
    BY OvertakenGrows DEF RecordsInv, FenceInv, TypeOK
  <1>1. Kept(f) /\ RecordsStep(f)
    BY RecordsWritten
  <1>2. recs[f] # <<>> => 1 \in DOMAIN recs[f] /\ a = recs[f][1].action
    BY <1>0, <1>1 DEF Kept
  <1>3. CASE recs[f] # <<>> /\ recs[f][1].state = "succeeded"
    <2>1. Closed(f, a)
      BY <1>0, <1>2, <1>3 DEF RecordsInv, FirstInv
    <2> QED
      BY <1>0, <2>1, ClosedStays
  <1>4. ASSUME NEW r \in Request, arg[r].ref = f, CompleteRecord(r), HasRef(r),
               RecordOutcome(r), recs[f] # <<>>, ~err[r]
        PROVE  Closed(f, a)'
    <2>1. HasRecord(arg[r].ref, a)
      BY <1>2, <1>4 DEF HasRecord
    <2>2. Closed(arg[r].ref, a)'
      BY <1>0, <1>4, <2>1, SuccessCloses
    <2>3. UNCHANGED arg
      BY <1>4 DEF CompleteRecord
    <2> QED
      BY <1>4, <2>2, <2>3 DEF Closed, HasRecord
  <1>5. ASSUME NEW r \in Request, ResetRecord(r), arg[r].ref = f
        PROVE  recs'[f] = recs[f] \/ recs'[f][1].state = "running"
    <2>1. recs[f] \in Seq(OpRecord) /\ recs[f] # <<>>
      BY <1>0, <1>5 DEF ResetRecord, At, FenceInv, PassInv
    <2>2. 1 \in DOMAIN recs[f] /\ recs[f][1] \in OpRecord
      BY <2>1
    <2> QED
      BY <1>0, <1>5, <2>2 DEF ResetRecord, OpRecord
  <1>6. CASE recs'[f] = recs[f]
    BY <1>3, <1>6
  <1> QED
    BY <1>1, <1>3, <1>4, <1>5, <1>6 DEF RecordsStep

\* The same of a request's own id and action, which do not change.
LEMMA ClosedNext ==
  ASSUME FenceInv, OwnInv, [Next]_vars, NEW q \in Request, UNCHANGED arg[q],
         arg[q].ref \in Ref, Closed(arg[q].ref, arg[q].action)
  PROVE  Closed(arg[q].ref, arg[q].action)'
  <1> DEFINE f == arg[q].ref
             a == arg[q].action
  <1>1. f \in Ref /\ Closed(f, a) /\ arg'[q].ref = f /\ arg'[q].action = a
    OBVIOUS
  <1>2. ASSUME NEW g \in Ref, NEW b, g = f, b = a PROVE Closed(g, b)'
    BY <1>1, <1>2, ClosedStays
  <1>3. ASSUME NEW g \in Ref, NEW b, g = f, b = a PROVE Closed(f, a)'
    BY <1>1, <1>2, <1>3 DEF Closed, HasRecord
  <1> QED
    BY <1>1, <1>3

\* A request that is told of success is told of a closed action.
LEMMA NextTold == FenceInv /\ RecordsInv /\ [Next]_vars => ToldInv'
  <1> SUFFICES ASSUME FenceInv, RecordsInv, [Next]_vars, NEW q \in Request, Final(q)'
               PROVE  Closed(arg[q].ref, arg[q].action)'
    BY DEF ToldInv
  <1> DEFINE f == arg[q].ref
             a == arg[q].action
  <1>0. OwnInv /\ FirstInv /\ ToldInv /\ Shape
    BY FenceShape DEF RecordsInv
  <1>1. /\ UNCHANGED arg[q] /\ f \in Ref /\ HasRef(q) /\ f \notin overtaken /\ f \notin overtaken'
        /\ \/ Final(q)
           \/ Lookup(q) /\ pc'[q] = "replayed"
           \/ CompleteRecord(q) /\ RecordOutcome(q) /\ ~err[q]
    BY <1>0, FinalEntered, OvertakenGrows DEF Final, Shape, HasRef
  <1>2. CASE Final(q)
    <2>1. Closed(f, a)
      BY <1>0, <1>2 DEF ToldInv
    <2> QED
      BY <1>0, <1>1, <2>1, ClosedNext
  <1>3. CASE Lookup(q) /\ pc'[q] = "replayed"
    <2>1. recs[f] \in Seq(OpRecord)
      BY <1>1 DEF FenceInv, TypeOK
    <2>2. recs[f] # <<>> /\ Head(recs[f]).action = a /\ Head(recs[f]).state = "succeeded"
      BY <1>0, <1>3 DEF Lookup, Found, Records, Goto, Fail, Shape
    <2>3. Closed(f, a)
      BY <1>0, <1>1, <2>1, <2>2 DEF FirstInv
    <2> QED
      BY <1>0, <1>1, <2>3, ClosedNext
  <1>4. CASE CompleteRecord(q) /\ RecordOutcome(q) /\ ~err[q]
    <2>1. HasRecord(f, a)
      BY <1>0, <1>1, <1>4 DEF CompleteRecord, At, OwnInv, OwnRecord
    <2>2. Closed(f, a)'
      BY <1>0, <1>1, <1>4, <2>1, SuccessCloses
    <2> QED
      BY <1>1, <2>2
  <1> QED
    BY <1>1, <1>2, <1>3, <1>4

\* The inductive invariant of the idempotency records.
THEOREM RecordsInvariant == Spec => []RecordsInv
  <1>1. FenceInv /\ RecordsInv /\ [Next]_vars => RecordsInv'
    BY NextOwn, NextFirst, NextTold DEF RecordsInv
  <1> QED
    BY <1>1, InitRecords, FenceInvariant, PTL DEF Spec

\* The idempotency promise of model.InstanceOperation, as the code keeps it: what a
\* caller has been told has succeeded does not call the agent again, whatever fails,
\* restarts or overlaps, but for a retry that took the record for interrupted work
\* before the success was recorded.
THEOREM NoRerun == Spec => NoRerunAfterSuccess
  <1> DEFINE Once == \A r, q \in Request :
          SameOperation(r, q) /\ Succeeded(q) /\ arg[q].ref \notin overtaken => ~CallsAgent(r)
  <1>1. FenceInv /\ RecordsInv /\ [Next]_vars => [Once]_vars
    <2> SUFFICES ASSUME FenceInv, RecordsInv, Next, NEW r \in Request, NEW q \in Request,
                        SameOperation(r, q), Succeeded(q), arg[q].ref \notin overtaken,
                        CallsAgent(r)
                 PROVE  FALSE
      OBVIOUS
    <2>1. Shape
      BY FenceShape
    <2>2. \A p \in Request : Step(p) => p = r /\ Send(r)
      BY <2>1 DEF Shape, CallsAgent, Step, Lookup, CheckFence, ResetRecord, LockMemory, ClaimSQL,
                  InsertRecord, LogStart, GiveBack, UnlockMemory, Reject, Send, Reply,
                  CallFails, LogComplete, CompleteRecord, Settle
    <2>3. Send(r)
      BY <2>1, <2>2 DEF Shape, CallsAgent, Next, Arrive, CreateRow, JobEnds, MasterStops,
                        MasterStarts, OperatorClears
    <2>4. Final(q)
      BY DEF Final, SameOperation, Succeeded, HasRef
    <2>5. Closed(arg[q].ref, arg[q].action)
      BY <2>4 DEF RecordsInv, ToldInv
    <2> QED
      BY <2>3, <2>5 DEF Closed, Send, At, SameOperation
  <1> HIDE DEF Once
  <1>2. [][Once]_vars => NoRerunAfterSuccess
    BY PTL DEF NoRerunAfterSuccess, Once
  <1> QED
    BY <1>1, <1>2, RecordsInvariant, FenceInvariant, PTL DEF Spec
=============================================================================
