---------------------------- MODULE MigrationProofs ----------------------------
(***************************************************************************)
(* Proofs about Migration, for any numbers of nodes, tokens and restarts.  *)
(* Whatever fails, it leaves nothing behind and keeps the promise of the   *)
(* fence it runs under (ExclusiveFence).                                   *)
(*                                                                         *)
(* That the guest survives, is in one place when the fence is free, and    *)
(* keeps its networks for as long as there is something left of it         *)
(* elsewhere, rests on the read that ends a migration not failing: when    *)
(* it fails the cleanup deletes the last copy.                             *)
(***************************************************************************)
EXTENDS Migration, TLAPS

ReadsSucceed == "read" \notin Faults

\* Where a pass is before its row is switched, after it, and when only the
\* cleanup is left.
Placing == {"reserve", "export", "importing", "import"}
Placed == {"verify", "switching", "switch"}
Undoing == {"await_target", "undo_reservations", "undo_record"}
AtSource == Placing \cup Placed \cup {"await_import"}
AtTarget == {"source_delete", "await_source", "release", "remove", "answer"}

\* The fence is held for as long as a pass runs.
FenceInv == fence = "held" <=> pc # "idle"

\* While the fence is taken the row is at one of the two ends, and a pass knows at which.
OwnerInv ==
    /\ fence # "free" => Source # Target /\ owner \in {Source, Target}
    /\ pc \in AtSource => owner = Source
    /\ pc \in AtTarget => owner = Target

\* What the flags of MigrateInstance stand for.
FlagInv ==
    /\ pc \in Placing \cup {"await_import"} => ~imported
    /\ pc \in Placed => imported
    /\ pc \in Placing \cup {"await_import", "verify", "switching"} => ~preserve
    /\ pc \in {"switch", "source_delete", "await_source", "release", "remove", "keep"} => preserve

\* A call is on its way only where a pass waits for it, or has decided to keep
\* the fence.
CallInv ==
    /\ fence = "free" => pending = {}
    /\ pc \in Placing \cup Placed \cup {"source_delete", "release", "remove", "answer"} => pending = {}
    /\ pc \in {"undo_reservations", "undo_record"} => pending = {}
    /\ pc = "undo" /\ ~preserve => pending = {}
    /\ pc = "finish" /\ ~retain => pending = {}
    /\ pc = "await_import" => pending \subseteq {<<"import", Target>>}
    /\ pc = "await_source" => pending \subseteq {<<"delete", Source>>}
    /\ pc = "await_target" => pending \subseteq {<<"delete", Target>>}

\* The reservations of a pass, before the switch and after it.
Settled ==
    /\ pool \subseteq {owner}
    /\ \A a \in Agent \ {owner} : nat[a] = "none"
    /\ nat[owner] \in {"live", "none"}
Reserved ==
    /\ pool \subseteq {Source} \cup (IF req.pool THEN {Target} ELSE {})
    /\ \A a \in Agent \ {Source, Target} : nat[a] = "none"
    /\ nat[Source] \in {"live", "none"} /\ nat[Target] \in {"target", "none"}
SwitchedOver ==
    /\ pool \subseteq {Source, Target}
    /\ \A a \in Agent \ {Source, Target} : nat[a] = "none"
    /\ nat[Source] \in {"source", "none"} /\ nat[Target] \in {"live", "none"}

\* What the cleanup of a pass finds: nothing is switched, or everything is done.
Undoable == (owner = Source /\ Reserved) \/ (owner = Target /\ Settled)

ReservationInv ==
    ~recovered =>
        /\ fence = "free" => Settled /\ open = NoToken
        /\ pc \in {"reserve", "remove", "answer", "undo_record"} => Settled
        /\ pc \in (AtSource \ {"reserve"}) => Reserved
        /\ pc \in {"source_delete", "await_source", "release"} => SwitchedOver
        /\ pc = "undo" /\ ~preserve => Undoable
        /\ pc \in {"await_target", "undo_reservations"} => Undoable
        /\ pc = "finish" /\ ~retain => Settled

\* What holds whatever fails.
BaseInv == TypeOK /\ FenceInv /\ OwnerInv /\ FlagInv /\ CallInv /\ ReservationInv

-----------------------------------------------------------------------------
(* What holds as long as the last read succeeds *)

\* While the fence is taken the guest is on the node of the row, and what else
\* there is of it, or may be, is at the other end; no call on its way deletes
\* it where the row says it is.
WhereInv ==
    fence # "free" =>
        /\ owner \in guest /\ guest \subseteq {Source, Target}
        /\ \A c \in pending : \/ owner = Source /\ c \in {<<"import", Target>>, <<"delete", Target>>}
                              \/ owner = Target /\ c = <<"delete", Source>>

\* What each step of a pass knows of the copies.
PassInv ==
    /\ pc \in Undoing => owner = Source
    /\ pc \in Placing \cup {"undo_reservations", "undo_record", "release", "remove", "answer"} =>
           guest = {owner}
    /\ pc \in Placed \cup {"source_delete"} => guest = {Source, Target}
    /\ pc = "await_import" /\ pending = {} => Target \in guest
    /\ pc = "await_source" /\ pending = {} => guest = {Target}
    /\ pc = "await_target" /\ pending = {} => guest = {Source}
    /\ pc = "undo" /\ ~preserve => /\ owner = Source
                                   /\ guest = IF imported THEN {Source, Target} ELSE {Source}
    /\ pc = "finish" /\ ~retain => guest = {owner}

\* The record of the pass is open while there is, or may be, a second copy.
RecordInv ==
    /\ guest # {owner} \/ pending # {} => stage[req.token] \notin Terminal
    /\ pc \in {"export", "importing", "import"} => stage[req.token] \notin Terminal

MigrationInv == BaseInv /\ OneGuestWhenFree /\ WhereInv /\ PassInv /\ RecordInv

-----------------------------------------------------------------------------
(* The steps *)

\* Every action keeps the types.
LEMMA TypeStep ==
    ASSUME TypeOK, [Next]_vars PROVE TypeOK'
  <1> USE MigrationAssumption DEF TypeOK, rowVars, flags, At, GoTo, Request, Stage, Forward, Undo, Source, Target
  <1>1. CASE UNCHANGED vars
    BY <1>1 DEF vars
  <1>2. ASSUME NEW t \in Token, NEW a \in Agent, NEW p \in BOOLEAN, Begin(t, a, p) PROVE TypeOK'
    BY <1>2 DEF Begin
  <1>3. CASE Retry
    BY <1>3 DEF Retry
  <1>4. CASE Reserve
    BY <1>4 DEF Reserve, Staged
  <1>5. CASE Export
    BY <1>5 DEF Export, Fail
  <1>6. CASE StageImporting
    BY <1>6 DEF StageImporting, Staged, Fail
  <1>7. CASE SendImport
    BY <1>7 DEF SendImport, Sent
  <1>8. CASE ImportReplies
    BY <1>8 DEF ImportReplies, Fail
  <1>9. CASE Verify
    BY <1>9 DEF Verify, Fail
  <1>10. CASE StageSwitching
    BY <1>10 DEF StageSwitching, Staged, Fail
  <1>11. CASE Switch
    BY <1>11 DEF Switch, Switched, Staged, Fail
  <1>12. CASE SendSourceDelete
    BY <1>12 DEF SendSourceDelete, Sent, Fail
  <1>13. CASE SourceDeleteReplies
    BY <1>13 DEF SourceDeleteReplies, Fail
  <1>14. CASE Release
    BY <1>14 DEF Release, ReleasedSource, Staged, Fail
  <1>15. CASE RemoveArchive
    BY <1>15 DEF RemoveArchive, Fail
  <1>16. CASE Answer
    BY <1>16 DEF Answer, Fail
  <1>17. CASE Cleanup
    BY <1>17 DEF Cleanup, Sent
  <1>18. CASE Keep
    BY <1>18 DEF Keep
  <1>19. CASE TargetDeleteReplies
    BY <1>19 DEF TargetDeleteReplies, Staged
  <1>20. CASE UndoReservations
    BY <1>20 DEF UndoReservations, ReleasedTarget
  <1>21. CASE UndoRecord
    BY <1>21 DEF UndoRecord, Staged
  <1>22. CASE Finish
    BY <1>22 DEF Finish
  <1>23. ASSUME NEW c \in pending, NodeDoes(c) PROVE TypeOK'
    BY <1>23 DEF NodeDoes
  <1>24. CASE Crash
    BY <1>24 DEF Crash
  <1>25. ASSUME NEW a \in Agent, OperatorCleans(a) PROVE TypeOK'
    BY <1>25 DEF OperatorCleans
  <1>26. CASE Recover
    BY <1>26 DEF Recover
  <1> QED
    BY <1>1, <1>2, <1>3, <1>4, <1>5, <1>6, <1>7, <1>8, <1>9, <1>10, <1>11, <1>12, <1>13, <1>14,
       <1>15, <1>16, <1>17, <1>18, <1>19, <1>20, <1>21, <1>22, <1>23, <1>24, <1>25, <1>26 DEF
       Next, Step

\* A pass begins by taking the fence and ends by letting go of it, or dies.
LEMMA FenceStep ==
    ASSUME TypeOK, FenceInv, [Next]_vars PROVE FenceInv'
  <1> USE DEF FenceInv, rowVars, flags, At, GoTo, TypeOK
  <1>1. CASE UNCHANGED vars
    BY <1>1 DEF vars
  <1>2. ASSUME NEW t \in Token, NEW a \in Agent, NEW p \in BOOLEAN, Begin(t, a, p) PROVE FenceInv'
    BY <1>2 DEF Begin
  <1>3. CASE Retry
    BY <1>3 DEF Retry
  <1>4. CASE Reserve
    BY <1>4 DEF Reserve, Staged
  <1>5. CASE Export
    BY <1>5 DEF Export, Fail
  <1>6. CASE StageImporting
    BY <1>6 DEF StageImporting, Staged, Fail
  <1>7. CASE SendImport
    BY <1>7 DEF SendImport, Sent
  <1>8. CASE ImportReplies
    BY <1>8 DEF ImportReplies, Fail
  <1>9. CASE Verify
    BY <1>9 DEF Verify, Fail
  <1>10. CASE StageSwitching
    BY <1>10 DEF StageSwitching, Staged, Fail
  <1>11. CASE Switch
    BY <1>11 DEF Switch, Switched, Staged, Fail
  <1>12. CASE SendSourceDelete
    BY <1>12 DEF SendSourceDelete, Sent, Fail
  <1>13. CASE SourceDeleteReplies
    BY <1>13 DEF SourceDeleteReplies, Fail
  <1>14. CASE Release
    BY <1>14 DEF Release, ReleasedSource, Staged, Fail
  <1>15. CASE RemoveArchive
    BY <1>15 DEF RemoveArchive, Fail
  <1>16. CASE Answer
    BY <1>16 DEF Answer, Fail
  <1>17. CASE Cleanup
    BY <1>17 DEF Cleanup, Sent
  <1>18. CASE Keep
    BY <1>18 DEF Keep
  <1>19. CASE TargetDeleteReplies
    BY <1>19 DEF TargetDeleteReplies, Staged
  <1>20. CASE UndoReservations
    BY <1>20 DEF UndoReservations, ReleasedTarget
  <1>21. CASE UndoRecord
    BY <1>21 DEF UndoRecord, Staged
  <1>22. CASE Finish
    BY <1>22 DEF Finish
  <1>23. ASSUME NEW c \in pending, NodeDoes(c) PROVE FenceInv'
    BY <1>23 DEF NodeDoes
  <1>24. CASE Crash
    BY <1>24 DEF Crash
  <1>25. ASSUME NEW a \in Agent, OperatorCleans(a) PROVE FenceInv'
    BY <1>25 DEF OperatorCleans
  <1>26. CASE Recover
    BY <1>26 DEF Recover
  <1> QED
    BY <1>1, <1>2, <1>3, <1>4, <1>5, <1>6, <1>7, <1>8, <1>9, <1>10, <1>11, <1>12, <1>13, <1>14,
       <1>15, <1>16, <1>17, <1>18, <1>19, <1>20, <1>21, <1>22, <1>23, <1>24, <1>25, <1>26 DEF
       Next, Step

\* The flags follow the pass: imported from the answered import, preserve from the
\* unanswered one or the switch until the archive is gone.
LEMMA FlagStep ==
    ASSUME BaseInv, [Next]_vars PROVE FlagInv'
  <1> USE DEF BaseInv, FlagInv, rowVars, flags, At, GoTo, TypeOK, AtSource, AtTarget, Placing, Placed, Undoing
  <1>1. CASE UNCHANGED vars
    BY <1>1 DEF vars
  <1>2. ASSUME NEW t \in Token, NEW a \in Agent, NEW p \in BOOLEAN, Begin(t, a, p) PROVE FlagInv'
    BY <1>2 DEF Begin
  <1>3. CASE Retry
    BY <1>3 DEF Retry
  <1>4. CASE Reserve
    BY <1>4 DEF Reserve, Staged
  <1>5. CASE Export
    BY <1>5 DEF Export, Fail
  <1>6. CASE StageImporting
    BY <1>6 DEF StageImporting, Staged, Fail
  <1>7. CASE SendImport
    BY <1>7 DEF SendImport, Sent
  <1>8. CASE ImportReplies
    BY <1>8 DEF ImportReplies, Fail
  <1>9. CASE Verify
    BY <1>9 DEF Verify, Fail
  <1>10. CASE StageSwitching
    BY <1>10 DEF StageSwitching, Staged, Fail
  <1>11. CASE Switch
    BY <1>11 DEF Switch, Switched, Staged, Fail
  <1>12. CASE SendSourceDelete
    BY <1>12 DEF SendSourceDelete, Sent, Fail
  <1>13. CASE SourceDeleteReplies
    BY <1>13 DEF SourceDeleteReplies, Fail
  <1>14. CASE Release
    BY <1>14 DEF Release, ReleasedSource, Staged, Fail
  <1>15. CASE RemoveArchive
    BY <1>15 DEF RemoveArchive, Fail
  <1>16. CASE Answer
    BY <1>16 DEF Answer, Fail
  <1>17. CASE Cleanup
    BY <1>17 DEF Cleanup, Sent
  <1>18. CASE Keep
    BY <1>18 DEF Keep
  <1>19. CASE TargetDeleteReplies
    BY <1>19 DEF TargetDeleteReplies, Staged
  <1>20. CASE UndoReservations
    BY <1>20 DEF UndoReservations, ReleasedTarget
  <1>21. CASE UndoRecord
    BY <1>21 DEF UndoRecord, Staged
  <1>22. CASE Finish
    BY <1>22 DEF Finish
  <1>23. ASSUME NEW c \in pending, NodeDoes(c) PROVE FlagInv'
    BY <1>23 DEF NodeDoes
  <1>24. CASE Crash
    BY <1>24 DEF Crash
  <1>25. ASSUME NEW a \in Agent, OperatorCleans(a) PROVE FlagInv'
    BY <1>25 DEF OperatorCleans
  <1>26. CASE Recover
    BY <1>26 DEF Recover
  <1> QED
    BY <1>1, <1>2, <1>3, <1>4, <1>5, <1>6, <1>7, <1>8, <1>9, <1>10, <1>11, <1>12, <1>13, <1>14,
       <1>15, <1>16, <1>17, <1>18, <1>19, <1>20, <1>21, <1>22, <1>23, <1>24, <1>25, <1>26 DEF
       Next, Step

\* The row changes ends with the switch, and a pass begins between two nodes.
LEMMA OwnerStep ==
    ASSUME BaseInv, [Next]_vars PROVE OwnerInv'
  <1> USE DEF BaseInv, OwnerInv, FenceInv, FlagInv, Source, Target, rowVars, flags, At, GoTo, TypeOK, Request, AtSource, AtTarget, Placing, Placed, Undoing
  <1>1. CASE UNCHANGED vars
    BY <1>1 DEF vars
  <1>2. ASSUME NEW t \in Token, NEW a \in Agent, NEW p \in BOOLEAN, Begin(t, a, p) PROVE OwnerInv'
    BY <1>2 DEF Begin
  <1>3. CASE Retry
    BY <1>3 DEF Retry
  <1>4. CASE Reserve
    BY <1>4 DEF Reserve, Staged
  <1>5. CASE Export
    BY <1>5 DEF Export, Fail
  <1>6. CASE StageImporting
    BY <1>6 DEF StageImporting, Staged, Fail
  <1>7. CASE SendImport
    BY <1>7 DEF SendImport, Sent
  <1>8. CASE ImportReplies
    BY <1>8 DEF ImportReplies, Fail
  <1>9. CASE Verify
    BY <1>9 DEF Verify, Fail
  <1>10. CASE StageSwitching
    BY <1>10 DEF StageSwitching, Staged, Fail
  <1>11. CASE Switch
    BY <1>11 DEF Switch, Switched, Staged, Fail
  <1>12. CASE SendSourceDelete
    BY <1>12 DEF SendSourceDelete, Sent, Fail
  <1>13. CASE SourceDeleteReplies
    BY <1>13 DEF SourceDeleteReplies, Fail
  <1>14. CASE Release
    BY <1>14 DEF Release, ReleasedSource, Staged, Fail
  <1>15. CASE RemoveArchive
    BY <1>15 DEF RemoveArchive, Fail
  <1>16. CASE Answer
    BY <1>16 DEF Answer, Fail
  <1>17. CASE Cleanup
    BY <1>17 DEF Cleanup, Sent
  <1>18. CASE Keep
    BY <1>18 DEF Keep
  <1>19. CASE TargetDeleteReplies
    BY <1>19 DEF TargetDeleteReplies, Staged
  <1>20. CASE UndoReservations
    BY <1>20 DEF UndoReservations, ReleasedTarget
  <1>21. CASE UndoRecord
    BY <1>21 DEF UndoRecord, Staged
  <1>22. CASE Finish
    BY <1>22 DEF Finish
  <1>23. ASSUME NEW c \in pending, NodeDoes(c) PROVE OwnerInv'
    BY <1>23 DEF NodeDoes
  <1>24. CASE Crash
    BY <1>24 DEF Crash
  <1>25. ASSUME NEW a \in Agent, OperatorCleans(a) PROVE OwnerInv'
    BY <1>25 DEF OperatorCleans
  <1>26. CASE Recover
    BY <1>26 DEF Recover
  <1> QED
    BY <1>1, <1>2, <1>3, <1>4, <1>5, <1>6, <1>7, <1>8, <1>9, <1>10, <1>11, <1>12, <1>13, <1>14,
       <1>15, <1>16, <1>17, <1>18, <1>19, <1>20, <1>21, <1>22, <1>23, <1>24, <1>25, <1>26 DEF
       Next, Step

\* A pass that goes on has an answer to each of its calls; one that has none keeps the fence.
LEMMA CallStep ==
    ASSUME BaseInv, [Next]_vars PROVE CallInv'
  <1> USE DEF BaseInv, CallInv, FenceInv, FlagInv, Source, Target, rowVars, flags, At, GoTo, TypeOK, AtSource, AtTarget, Placing, Placed, Undoing
  <1>1. CASE UNCHANGED vars
    BY <1>1 DEF vars
  <1>2. ASSUME NEW t \in Token, NEW a \in Agent, NEW p \in BOOLEAN, Begin(t, a, p) PROVE CallInv'
    BY <1>2 DEF Begin
  <1>3. CASE Retry
    BY <1>3 DEF Retry
  <1>4. CASE Reserve
    BY <1>4 DEF Reserve, Staged
  <1>5. CASE Export
    BY <1>5 DEF Export, Fail
  <1>6. CASE StageImporting
    BY <1>6 DEF StageImporting, Staged, Fail
  <1>7. CASE SendImport
    BY <1>7 DEF SendImport, Sent
  <1>8. CASE ImportReplies
    BY <1>8 DEF ImportReplies, Fail
  <1>9. CASE Verify
    BY <1>9 DEF Verify, Fail
  <1>10. CASE StageSwitching
    BY <1>10 DEF StageSwitching, Staged, Fail
  <1>11. CASE Switch
    BY <1>11 DEF Switch, Switched, Staged, Fail
  <1>12. CASE SendSourceDelete
    BY <1>12 DEF SendSourceDelete, Sent, Fail
  <1>13. CASE SourceDeleteReplies
    BY <1>13 DEF SourceDeleteReplies, Fail
  <1>14. CASE Release
    BY <1>14 DEF Release, ReleasedSource, Staged, Fail
  <1>15. CASE RemoveArchive
    BY <1>15 DEF RemoveArchive, Fail
  <1>16. CASE Answer
    BY <1>16 DEF Answer, Fail
  <1>17. CASE Cleanup
    BY <1>17 DEF Cleanup, Sent
  <1>18. CASE Keep
    BY <1>18 DEF Keep
  <1>19. CASE TargetDeleteReplies
    BY <1>19 DEF TargetDeleteReplies, Staged
  <1>20. CASE UndoReservations
    BY <1>20 DEF UndoReservations, ReleasedTarget
  <1>21. CASE UndoRecord
    BY <1>21 DEF UndoRecord, Staged
  <1>22. CASE Finish
    BY <1>22 DEF Finish
  <1>23. ASSUME NEW c \in pending, NodeDoes(c) PROVE CallInv'
    BY <1>23 DEF NodeDoes
  <1>24. CASE Crash
    BY <1>24 DEF Crash
  <1>25. ASSUME NEW a \in Agent, OperatorCleans(a) PROVE CallInv'
    BY <1>25 DEF OperatorCleans
  <1>26. CASE Recover
    BY <1>26 DEF Recover
  <1> QED
    BY <1>1, <1>2, <1>3, <1>4, <1>5, <1>6, <1>7, <1>8, <1>9, <1>10, <1>11, <1>12, <1>13, <1>14,
       <1>15, <1>16, <1>17, <1>18, <1>19, <1>20, <1>21, <1>22, <1>23, <1>24, <1>25, <1>26 DEF
       Next, Step

\* What a pass reserves, or has to give back, it settles before it lets go of the fence.
LEMMA ReservationStep ==
    ASSUME BaseInv, [Next]_vars PROVE ReservationInv'
  <1> USE DEF BaseInv, ReservationInv, Settled, Reserved, SwitchedOver, Undoable, OwnerInv, CallInv,
             FenceInv, FlagInv, Request, Source, Target, rowVars, flags, At, GoTo, TypeOK,
             AtSource, AtTarget, Placing, Placed, Undoing
  <1>1. CASE UNCHANGED vars
    BY <1>1 DEF vars
  <1>2. ASSUME NEW t \in Token, NEW a \in Agent, NEW p \in BOOLEAN, Begin(t, a, p) PROVE ReservationInv'
    BY <1>2 DEF Begin
  <1>3. CASE Retry
    BY <1>3 DEF Retry
  <1>4. CASE Reserve
    BY <1>4 DEF Reserve, Staged
  <1>5. CASE Export
    BY <1>5 DEF Export, Fail
  <1>6. CASE StageImporting
    BY <1>6 DEF StageImporting, Staged, Fail
  <1>7. CASE SendImport
    BY <1>7 DEF SendImport, Sent
  <1>8. CASE ImportReplies
    BY <1>8 DEF ImportReplies, Fail
  <1>9. CASE Verify
    BY <1>9 DEF Verify, Fail
  <1>10. CASE StageSwitching
    BY <1>10 DEF StageSwitching, Staged, Fail
  <1>11. CASE Switch
    BY <1>11 DEF Switch, Switched, Staged, Fail
  <1>12. CASE SendSourceDelete
    BY <1>12 DEF SendSourceDelete, Sent, Fail
  <1>13. CASE SourceDeleteReplies
    BY <1>13 DEF SourceDeleteReplies, Fail
  <1>14. CASE Release
    BY <1>14 DEF Release, ReleasedSource, Staged, Fail
  <1>15. CASE RemoveArchive
    BY <1>15 DEF RemoveArchive, Fail
  <1>16. CASE Answer
    BY <1>16 DEF Answer, Fail
  <1>17. CASE Cleanup
    BY <1>17 DEF Cleanup, Sent
  <1>18. CASE Keep
    BY <1>18 DEF Keep
  <1>19. CASE TargetDeleteReplies
    BY <1>19 DEF TargetDeleteReplies, Staged
  <1>20. CASE UndoReservations
    BY <1>20 DEF UndoReservations, ReleasedTarget
  <1>21. CASE UndoRecord
    BY <1>21 DEF UndoRecord, Staged
  <1>22. CASE Finish
    BY <1>22 DEF Finish
  <1>23. ASSUME NEW c \in pending, NodeDoes(c) PROVE ReservationInv'
    BY <1>23 DEF NodeDoes
  <1>24. CASE Crash
    BY <1>24 DEF Crash
  <1>25. ASSUME NEW a \in Agent, OperatorCleans(a) PROVE ReservationInv'
    BY <1>25 DEF OperatorCleans
  <1>26. CASE Recover
    BY <1>26 DEF Recover
  <1> HIDE DEF ReservationInv, Settled, Reserved, SwitchedOver, BaseInv, TypeOK
  <1> QED
    BY <1>1, <1>2, <1>3, <1>4, <1>5, <1>6, <1>7, <1>8, <1>9, <1>10, <1>11, <1>12, <1>13, <1>14,
       <1>15, <1>16, <1>17, <1>18, <1>19, <1>20, <1>21, <1>22, <1>23, <1>24, <1>25, <1>26 DEF
       Next, Step

\* The fence goes back only over one copy, at the row's node, and no calls.
LEMMA FreeStep ==
    ASSUME MigrationInv, ReadsSucceed, [Next]_vars PROVE OneGuestWhenFree'
  <1> USE DEF MigrationInv, BaseInv, OneGuestWhenFree, PassInv, OwnerInv, CallInv, FenceInv, FlagInv,
             Source, Target, rowVars, flags, At, GoTo, TypeOK, AtSource, AtTarget, Placing, Placed, Undoing
  <1>1. CASE UNCHANGED vars
    BY <1>1 DEF vars
  <1>2. ASSUME NEW t \in Token, NEW a \in Agent, NEW p \in BOOLEAN, Begin(t, a, p) PROVE OneGuestWhenFree'
    BY <1>2 DEF Begin
  <1>3. CASE Retry
    BY <1>3 DEF Retry
  <1>4. CASE Reserve
    BY <1>4 DEF Reserve, Staged
  <1>5. CASE Export
    BY <1>5 DEF Export, Fail
  <1>6. CASE StageImporting
    BY <1>6 DEF StageImporting, Staged, Fail
  <1>7. CASE SendImport
    BY <1>7 DEF SendImport, Sent
  <1>8. CASE ImportReplies
    BY <1>8 DEF ImportReplies, Fail
  <1>9. CASE Verify
    BY <1>9 DEF Verify, Fail
  <1>10. CASE StageSwitching
    BY <1>10 DEF StageSwitching, Staged, Fail
  <1>11. CASE Switch
    BY <1>11 DEF Switch, Switched, Staged, Fail
  <1>12. CASE SendSourceDelete
    BY <1>12 DEF SendSourceDelete, Sent, Fail
  <1>13. CASE SourceDeleteReplies
    BY <1>13 DEF SourceDeleteReplies, Fail
  <1>14. CASE Release
    BY <1>14 DEF Release, ReleasedSource, Staged, Fail
  <1>15. CASE RemoveArchive
    BY <1>15 DEF RemoveArchive, Fail
  <1>16. CASE Answer
    BY <1>16 DEF Answer, Fail, Fault, ReadsSucceed
  <1>17. CASE Cleanup
    BY <1>17 DEF Cleanup, Sent
  <1>18. CASE Keep
    BY <1>18 DEF Keep
  <1>19. CASE TargetDeleteReplies
    BY <1>19 DEF TargetDeleteReplies, Staged
  <1>20. CASE UndoReservations
    BY <1>20 DEF UndoReservations, ReleasedTarget
  <1>21. CASE UndoRecord
    BY <1>21 DEF UndoRecord, Staged
  <1>22. CASE Finish
    BY <1>22 DEF Finish
  <1>23. ASSUME NEW c \in pending, NodeDoes(c) PROVE OneGuestWhenFree'
    BY <1>23 DEF NodeDoes
  <1>24. CASE Crash
    BY <1>24 DEF Crash
  <1>25. ASSUME NEW a \in Agent, OperatorCleans(a) PROVE OneGuestWhenFree'
    BY <1>25 DEF OperatorCleans
  <1>26. CASE Recover
    BY <1>26 DEF Recover
  <1> QED
    BY <1>1, <1>2, <1>3, <1>4, <1>5, <1>6, <1>7, <1>8, <1>9, <1>10, <1>11, <1>12, <1>13, <1>14,
       <1>15, <1>16, <1>17, <1>18, <1>19, <1>20, <1>21, <1>22, <1>23, <1>24, <1>25, <1>26 DEF
       Next, Step

\* No step takes the copy at the row's node away, or has it taken away later.
LEMMA WhereStep ==
    ASSUME MigrationInv, ReadsSucceed, [Next]_vars PROVE WhereInv'
  <1> USE DEF MigrationInv, BaseInv, WhereInv, OneGuestWhenFree, PassInv, OwnerInv, CallInv, FenceInv, FlagInv,
             Source, Target, rowVars, flags, At, GoTo, TypeOK, AtSource, AtTarget, Placing, Placed, Undoing
  <1>1. CASE UNCHANGED vars
    BY <1>1 DEF vars
  <1>2. ASSUME NEW t \in Token, NEW a \in Agent, NEW p \in BOOLEAN, Begin(t, a, p) PROVE WhereInv'
    BY <1>2 DEF Begin
  <1>3. CASE Retry
    BY <1>3 DEF Retry
  <1>4. CASE Reserve
    BY <1>4 DEF Reserve, Staged
  <1>5. CASE Export
    BY <1>5 DEF Export, Fail
  <1>6. CASE StageImporting
    BY <1>6 DEF StageImporting, Staged, Fail
  <1>7. CASE SendImport
    BY <1>7 DEF SendImport, Sent
  <1>8. CASE ImportReplies
    BY <1>8 DEF ImportReplies, Fail
  <1>9. CASE Verify
    BY <1>9 DEF Verify, Fail
  <1>10. CASE StageSwitching
    BY <1>10 DEF StageSwitching, Staged, Fail
  <1>11. CASE Switch
    BY <1>11 DEF Switch, Switched, Staged, Fail
  <1>12. CASE SendSourceDelete
    BY <1>12 DEF SendSourceDelete, Sent, Fail
  <1>13. CASE SourceDeleteReplies
    BY <1>13 DEF SourceDeleteReplies, Fail
  <1>14. CASE Release
    BY <1>14 DEF Release, ReleasedSource, Staged, Fail
  <1>15. CASE RemoveArchive
    BY <1>15 DEF RemoveArchive, Fail
  <1>16. CASE Answer
    BY <1>16 DEF Answer, Fail, Fault, ReadsSucceed
  <1>17. CASE Cleanup
    BY <1>17 DEF Cleanup, Sent
  <1>18. CASE Keep
    BY <1>18 DEF Keep
  <1>19. CASE TargetDeleteReplies
    BY <1>19 DEF TargetDeleteReplies, Staged
  <1>20. CASE UndoReservations
    BY <1>20 DEF UndoReservations, ReleasedTarget
  <1>21. CASE UndoRecord
    BY <1>21 DEF UndoRecord, Staged
  <1>22. CASE Finish
    BY <1>22 DEF Finish
  <1>23. ASSUME NEW c \in pending, NodeDoes(c) PROVE WhereInv'
    BY <1>23 DEF NodeDoes
  <1>24. CASE Crash
    BY <1>24 DEF Crash
  <1>25. ASSUME NEW a \in Agent, OperatorCleans(a) PROVE WhereInv'
    BY <1>25 DEF OperatorCleans
  <1>26. CASE Recover
    BY <1>26 DEF Recover
  <1> QED
    BY <1>1, <1>2, <1>3, <1>4, <1>5, <1>6, <1>7, <1>8, <1>9, <1>10, <1>11, <1>12, <1>13, <1>14,
       <1>15, <1>16, <1>17, <1>18, <1>19, <1>20, <1>21, <1>22, <1>23, <1>24, <1>25, <1>26 DEF
       Next, Step

\* Each step of a pass leaves to the next what that one counts on.
LEMMA PassStep ==
    ASSUME MigrationInv, ReadsSucceed, [Next]_vars PROVE PassInv'
  <1> USE DEF MigrationInv, BaseInv, PassInv, WhereInv, OneGuestWhenFree, OwnerInv, CallInv, FenceInv, FlagInv,
             Source, Target, rowVars, flags, At, GoTo, TypeOK, AtSource, AtTarget, Placing, Placed, Undoing
  <1>1. CASE UNCHANGED vars
    BY <1>1 DEF vars
  <1>2. ASSUME NEW t \in Token, NEW a \in Agent, NEW p \in BOOLEAN, Begin(t, a, p) PROVE PassInv'
    BY <1>2 DEF Begin
  <1>3. CASE Retry
    BY <1>3 DEF Retry
  <1>4. CASE Reserve
    BY <1>4 DEF Reserve, Staged
  <1>5. CASE Export
    BY <1>5 DEF Export, Fail
  <1>6. CASE StageImporting
    BY <1>6 DEF StageImporting, Staged, Fail
  <1>7. CASE SendImport
    BY <1>7 DEF SendImport, Sent
  <1>8. CASE ImportReplies
    BY <1>8 DEF ImportReplies, Fail
  <1>9. CASE Verify
    BY <1>9 DEF Verify, Fail
  <1>10. CASE StageSwitching
    BY <1>10 DEF StageSwitching, Staged, Fail
  <1>11. CASE Switch
    BY <1>11 DEF Switch, Switched, Staged, Fail
  <1>12. CASE SendSourceDelete
    BY <1>12 DEF SendSourceDelete, Sent, Fail
  <1>13. CASE SourceDeleteReplies
    BY <1>13 DEF SourceDeleteReplies, Fail
  <1>14. CASE Release
    BY <1>14 DEF Release, ReleasedSource, Staged, Fail
  <1>15. CASE RemoveArchive
    BY <1>15 DEF RemoveArchive, Fail
  <1>16. CASE Answer
    BY <1>16 DEF Answer, Fail, Fault, ReadsSucceed
  <1>17. CASE Cleanup
    BY <1>17 DEF Cleanup, Sent
  <1>18. CASE Keep
    BY <1>18 DEF Keep
  <1>19. CASE TargetDeleteReplies
    BY <1>19 DEF TargetDeleteReplies, Staged
  <1>20. CASE UndoReservations
    BY <1>20 DEF UndoReservations, ReleasedTarget
  <1>21. CASE UndoRecord
    BY <1>21 DEF UndoRecord, Staged
  <1>22. CASE Finish
    BY <1>22 DEF Finish
  <1>23. ASSUME NEW c \in pending, NodeDoes(c) PROVE PassInv'
    BY <1>23 DEF NodeDoes
  <1>24. CASE Crash
    BY <1>24 DEF Crash
  <1>25. ASSUME NEW a \in Agent, OperatorCleans(a) PROVE PassInv'
    BY <1>25 DEF OperatorCleans
  <1>26. CASE Recover
    BY <1>26 DEF Recover
  <1> QED
    BY <1>1, <1>2, <1>3, <1>4, <1>5, <1>6, <1>7, <1>8, <1>9, <1>10, <1>11, <1>12, <1>13, <1>14,
       <1>15, <1>16, <1>17, <1>18, <1>19, <1>20, <1>21, <1>22, <1>23, <1>24, <1>25, <1>26 DEF
       Next, Step

\* The record is written before the second copy can be, and closed after it is gone.
LEMMA RecordStep ==
    ASSUME MigrationInv, ReadsSucceed, [Next]_vars PROVE RecordInv'
  <1> USE DEF MigrationInv, BaseInv, RecordInv, PassInv, WhereInv, OneGuestWhenFree, OwnerInv, CallInv, FenceInv, FlagInv,
             Request, Terminal, Source, Target, rowVars, flags, At, GoTo, TypeOK, AtSource, AtTarget, Placing, Placed, Undoing
  <1>1. CASE UNCHANGED vars
    BY <1>1 DEF vars
  <1>2. ASSUME NEW t \in Token, NEW a \in Agent, NEW p \in BOOLEAN, Begin(t, a, p) PROVE RecordInv'
    BY <1>2 DEF Begin
  <1>3. CASE Retry
    BY <1>3 DEF Retry
  <1>4. CASE Reserve
    BY <1>4 DEF Reserve, Staged
  <1>5. CASE Export
    BY <1>5 DEF Export, Fail
  <1>6. CASE StageImporting
    BY <1>6 DEF StageImporting, Staged, Fail
  <1>7. CASE SendImport
    BY <1>7 DEF SendImport, Sent
  <1>8. CASE ImportReplies
    BY <1>8 DEF ImportReplies, Fail
  <1>9. CASE Verify
    BY <1>9 DEF Verify, Fail
  <1>10. CASE StageSwitching
    BY <1>10 DEF StageSwitching, Staged, Fail
  <1>11. CASE Switch
    BY <1>11 DEF Switch, Switched, Staged, Fail
  <1>12. CASE SendSourceDelete
    BY <1>12 DEF SendSourceDelete, Sent, Fail
  <1>13. CASE SourceDeleteReplies
    BY <1>13 DEF SourceDeleteReplies, Fail
  <1>14. CASE Release
    BY <1>14 DEF Release, ReleasedSource, Staged, Fail
  <1>15. CASE RemoveArchive
    BY <1>15 DEF RemoveArchive, Fail
  <1>16. CASE Answer
    BY <1>16 DEF Answer, Fail, Fault, ReadsSucceed
  <1>17. CASE Cleanup
    BY <1>17 DEF Cleanup, Sent
  <1>18. CASE Keep
    BY <1>18 DEF Keep
  <1>19. CASE TargetDeleteReplies
    BY <1>19 DEF TargetDeleteReplies, Staged
  <1>20. CASE UndoReservations
    BY <1>20 DEF UndoReservations, ReleasedTarget
  <1>21. CASE UndoRecord
    BY <1>21 DEF UndoRecord, Staged
  <1>22. CASE Finish
    BY <1>22 DEF Finish
  <1>23. ASSUME NEW c \in pending, NodeDoes(c) PROVE RecordInv'
    BY <1>23 DEF NodeDoes
  <1>24. CASE Crash
    BY <1>24 DEF Crash
  <1>25. ASSUME NEW a \in Agent, OperatorCleans(a) PROVE RecordInv'
    BY <1>25 DEF OperatorCleans
  <1>26. CASE Recover
    BY <1>26 DEF Recover
  <1> QED
    BY <1>1, <1>2, <1>3, <1>4, <1>5, <1>6, <1>7, <1>8, <1>9, <1>10, <1>11, <1>12, <1>13, <1>14,
       <1>15, <1>16, <1>17, <1>18, <1>19, <1>20, <1>21, <1>22, <1>23, <1>24, <1>25, <1>26 DEF
       Next, Step

-----------------------------------------------------------------------------
(* Theorems: whatever fails *)

\* Before anything has begun.
LEMMA InitInv == Init => MigrationInv
  <1> SUFFICES ASSUME Init PROVE MigrationInv
    OBVIOUS
  <1>1. TypeOK
    <2>1. pool \subseteq Agent /\ nat \in [Agent -> {"none", "live", "target", "source"}]
      BY DEF Init
    <2>2. req \in Request /\ stage \in [Token -> Stage] /\ 0 \in 0..MaxCrashes
      BY MigrationAssumption DEF Init, Stage
    <2> QED
      BY <2>1, <2>2 DEF Init, TypeOK
  <1>2. FenceInv /\ OwnerInv /\ FlagInv /\ CallInv
    BY DEF Init, FenceInv, OwnerInv, FlagInv, CallInv, AtSource, AtTarget, Placing, Placed
  <1>3. OneGuestWhenFree /\ WhereInv /\ PassInv
    BY DEF Init, OneGuestWhenFree, WhereInv, PassInv, Placing, Placed, Undoing
  <1>4. RecordInv /\ ReservationInv
    BY DEF Init, TypeOK, RecordInv, ReservationInv, Settled, AtSource, Placing, Placed
  <1> QED
    BY <1>1, <1>2, <1>3, <1>4 DEF MigrationInv, BaseInv

\* One step of anybody keeps what holds whatever fails.
LEMMA BaseNext == BaseInv /\ [Next]_vars => BaseInv'
  <1> SUFFICES ASSUME BaseInv, [Next]_vars PROVE BaseInv'
    OBVIOUS
  <1>1. TypeOK' /\ FenceInv'
    BY TypeStep, FenceStep DEF BaseInv
  <1>2. OwnerInv' /\ FlagInv' /\ CallInv' /\ ReservationInv'
    BY OwnerStep, FlagStep, CallStep, ReservationStep
  <1> QED
    BY <1>1, <1>2 DEF BaseInv

\* The first half of the invariant needs no assumption about what fails.
THEOREM BaseInvariant == Spec => []BaseInv
  <1>1. Init => BaseInv
    BY InitInv DEF MigrationInv
  <1> QED
    BY <1>1, BaseNext, PTL DEF Spec

\* Whatever fails, MigrateInstance and its cleanup keep every variable in its type.
THEOREM TypeCorrect == Spec => []TypeOK
  <1>1. BaseInv => TypeOK
    BY DEF BaseInv
  <1> QED
    BY <1>1, BaseInvariant, PTL

\* Whatever fails, no address and no port stays behind on a node the instance is not
\* on, unless a fence was cleared by hand (releaseMigrationReservations).
THEOREM NoLeak == Spec => []NothingLeaks
  <1>1. BaseInv => NothingLeaks
    BY DEF BaseInv, ReservationInv, Settled, NothingLeaks
  <1> QED
    BY <1>1, BaseInvariant, PTL

-----------------------------------------------------------------------------
(* Theorems: the fence *)

AbsVars == <<Owner, Danger>>
AbsNext == Fence!Next \/ UNCHANGED AbsVars

\* A pass enters a free fence, on an instance no call is on its way to.
LEMMA EntersFence ==
  ASSUME BaseInv, Retry \/ \E t \in Token, a \in Agent, p \in BOOLEAN : Begin(t, a, p)
  PROVE  AbsNext
  <1>1. fence = "free" /\ fence' = "held" /\ pending = {} /\ pending' = {} /\ req'.token \in Token
    BY DEF BaseInv, CallInv, TypeOK, Retry, Begin, Request
  <1> QED
    BY <1>1 DEF AbsNext, AbsVars, Owner, Danger, Fence!Next, Fence!Acquire

\* The calls of a pass are launched by the owner of the fence, and only these are.
LEMMA LaunchesAsOwner ==
  ASSUME BaseInv, SendImport \/ SendSourceDelete \/ Cleanup
  PROVE  AbsNext
  <1>1. fence = "held" /\ fence' = "held" /\ req' = req /\ req.token \in Token
    BY DEF BaseInv, FenceInv, TypeOK, Request, SendImport, SendSourceDelete, Cleanup, At
  <1>2. CASE pending' = pending
    BY <1>1, <1>2 DEF AbsNext, AbsVars, Owner, Danger
  <1>3. CASE \E c : pending' = pending \cup {c}
    <2>1. Danger' = Danger \cup {req.token}
      BY <1>1, <1>3 DEF Danger
    <2> QED
      BY <1>1, <2>1 DEF AbsNext, Owner, Fence!Next, Fence!Launch
  <1> QED
    BY <1>2, <1>3 DEF SendImport, SendSourceDelete, Cleanup, Sent

\* What a node carries out is taken from the danger.
LEMMA LandsOnNode ==
  ASSUME BaseInv, NEW c \in pending, NodeDoes(c)
  PROVE  AbsNext
  <1>1. UNCHANGED Owner /\ req' = req /\ req.token \in Token /\ pending' = pending \ {c}
    BY DEF BaseInv, TypeOK, Request, NodeDoes, Owner
  <1>2. CASE pending' = {}
    <2>1. Danger' = Danger \ {req.token}
      BY <1>1, <1>2 DEF Danger
    <2> QED
      BY <1>1, <2>1 DEF AbsNext, Fence!Next, Fence!Land
  <1>3. CASE pending' # {}
    BY <1>1, <1>3 DEF AbsNext, AbsVars, Danger
  <1> QED
    BY <1>2, <1>3

\* A pass ends by letting go of a fence nothing is on its way under, or by keeping it.
LEMMA LeavesFence ==
  ASSUME BaseInv, Finish \/ Crash \/ Recover
  PROVE  AbsNext
  <1>1. UNCHANGED Danger /\ req.token \in Token
    BY DEF BaseInv, TypeOK, Request, Finish, Crash, Recover, Danger
  <1>2. CASE Finish
    <2>1. fence = "held" /\ (fence' = "stranded" \/ (fence' = "free" /\ pending = {}))
      BY <1>2 DEF Finish, BaseInv, TypeOK, FenceInv, CallInv, At
    <2> QED
      BY <1>1, <2>1 DEF AbsNext, Owner, Danger, Fence!Next, Fence!LetGo, Fence!Strand
  <1>3. CASE Crash
    BY <1>1, <1>3 DEF AbsNext, AbsVars, Crash, BaseInv, TypeOK, Owner, Fence!Next, Fence!Strand
  <1>4. CASE Recover
    BY <1>1, <1>4 DEF AbsNext, Recover, Owner, Danger, Fence!Next, Fence!Recover
  <1> QED
    BY <1>2, <1>3, <1>4

\* Every other step of a pass, and the operator's cleaning, is under the fence as it is.
LEMMA StaysUnderFence ==
  ASSUME BaseInv,
         \/ UNCHANGED vars \/ Reserve \/ Export \/ StageImporting \/ ImportReplies \/ Verify
         \/ StageSwitching \/ Switch \/ SourceDeleteReplies \/ Release \/ RemoveArchive \/ Answer
         \/ Keep \/ TargetDeleteReplies \/ UndoReservations \/ UndoRecord
         \/ \E a \in Agent : OperatorCleans(a)
  PROVE  AbsNext
  <1>1. UNCHANGED <<fence, req, pending>>
    BY DEF vars, rowVars, flags, Reserve, Export, StageImporting, ImportReplies, Verify, StageSwitching, Switch,
       SourceDeleteReplies, Release, RemoveArchive, Answer, Keep, TargetDeleteReplies, UndoReservations,
       UndoRecord, OperatorCleans
  <1> QED
    BY <1>1 DEF AbsNext, AbsVars, Owner, Danger

\* Whatever fails, MigrateInstance keeps the promise of the fence it runs under.
THEOREM Refinement == Spec => KeepsTheFence
  <1>1. Init => Fence!Init
    BY DEF Init, Fence!Init, Owner, Danger
  <1>2. BaseInv /\ [Next]_vars => [Fence!Next]_AbsVars
    <2> SUFFICES ASSUME BaseInv, [Next]_vars PROVE AbsNext
      BY DEF AbsNext
    <2> QED
      BY EntersFence, LaunchesAsOwner, LandsOnNode, LeavesFence, StaysUnderFence DEF Next, Step
  <1> QED
    BY <1>1, <1>2, BaseInvariant, PTL DEF Spec, KeepsTheFence, Fence!Spec, AbsVars

-----------------------------------------------------------------------------
(* Theorems: as long as the last read succeeds *)

\* One step of anybody keeps all of it.
LEMMA NextInv == ReadsSucceed /\ MigrationInv /\ [Next]_vars => MigrationInv'
  <1> SUFFICES ASSUME ReadsSucceed, MigrationInv, [Next]_vars PROVE MigrationInv'
    OBVIOUS
  <1>1. BaseInv'
    BY BaseNext DEF MigrationInv
  <1>2. OneGuestWhenFree' /\ WhereInv' /\ PassInv' /\ RecordInv'
    BY FreeStep, WhereStep, PassStep, RecordStep
  <1> QED
    BY <1>1, <1>2 DEF MigrationInv

\* If the last read does not fail, all of MigrationInv holds through calls and
\* statements that fail, calls that come late, restarts, retries and the operator.
THEOREM MigrationInvariant == ReadsSucceed => (Spec => []MigrationInv)
  <1> SUFFICES ASSUME ReadsSucceed PROVE Spec => []MigrationInv
    OBVIOUS
  <1>1. MigrationInv /\ [Next]_vars => MigrationInv'
    BY NextInv
  <1> QED
    BY <1>1, InitInv, PTL DEF Spec

\* Then some node always has the complete guest (MigrateInstance and its deferred
\* cleanup, migration.go).
THEOREM Survival == ReadsSucceed => (Spec => []GuestSurvives)
  <1>1. MigrationInv => GuestSurvives
    BY DEF MigrationInv, WhereInv, OneGuestWhenFree, GuestSurvives
  <1> QED
    BY <1>1, MigrationInvariant, PTL

\* Then, once the fence is free, the guest is on the row's node only and no call
\* that could change this is still to be carried out.
THEOREM OneGuest == ReadsSucceed => (Spec => []OneGuestWhenFree)
  <1>1. MigrationInv => OneGuestWhenFree
    BY DEF MigrationInv
  <1> QED
    BY <1>1, MigrationInvariant, PTL

\* Then an open record keeps the networks of both ends for as long as there is, or
\* may be, something of the guest on another node than the row's.
THEOREM Networks == ReadsSucceed => (Spec => []NetworksReserved)
  <1>1. MigrationInv => NetworksReserved
    BY DEF MigrationInv, BaseInv, RecordInv, NetworksReserved, TypeOK, Request
  <1> QED
    BY <1>1, MigrationInvariant, PTL
================================================================================
