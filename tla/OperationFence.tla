---------------------------- MODULE OperationFence ----------------------------
(***************************************************************************)
(* The lifecycle fence of ONE instance (internal/service/operation_guard.go)*)
(* and the idempotency records of its callers.                             *)
(*                                                                         *)
(* Every table and map the guard touches is keyed by the instance id, so   *)
(* the fences of two instances never interact and one is enough.  A fence  *)
(* has two halves: the process-local flag activeOperations[id] (mem) and   *)
(* the busy_operation column of the instance row (busy).  Requests are the *)
(* goroutines of HTTP handlers; each takes one pass through the guard, and *)
(* a retry is another request with the same caller id.  Every database     *)
(* statement is a step of its own, and may fail.                           *)
(***************************************************************************)
EXTENDS Naturals, Sequences

CONSTANTS
    Request,        \* handler goroutines, one pass each
    Token,          \* the values newOperationID can draw
    Ref,            \* caller operation ids (X-Levis-Operation-ID)
    NoRef,          \* no header: purely internal operation
    CallerAction,   \* actions that may carry an id: power:*, resize, migrate
    Retaining,      \* those that keep the fence when the agent call fails
    Free,           \* busy_operation = ''
    Faults          \* TRUE: statements may fail and the master may stop

Create == "create"
Purge == "purge"
Action == CallerAction \cup {Create, Purge}

ASSUME FenceAssumption ==
    /\ NoRef \notin Ref
    /\ Free \notin Token
    /\ Retaining \subseteq CallerAction
    /\ Create \notin CallerAction
    /\ Purge \notin CallerAction
    /\ Faults \in BOOLEAN

VARIABLES
    up,      \* the master process is running
    row,     \* the instance row: "absent", "present" or "deleted"
    busy,    \* instances.busy_operation
    mem,     \* activeOperations[id]
    issued,  \* tokens drawn so far (random: never drawn twice)
    recs,    \* instance_operations rows of each caller id, in id order
    pc,      \* where each request is
    arg,     \* its caller id and action
    tok,     \* op.token, or the token of the record being re-claimed
    err,     \* *result # nil
    retain,  \* op.retain
    job,     \* the request's work on the node
    overtaken,  \* history: ids of which a success was recorded after another
                \* request had taken the record for one of interrupted work
    stuck       \* history: requests one of whose statements on the fence failed

vars == <<up, row, busy, mem, issued, recs, pc, arg, tok, err, retain, job,
          overtaken, stuck>>
history == <<overtaken, stuck>>

OpRecord == [action: CallerAction, token: Token,
             state: {"running", "succeeded", "failed"}]

Ended == {"replayed", "done", "lost"}
Holding == {"record", "start", "giveback", "run", "wait", "log", "complete", "settle"}
Before == {"lookup", "check", "reset", "lock", "claim"}
PC == {"idle", "unlock"} \cup Before \cup Holding \cup Ended

TypeOK ==
    /\ up \in BOOLEAN
    /\ row \in {"absent", "present", "deleted"}
    /\ busy \in Token \cup {Free}
    /\ mem \in BOOLEAN
    /\ issued \in SUBSET Token
    /\ recs \in [Ref -> Seq(OpRecord)]
    /\ pc \in [Request -> PC]
    /\ arg \in [Request -> [ref: Ref \cup {NoRef}, action: Action]]
    /\ tok \in [Request -> Token \cup {Free}]
    /\ err \in [Request -> BOOLEAN]
    /\ retain \in [Request -> BOOLEAN]
    /\ job \in [Request -> {"none", "working", "done"}]
    /\ overtaken \in SUBSET Ref
    /\ stuck \in SUBSET Request

\* The instance has yet to be created, or is there and idle.
Init ==
    /\ up = TRUE
    /\ row \in {"absent", "present"}
    /\ busy = Free
    /\ mem = FALSE
    /\ issued = {}
    /\ recs = [f \in Ref |-> <<>>]
    /\ pc = [r \in Request |-> "idle"]
    /\ arg = [r \in Request |-> [ref |-> NoRef, action |-> Create]]
    /\ tok = [r \in Request |-> Free]
    /\ err = [r \in Request |-> FALSE]
    /\ retain = [r \in Request |-> FALSE]
    /\ job = [r \in Request |-> "none"]
    /\ overtaken = {}
    /\ stuck = {}

-----------------------------------------------------------------------------
(* Helpers: a request r moves on, or leaves with an error. *)

At(r, p) == up /\ pc[r] = p
Goto(r, p) == pc' = [pc EXCEPT ![r] = p]
Fail(r, p) == Goto(r, p) /\ err' = [err EXCEPT ![r] = TRUE]

\* One of the statement's outcomes is an error returned by the database.
Fault == Faults

HasRef(r) == arg[r].ref # NoRef
Records(r) == recs[arg[r].ref]

\* The rows beginOperationWithRef reads: (caller id, instance), whatever the action.
Found(r) == Records(r)

-----------------------------------------------------------------------------
(* beginOperationWithRef *)

\* A handler is entered.  beginOperation passes no caller id.
Arrive(r, f, a) ==
    /\ At(r, "idle")
    /\ f # NoRef => a \in CallerAction
    /\ arg' = [arg EXCEPT ![r] = [ref |-> f, action |-> a]]
    /\ Goto(r, IF f = NoRef THEN "lock" ELSE "lookup")
    /\ UNCHANGED <<up, row, busy, mem, issued, recs, tok, err, retain, job, history>>

\* The record is read: the first row, by id, of (caller id, instance).
Lookup(r) ==
    /\ At(r, "lookup")
    /\ \/ /\ Found(r) = <<>>
          /\ Goto(r, "lock")
          /\ UNCHANGED <<tok, err>>
       \/ /\ Found(r) # <<>>
          /\ Head(Found(r)).action = arg[r].action
          /\ Head(Found(r)).state = "succeeded"
          /\ Goto(r, "replayed")
          /\ UNCHANGED <<tok, err>>
       \/ /\ Found(r) # <<>>
          /\ Head(Found(r)).action = arg[r].action
          /\ Head(Found(r)).state = "running"
          /\ tok' = [tok EXCEPT ![r] = Head(Found(r)).token]
          /\ Goto(r, "check")
          /\ UNCHANGED err
       \/ /\ \/ Fault
             \/ /\ Found(r) # <<>>
                /\ \/ Head(Found(r)).action # arg[r].action
                   \/ Head(Found(r)).state = "failed"
          /\ Fail(r, "done")
          /\ UNCHANGED tok
    /\ UNCHANGED <<up, row, busy, mem, issued, recs, arg, retain, job, history>>

\* A running record: is its fence still held?  A statement later than Lookup.
CheckFence(r) ==
    /\ At(r, "check")
    /\ \/ busy # tok[r] /\ Goto(r, "reset") /\ UNCHANGED err
       \/ (busy = tok[r] \/ Fault) /\ Fail(r, "done")
    /\ UNCHANGED <<up, row, busy, mem, issued, recs, arg, tok, retain, job, history>>

\* "Fence gone (crash/recovery)": the record is set to running and re-claimed.
ResetRecord(r) ==
    /\ At(r, "reset")
    /\ \/ /\ recs' = [recs EXCEPT ![arg[r].ref][1].state = "running"]
          /\ Goto(r, "lock")
          /\ UNCHANGED err
       \/ Fault /\ Fail(r, "done") /\ UNCHANGED recs
    /\ UNCHANGED <<up, row, busy, mem, issued, arg, tok, retain, job, history>>

-----------------------------------------------------------------------------
(* claimFence *)

\* The in-memory half, under opMu.
LockMemory(r) ==
    /\ At(r, "lock")
    /\ \/ ~mem /\ mem' = TRUE /\ Goto(r, "claim") /\ UNCHANGED err
       \/ mem /\ Fail(r, "done") /\ UNCHANGED mem
    /\ UNCHANGED <<up, row, busy, issued, recs, arg, tok, retain, job, history>>

\* Slip: the update is not conditioned on an empty busy_operation.
TakeTokenBlindly(r, t) ==
    /\ row = "present"
    /\ IF tok[r] = Free THEN t \in Token \ issued ELSE t = tok[r]
    /\ busy' = t
    /\ issued' = issued \cup {t}
    /\ tok' = [tok EXCEPT ![r] = t]

\* The SQL half: UPDATE ... SET busy_operation = token WHERE busy_operation = ''.
\* With reuseToken the record's token is taken again and no record is inserted.
TakeToken(r, t) ==
    /\ row = "present" /\ busy = Free
    /\ IF tok[r] = Free THEN t \in Token \ issued ELSE t = tok[r]
    /\ busy' = t
    /\ issued' = issued \cup {t}
    /\ tok' = [tok EXCEPT ![r] = t]

ClaimSQL(r) ==
    /\ At(r, "claim")
    /\ \/ /\ \E t \in Token : TakeToken(r, t)
          /\ \/ /\ Goto(r, IF HasRef(r) /\ tok[r] = Free THEN "record" ELSE "start")
                /\ UNCHANGED err
                /\ UNCHANGED stuck
             \/ Fault /\ Fail(r, "unlock")    \* applied, but the reply was lost
                /\ stuck' = stuck \cup {r}
       \/ /\ row # "present" \/ busy # Free \/ Fault
          /\ Fail(r, "unlock")
          /\ UNCHANGED <<busy, issued, tok, stuck>>
    /\ UNCHANGED <<up, row, mem, recs, arg, retain, job, overtaken>>

\* The unique index is on (caller id, instance, action).
Registered(r) == \E i \in DOMAIN Records(r) : Records(r)[i].action = arg[r].action
NewRecord(r) == [action |-> arg[r].action, token |-> tok[r], state |-> "running"]

InsertRecord(r) ==
    /\ At(r, "record")
    /\ \/ /\ ~Registered(r)
          /\ recs' = [recs EXCEPT ![arg[r].ref] = Append(@, NewRecord(r))]
          /\ \/ Goto(r, "start") /\ UNCHANGED err
             \/ Fault /\ Fail(r, "giveback")    \* applied, but the reply was lost
       \/ /\ Registered(r) \/ Fault
          /\ Fail(r, "giveback")
          /\ UNCHANGED recs
    /\ UNCHANGED <<up, row, busy, mem, issued, arg, tok, retain, job, history>>

\* phase("start"): a log row that must be written.
LogStart(r) ==
    /\ At(r, "start")
    /\ \/ Goto(r, "run") /\ UNCHANGED err
       \/ Fault /\ Fail(r, "giveback")
    /\ UNCHANGED <<up, row, busy, mem, issued, recs, arg, tok, retain, job, history>>

\* release(): UPDATE ... SET busy_operation = '' WHERE busy_operation = token.
\* A statement that fails, applied or not, is an error of the operation.
Release(r) ==
    LET freed == IF busy = tok[r] THEN Free ELSE busy IN
    \/ busy' = freed /\ UNCHANGED <<err, stuck>>
    \/ /\ Fault
       /\ busy' \in {freed, busy}
       /\ err' = [err EXCEPT ![r] = TRUE]
       /\ stuck' = stuck \cup {r}

\* Slip: the early return forgets unlockMemory.
GiveBackKeepsFlag(r) ==
    /\ At(r, "giveback")
    /\ Release(r)
    /\ Goto(r, "done")
    /\ UNCHANGED <<up, row, mem, issued, recs, arg, tok, retain, job, overtaken>>

GiveBack(r) ==
    /\ At(r, "giveback")
    /\ Release(r)
    /\ Goto(r, "unlock")
    /\ UNCHANGED <<up, row, mem, issued, recs, arg, tok, retain, job, overtaken>>

\* unlockMemory(): unconditional, whoever set the flag.
UnlockMemory(r) ==
    /\ At(r, "unlock")
    /\ mem' = FALSE
    /\ Goto(r, "done")
    /\ UNCHANGED <<up, row, busy, issued, recs, arg, tok, err, retain, job, history>>

-----------------------------------------------------------------------------
(* The operation body, between the claim and finish *)

\* CreateInstance: the row is born fenced; the in-memory flag is never set.
CreateRow(r) ==
    /\ At(r, "idle")
    /\ row = "absent"
    /\ \E t \in Token \ issued :
           /\ row' = "present"
           /\ busy' = t
           /\ issued' = issued \cup {t}
           /\ tok' = [tok EXCEPT ![r] = t]
    /\ Goto(r, "run")
    /\ UNCHANGED <<up, mem, recs, arg, err, retain, job, history>>

\* The body gives up before it calls the agent (validation, storage, SQL).
Reject(r) ==
    /\ At(r, "run")
    /\ Fail(r, "log")
    /\ UNCHANGED <<up, row, busy, mem, issued, recs, arg, tok, retain, job, history>>

\* The agent is called; the work starts on the node.
Send(r) ==
    /\ At(r, "run")
    /\ job' = [job EXCEPT ![r] = "working"]
    /\ Goto(r, "wait")
    /\ UNCHANGED <<up, row, busy, mem, issued, recs, arg, tok, err, retain, history>>

\* The node finishes, whether or not anyone is still waiting.
JobEnds(r) ==
    /\ job[r] = "working"
    /\ job' = [job EXCEPT ![r] = "done"]
    /\ UNCHANGED <<up, row, busy, mem, issued, recs, pc, arg, tok, err, retain, history>>

\* The agent's answer arrives and its result is stored.  A purge deletes the
\* row.  A statement that fails here is an error; some retaining operations
\* (resize, restore, migrate) then retain and some (reinstall) do not.
Reply(r) ==
    /\ At(r, "wait")
    /\ job[r] = "done"
    /\ \/ /\ Goto(r, "log")
          /\ row' = IF arg[r].action = Purge THEN "deleted" ELSE row
          /\ busy' = IF arg[r].action = Purge THEN Free ELSE busy
          /\ UNCHANGED <<err, retain>>
       \/ /\ Fault
          /\ Fail(r, "log")
          /\ \E k \in BOOLEAN :
                 /\ k => arg[r].action \in Retaining
                 /\ retain' = [retain EXCEPT ![r] = k]
          /\ UNCHANGED <<row, busy, history>>
    /\ UNCHANGED <<up, mem, issued, recs, arg, tok, job, history>>

\* The call fails or its answer is lost: the work may still be running.
CallFails(r) ==
    /\ At(r, "wait")
    /\ Fail(r, "log")
    /\ retain' = [retain EXCEPT ![r] = arg[r].action \in Retaining]
    /\ UNCHANGED <<up, row, busy, mem, issued, recs, arg, tok, job, history>>

-----------------------------------------------------------------------------
(* finish *)

\* The "complete" log row; without it the fence is retained.
LogComplete(r) ==
    /\ At(r, "log")
    /\ \/ Goto(r, "complete") /\ UNCHANGED <<err, retain>>
       \/ Fault /\ Fail(r, "complete") /\ retain' = [retain EXCEPT ![r] = TRUE]
    /\ UNCHANGED <<up, row, busy, mem, issued, recs, arg, tok, job, history>>

\* Every record of (caller id, instance) gets the terminal state.
Completed(r) ==
    [recs EXCEPT ![arg[r].ref] =
        [i \in DOMAIN @ |-> [@[i] EXCEPT !.state = IF err[r] THEN "failed" ELSE "succeeded"]]]

\* Another request read the id's record while it said running, and is about to
\* claim the fence again for it.
Overtaking(r, q) ==
    q # r /\ arg[q].ref = arg[r].ref /\ tok[q] # Free /\ pc[q] \in Before

\* The statement that records the outcome is applied.
RecordOutcome(r) ==
    /\ recs' = Completed(r)
    /\ overtaken' = overtaken \cup
           {f \in {arg[r].ref} : ~err[r] /\ \E q \in Request : Overtaking(r, q)}

\* Slip: only failures are recorded.
CompleteFailuresOnly(r) ==
    /\ At(r, "complete")
    /\ IF HasRef(r) /\ err[r] THEN RecordOutcome(r) ELSE UNCHANGED <<recs, overtaken>>
    /\ Goto(r, "settle")
    /\ UNCHANGED <<up, row, busy, mem, issued, arg, tok, err, retain, job, stuck>>

\* The outcome is recorded before the fence is released.  A statement that
\* fails, applied or not, retains the fence.
CompleteRecord(r) ==
    /\ At(r, "complete")
    /\ \/ /\ IF HasRef(r) THEN RecordOutcome(r) ELSE UNCHANGED <<recs, overtaken>>
          /\ Goto(r, "settle")
          /\ UNCHANGED <<err, retain>>
       \/ /\ Fault /\ HasRef(r)
          /\ RecordOutcome(r) \/ UNCHANGED <<recs, overtaken>>
          /\ Fail(r, "settle")
          /\ retain' = [retain EXCEPT ![r] = TRUE]
    /\ UNCHANGED <<up, row, busy, mem, issued, arg, tok, job, stuck>>

\* Slip: retain is not looked at.
SettleAlwaysReleases(r) ==
    /\ At(r, "settle")
    /\ Release(r)
    /\ Goto(r, "unlock")
    /\ UNCHANGED <<up, row, mem, issued, recs, arg, tok, retain, job, overtaken>>

\* Slip: any error keeps the fence, not only a retained one.
SettleKeepsOnError(r) ==
    /\ At(r, "settle")
    /\ IF err[r] THEN UNCHANGED <<busy, err, stuck>> ELSE Release(r)
    /\ Goto(r, "unlock")
    /\ UNCHANGED <<up, row, mem, issued, recs, arg, tok, retain, job, overtaken>>

\* A retained fence is left for reconciliation, and recovery_error says why, if
\* it can be written; otherwise the fence is released.
Retained(r) ==
    /\ UNCHANGED <<busy, stuck>>
    /\ UNCHANGED err \/ (Fault /\ err' = [err EXCEPT ![r] = TRUE])

Settle(r) ==
    /\ At(r, "settle")
    /\ IF retain[r] THEN Retained(r) ELSE Release(r)
    /\ Goto(r, "unlock")
    /\ UNCHANGED <<up, row, mem, issued, recs, arg, tok, retain, job, overtaken>>

-----------------------------------------------------------------------------
(* The process and its operator *)

\* The master stops, anywhere: requests and the flag are gone, the rows and
\* the node's work are not.
MasterStops ==
    /\ Faults /\ up
    /\ up' = FALSE
    /\ mem' = FALSE
    /\ pc' = [r \in Request |-> IF pc[r] \in Ended \cup {"idle"} THEN pc[r] ELSE "lost"]
    /\ UNCHANGED <<row, busy, issued, recs, arg, tok, err, retain, job, history>>

\* Slip: stale locks are cleared at start-up.
MasterStartsUnlocking ==
    /\ ~up
    /\ up' = TRUE
    /\ busy' = Free
    /\ UNCHANGED <<row, mem, issued, recs, pc, arg, tok, err, retain, job, history>>

MasterStarts ==
    /\ ~up
    /\ up' = TRUE
    /\ UNCHANGED <<row, busy, mem, issued, recs, pc, arg, tok, err, retain, job, history>>

\* Slip: the fence is cleared without looking at the node.
OperatorClearsBlindly ==
    /\ ~up
    /\ busy # Free
    /\ busy' = Free
    /\ UNCHANGED <<up, row, mem, issued, recs, pc, arg, tok, err, retain, job, history>>

\* Manual recovery: with the master stopped, and after verifying on the node
\* that nothing is running, the operator clears busy_operation.
OperatorClears ==
    /\ ~up
    /\ busy # Free
    /\ \A r \in Request : job[r] # "working"
    /\ busy' = Free
    /\ UNCHANGED <<up, row, mem, issued, recs, pc, arg, tok, err, retain, job, history>>

Step(r) ==
    \/ Lookup(r) \/ CheckFence(r) \/ ResetRecord(r)
    \/ LockMemory(r) \/ ClaimSQL(r) \/ InsertRecord(r) \/ LogStart(r)
    \/ GiveBack(r) \/ UnlockMemory(r)
    \/ Reject(r) \/ Send(r) \/ Reply(r) \/ CallFails(r)
    \/ LogComplete(r) \/ CompleteRecord(r) \/ Settle(r)

Next ==
    \/ \E r \in Request :
           \/ \E f \in Ref \cup {NoRef}, a \in CallerAction \cup {Purge} : Arrive(r, f, a)
           \/ CreateRow(r)
           \/ Step(r)
           \/ JobEnds(r)
    \/ MasterStops
    \/ MasterStarts
    \/ OperatorClears

Spec == Init /\ [][Next]_vars

-----------------------------------------------------------------------------
(* Properties *)

\* Two requests are never past the claim of the same fence: operation bodies
\* of one instance do not overlap, whatever fails or restarts.
FenceExclusive ==
    \A r, q \in Request : pc[r] \in Holding /\ pc[q] \in Holding => r = q

\* "A crashed import may still be running": while the work of a retaining
\* operation runs on the node, the row is there and carries its token, so no
\* other operation can start, across timeouts, master restarts and recovery.
DestructiveWorkFenced ==
    \A r \in Request :
        job[r] = "working" /\ arg[r].action \in Retaining
            => row = "present" /\ busy = tok[r]

\* A fence is never stolen: it goes away only by the hand of the request that
\* holds it and does not retain it, or while the node does nothing for the
\* instance.
FenceNeverStolen ==
    [][busy # Free /\ busy' # busy =>
          /\ busy' = Free
          /\ \/ \E r \in Request : pc[r] \in Holding /\ tok[r] = busy /\ ~retain[r]
             \/ ~up /\ \A r \in Request : job[r] # "working"]_vars

\* The in-memory flag is never leaked: someone who will delete it is alive.
\* (A leaked flag would refuse every operation until the master restarts.)
MemoryFlagOwned ==
    mem => \E r \in Request : pc[r] \in {"claim", "unlock"} \cup Holding

\* The caller has been told that its operation succeeded, the first time or again.
Succeeded(r) == pc[r] = "replayed" \/ (pc[r] = "done" /\ ~err[r])
SameOperation(r, q) ==
    r # q /\ HasRef(r) /\ arg[r] = arg[q]
CallsAgent(r) == job[r] = "none" /\ job'[r] = "working"

\* The idempotency promise as the code keeps it: once a caller has been told of
\* success, no request with the same id and action calls the agent again,
\* whatever fails, restarts or overlaps.  The one way out is a retry that had
\* read the record before the success was recorded (operation_guard.go:104) and
\* looks for the fence after it was released (:115).
NoRerunAfterSuccess ==
    [][\A r, q \in Request :
          SameOperation(r, q) /\ Succeeded(q) /\ arg[q].ref \notin overtaken
              => ~CallsAgent(r)]_vars

\* The promise as model.InstanceOperation words it, without that exception: "a
\* retried request with the same id is matched to the original operation instead
\* of re-running its destructive RPCs".
SuccessIsFinal ==
    [][\A r, q \in Request :
          SameOperation(r, q) /\ Succeeded(q) => ~CallsAgent(r)]_vars

\* A fence does not stay behind by accident: a token in busy_operation is that of
\* a request at work, or of one that chose to retain it, was cut off by a stop of
\* the master, or saw its own statement on the fence fail.  Whatever else goes
\* wrong, an operation that is over has given the instance back.
FenceAccounted ==
    busy # Free =>
        \E r \in Request :
            /\ tok[r] = busy
            /\ pc[r] \in Holding \cup {"lost"} \/ retain[r] \/ r \in stuck

-----------------------------------------------------------------------------
(* The inductive invariant behind the safety properties *)

\* Requests that have not called the agent yet.
NotSent == {"idle", "record", "start", "giveback", "run"} \cup Before

\* The holder's token is the one in the row, until it deletes the row.
HolderOwnsRow ==
    \A r \in Request :
        pc[r] \in Holding =>
            /\ tok[r] \in Token
            /\ busy = tok[r] \/ (row = "deleted" /\ pc[r] \in {"log", "complete", "settle"})

NoRowNoFence == row # "present" => busy = Free

\* What is true of a request at each point of its pass.
PassInv ==
    \A r \in Request :
        /\ pc[r] \in NotSent => job[r] = "none" /\ ~retain[r]
        /\ pc[r] = "wait" => ~retain[r]
        /\ ~up => pc[r] \in Ended \cup {"idle"}
        /\ arg[r].ref # NoRef => arg[r].action \in CallerAction
        /\ pc[r] \in {"lookup", "check", "reset", "record"} => arg[r].ref \in Ref
        /\ pc[r] \in {"check", "reset"} => tok[r] \in Token /\ recs[arg[r].ref] # <<>>

\* Dangerous work belongs to the fence's holder, to a request that will retain
\* the fence, or to one that has left it behind.
DangerInv ==
    \A r \in Request :
        job[r] = "working" /\ arg[r].action \in Retaining =>
            /\ row = "present" /\ busy = tok[r] /\ tok[r] \in Token
            /\ \A q \in Request : pc[q] \in Holding => q = r
            /\ \/ pc[r] \in {"wait", "unlock", "done", "lost"}
               \/ pc[r] \in {"log", "complete", "settle"} /\ retain[r]

FenceInv ==
    /\ TypeOK
    /\ FenceExclusive
    /\ HolderOwnsRow
    /\ NoRowNoFence
    /\ PassInv
    /\ DangerInv

-----------------------------------------------------------------------------
(* Refinement: the guard implements an exclusive fence. *)

Owner ==
    IF \E r \in Request : pc[r] \in Holding
    THEN CHOOSE r \in Request : pc[r] \in Holding
    ELSE IF busy # Free THEN "stranded"
    ELSE IF row = "deleted" THEN "gone" ELSE "nobody"

Danger == {r \in Request : job[r] = "working" /\ arg[r].action \in Retaining}

Fence == INSTANCE ExclusiveFence WITH
             owner <- Owner, danger <- Danger,
             Nobody <- "nobody", Stranded <- "stranded", Gone <- "gone"

\* The two halves of the guard, the records, failures and restarts together
\* behave as one exclusive fence.
ImplementsExclusiveFence == Fence!Spec

=============================================================================
