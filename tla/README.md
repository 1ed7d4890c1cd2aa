# Verification of Virtualis

TLA+ models of the Virtualis master (Go, `internal/`), checked with TLC; every safety
property that a run checks is also proved with TLAPS. The master keeps instances (virtual
machines), their networks and their owners in an SQL database and drives one
agent per node over HTTP. Everything that makes it hard happens between those
two: a statement commits and the call after it fails, a call times out and is
carried out anyway, the process dies in the middle, and another handler starts
on what it thinks is an idle instance.

## 1. The system

| Component | State | Operations | Interacts with | What is hard | Correct when |
|---|---|---|---|---|---|
| Lifecycle fence, `service/operation_guard.go` | `activeOperations` map, `instances.busy_operation`, `instance_operations`, log rows | `beginOperation[WithRef]`, `claimFence`, `finish`, `release`, `unlockMemory` | every mutating handler | two-level lock, retries of one id, partial failure, crash, manual recovery | operation bodies never overlap; destructive work is fenced until the node is quiet; a success is not run again |
| Instance lifecycle, `service/virtualis.go`, `snapshot_restore.go`, `backup_restore.go`, `resize.go` | instance row: status, `ssh_ready`, `lifecycle_generation` | create, power, reinstall, restores, network, status | fence, agent, watchers | late answers, a guest replaced under a reader | the row speaks of the guest that is on the node |
| ssh watchers, `watchSSHReady` | one goroutine per reinstall | poll, ask, conditioned write | instance row, agent | stale reply written after a replacement | only the current guest is marked ready |
| Recycle bin, `service/trash.go`, `handler/handler.go` | `trashed_at`, `purge_after`, retention setting | recycle, restore, purge, sweep | fence, agent, scheduler | a sweep works from an old list | recycled means stopped and untouched; a purge leaves no guest; what is due goes |
| Migration, `service/migration.go` | migration record and stage, archive, reservations on both nodes | one long handler and its deferred cleanup | fence, pools, NAT, VPC, two agents | fifteen points of failure, uncertain outcomes | the guest survives, is in one place, nothing leaks |
| Address pools and NAT, `ippool.go`, `dedicated_*.go`, `virtualis.go` | pool entries, mappings | add, edit, delete, assign, release, allocate | create, migrate, purge | read-then-write races | one owner per address and port |
| VPCs, `vpc.go` | row state creating/available/error/deleting | create, delete, reserve | create, migrate, agent | crash between the state and the call | no reference to a network that is going |
| Security groups and firewall, `security_group*.go`, `firewall.go` | group revision, bindings, `firewall_pending`, revision | edit, bind, synchronise | fence, agent | stale revision, failed application | what is not applied is marked pending |
| Agents, `service/agent.go` | token hash, token cache, status, last seen | create, rotate, authenticate, heartbeat, stale check | every agent call | cache against table, lost update | no call with a replaced token; caches and status mend themselves |
| Sessions, `auth/`, `service/user.go`, `handler/auth.go` | session version, revocation cache and table | login, logout, change password | middleware | several processes, clean-up, whole seconds | a revoked session and an old password stay out, a fresh session is let in |
| Login limiter, `loginlimit/` | counters per account and source | check, failure, success, sweep | login handler | check and record are apart; shift of the lock time | no more tries than allowed |
| Captcha and VNC tickets | one-shot tickets with expiry | issue, verify | handlers | eviction at the limit | used once at most |
| Images, `image_download.go` | image row, file | upload, download, delete | create | goroutine lost on restart, statements apart from files | what a row offers is whole |
| API keys, `apikey.go` | the single site key | create, rotate, revoke | middleware | two creates on an empty table | one active key |
| Snapshots and backups | archive rows and files | create, delete, restore | fence, agent, storage | file and row are apart; calls given up | no row without its file, no file without a row after a purge, no half-written disk without its fence |
| Agent (another program) | guests on a node | what the master calls | master | late effects | external |

`PROJECT.json` lists all components with their sources, and under `hazards`
the places in the code where a test would hardly reach what can go wrong.

## 2. The modules

| Module | Models | Kind |
|---|---|---|
| `OperationFence` | the guard for one instance, statement by statement | implementation |
| `ExclusiveFence` | what the guard promises its callers, and what they must keep | abstract specification |
| `OperationFenceProofs` | theorems about `OperationFence` | TLAPS proofs |
| `InstanceLifecycle` | the operations of one instance, guest, watchers, recycle bin, sweeper | composition over an exclusive fence |
| `InstanceLifecycleProofs` | theorems about `InstanceLifecycle` | TLAPS proofs |
| `Migration` | one instance moved between nodes, both nodes' state | composition over an exclusive fence |
| `MigrationProofs` | theorems about `Migration` | TLAPS proofs |
| `AddressPool` | the dedicated addresses of one node | instances, administrators and migrations side by side |
| `AddressPoolProofs` | theorems about `AddressPool` | TLAPS proofs |
| `VPC` | one private network name on one node | instances, administrators and migrations side by side |
| `VPCProofs` | theorems about `VPC` | TLAPS proofs |
| `FirewallSync` | groups of rules, bindings and what the nodes were given | requests side by side over the fences and row locks |
| `FirewallSyncProofs` | theorems about `FirewallSync` | TLAPS proofs |
| `AgentTokens` | the token and the status of one node, the caches of the replicas | rotations, beats, calls and lists side by side |
| `TokenRequirements` | what a call to a node must fulfil (`NoReplacedToken`) | property, apart so that `CredentialsProofs` can name it |
| `Sessions` | the sessions of one account over several replicas | requests, clean-ups and restarts side by side |
| `CredentialsProofs` | theorems about `Sessions`, and about `AgentTokens`, which it instantiates | TLAPS proofs |
| `Artifacts` | images, snapshots and backups of one instance, rows and files | composition over an exclusive fence; image requests know none |
| `ArtifactsProofs` | theorems about `Artifacts` | TLAPS proofs |
| `MC*` | model-checking instances: symmetry sets, and the scope of `artifacts` | TLC |

**OperationFence.** All tables and maps of the guard are keyed by instance, so
one instance is enough. `busy` is `busy_operation`, `mem` the entry of
`activeOperations`, `recs` the `instance_operations` rows of each caller id. A
request is one pass of one handler, its `pc` names the next statement: `lookup`,
`check` and `reset` are the three statements of `beginOperationWithRef` on an
existing record; `lock`, `claim`, `record`, `start` are `claimFence`; `run`,
`wait` the body with its agent call; `log`, `complete`, `settle`, `unlock` are
`finish`. Every statement may fail, an update may be applied although its answer
is lost, the master may stop between any two statements, and the operator clears
a fence as `operation_guard.go:21-27` prescribes: master stopped, node verified.
Tokens come from a random generator and are not drawn twice. `job` is the work on
the node, which outlives the request that started it. Two histories say where the code gives its
promise up: `overtaken` are the ids of which a success was recorded after another request had taken
the record for one of interrupted work (section 4), `stuck` the requests one of whose statements on the fence
failed.

**InstanceLifecycle.** Takes from OperationFence that one operation owns the
fence at a time (`op`), or that it was left behind (`Stranded`). An operation
runs `run -> wait -> store -> end`: checks, agent call, row update, release. What
distinguishes the operations has an operator per operation: `PowerCalls`,
`ResizeCalls`, ... (what is checked before the agent is called), `Effect` (what
the node does with the guest) and `PowerStores`, `ResizeStores`, ... (what is
written after the answer). A status request is answered from the node and writes the
row under the node and generation it read; a network status request writes nothing.
Guests are numbered, so that
"the row speaks of another guest" can be said. Watchers poll, ask and write in
three steps; the sweeper reads the setting, reads the due ids (at most a hundred, the longest due
first, so that this one may not be among them: `SweepCrowded`) and purges in
three steps; callers interleave with all of them. Two histories say where the code loses track of the
guest: `stale` while `ssh_ready` may speak of a guest that is gone, `misled` for watchers whose answer is of a
guest that was replaced behind the generation.

**Migration.** `MigrateInstance` is one action per statement or call, in the
order of the code; `imported`, `preserve` and `retain` are its flags and
`Cleanup` to `UndoRecord` its deferred function. A call is sent, carried out by
the node at any time (`NodeDoes`), and answered or given up: a call given up
stays in `pending`. A statement that fails may or may not have been applied where
it is a transaction of its own. The operator may clean nodes and clear the
fence, exactly as far as the documented procedure goes: reservations and records
are not touched.

**ExclusiveFence** stands between these three. `OperationFence` implements it (`ImplementsExclusiveFence`): that is
what a handler gets. `InstanceLifecycle` and `Migration` are written over one fence, and keep to it
(`KeepsTheFence`): that is what the handlers owe each other. Their `Owner` is the operation under way or the
migration's token, `stranded` for a fence that was left behind, `gone` for a deleted row. Their `Danger` is the
work that `retain` is there for and that may be running on the node, waited for or given up: a disk replaced
or resized, a guest imported or deleted by a migration. Starts, stops and the deletion of a purge are not
in it, as they are not in the code's `retain`.

**AddressPool.** Several instances, each with its own fence (`op` is the operation
that has it, or `kept`), and requests of administrators (`edit`). `entries` are the
rows of `ip_pool_entries`, `row` is the dedicated address in an instance's row while
the row is on this node, `guest` the address its guest really has. The reads, the
questions to the node and the writes of a handler are separate steps: what
`CreateInstance` or `UpdateIPPoolEntry` read is remembered in `op` or `edit` and
compared, or not, by the conditional update that follows. A migration appears twice,
towards this node (`In...`) and away from it (`Out...`); the other node is left out.
A caller may type an address in instead of taking one from the pool: nothing
reserves it, so the history `typed` remembers those instances and the properties are about
the others.

**VPC.** `state` are the rows that ever had this name on this node, `network` is
the network itself, `ref` the references of instances, `pins` the migration records
that are not closed. Creation and deletion are split where they call the node;
`DeleteMark` and the two `...Reserve` actions are transactions. A migration record without
a source VPC, from before that column existed, is one of the initial states, with
its fence kept and its suspended guest on the network.

**FirewallSync.** Rules are known by the edit that wrote them. `group` are the rules of each
security group, `lock` its row lock (`lockSecurityGroup`, `bindSecurityGroups`), `bound`,
`revision`, `pending` and `local` belong to the instances, `node` is what the node was last
given. A request is one handler; an edit of a group marks the bound instances in its
transaction (`EditWrite`) and then visits them one by one, each under its fence (`EditEach`,
`EditBegin`). A synchronisation reads the row, then the rules, calls the node and compares
the revision (`SyncRead` to `SyncAck`, `SyncMark`). Power, create and status operations
carry the rules too (`Send`) and write the row back through the instance as it was read
(`Store`), which inserts group rules that were replaced meanwhile; the history `rewritten`
remembers those groups. Imports of a migration carry rules as a start does and are left out.

**AgentTokens.** `row` is the node's row with the hash of its token, `cache` the
`agentTokenCache` of each replica, `node` the token the agent runs with. `RotateRead`,
`RotateUpdate` and `RotateCache` are a rotation, `Authenticate`, `BeatCache` and `Heartbeat` the
heartbeat, `CallGet`, `CallCheck`, `CallDrop` and `CallUse` the token of a call (`RPCToken`
and its use), `StaleRead` and `StaleUpdate` the list that marks silent nodes offline. A row
deleted under an operation comes back when that operation writes its instance
(`OperationWrites`); `Rejoin` is the operator giving the agent a token. `replaced` are the
tokens that were stored and overwritten.

**Sessions.** The clock is cut in ticks, `Resolution` of them to the second the claims are
rounded to. A request is a visit: `Arrive` (`ParseToken`), `CheckHot` and `CheckTable` (the
revocation cache and table, in two looks at the clock), `CheckUser` (the account's row), and then a
logout (`LogoutLegacy`, or `Revoke` and `RevokeHot`), a change of password (`VerifyOld` to
`Reread`) or nothing. `Login` and `SetSession` issue a token: the row is read, then the
claims are signed. `era` names the password a row or a token goes back to, so "the old
password" can be spoken of. `Legacy` are tokens from before there were token ids.

**Artifacts.** A disk is fresh from an image, what the guest's work made of it (`Work`), or
half-written (`Part`). `files` is the store on the master, `snaps` what the node has,
`snapRow`, `backup` and `image` the rows. Uploads and downloads (`save`) and deletions (`drop`) of
images need no fence and overlap with creates, reinstalls and purges. Each statement,
call and use of a file is a step that may fail; a snapshot call that was given up may be carried
out later (`late`), a call that replaces the disk is carried out, not carried out or
interrupted, and keeps its fence in doubt. The histories name what is outside a promise:
`revived` are image rows written back after their deletion, `doubted` snapshots a call for which was
given up.

`AddressPool`, `VPC` and `FirewallSync` take a call to be carried out before it is answered or given up, and
a failed statement outside a migration not to have been applied. Configuring an
instance for VPC mode with a bridge typed in and no reference is left out of `VPC`:
`ConfigureInstanceNetwork` accepts it, and such a guest is not protected.

**Naming of slips.** An operator whose comment starts with "Slip:" is a version
of the definition after it with a plausible mistake. It is used by no action; the
`mutants` of `PROJECT.json` put it in the definition's place to see that the
property really depends on that line of code.

## 3. The runs

Deadlock checking is off in all of them: the handlers are finitely many, each
ends, and nothing obliges a caller to come back, so the models do stop.

| Run | Question | Bounds | Result |
|---|---|---|---|
| `fence` | is the two-level guard one exclusive fence, does it implement `ExclusiveFence`, is every token in the row accounted for, is a success run again only for an overlapping retry? | three requests, one caller id or none, overlapping at will; every statement fails or loses its answer, restarts unbounded | holds |
| `fence_retry` | is a success never run again? | two requests, nothing fails | violated |
| `lifecycle` | does a watcher mark only its guest, does `ssh_ready` speak of the guest on the node, is what is recycled quiet, what is purged gone, what is due eventually purged, and do all operations keep to the fence? | all operations, one watcher with one poll, two guests, all faults, fair goroutines | holds |
| `lifecycle_restore` | does the generation keep a late answer from every replaced guest? | five operations, one watcher, three guests, nothing fails | violated |
| `migration` | does the guest survive, once, with its networks, nothing leaking, and does every pass keep to the fence? | three nodes, two migrations, two restarts, calls and statements fail | holds |
| `migration_answer` | the same when the last read fails | | violated |
| `addresses` | does an address from the pool stay with its owner, alone, until the guest is gone, and does one taken out of service go to nobody? | two instances, two addresses, two entries, one administrator | holds |
| `vpc` | does a network outlive its references and guests, and is every available row's network there? | three rows of one name, two instances, two administrators | holds |
| `firewall` | does a running instance that is not marked pending have its groups' present rules, and is an edit of its own rules applied as a whole? | one instance, one group, three requests, two edits | holds |
| `agents` | does no call go out with a token replaced before it began, and do caches and status mend themselves? | two replicas, two tokens, restarts and rotations unbounded but for the tokens | holds |
| `sessions` | do ended sessions and old passwords stay out, and fresh sessions get in? | two replicas, two requests, a token with an id and one without, three ticks of two to the second, two versions | holds |
| `artifacts` | is what a row offers whole, is a half-written disk fenced, does a purge leave no file? | one snapshot name, one backup, two images, two files, one write of the guest; see below | holds |

**Bounds.** Two or three requests show every pairwise race on the guard, and the
third the record of a first met by two others; a fence serves one holder, so
more add nothing new (the theorems hold for any number). `MaxGuest` bounds the
number of guests: with two a watcher or a row can be one guest behind, and every replacement meets every
fault. `Attempts` is 60 in the code; a watcher with one poll left
has been refused or goes on to ask, and is then over. The theorems of section 5 hold for any numbers. Three nodes let a second migration go
on to a node the first did not touch, or back. `MaxCrashes` of two allows a crash
of the retry of a crashed migration. In `addresses`, two instances and one
administrator are enough for each check that is made before somebody else's write;
a pool of two allows it to be full and an entry to be deleted and added again
under another id; an instance with an address typed in beside one with an address from the
pool (`MaxByHand` of one) is the pair the properties are about. In `vpc`, two administrators can be in the same creation and
deletion, and the third row is the name's second reuse. In `firewall`, instances meet only in
their group and a request has the fence of one at a time, so one instance and one group
show every meeting; three requests are a group edit's fan-out beside two others, and two edits
make the older rules differ from the present ones. In `agents`, the race of two replicas over the token and the row needs two of each. In `sessions`,
two requests are every race (a logout or password change and the visit or login beside it);
a life of two ticks lets tokens expire, and the clock starts at one whole second, passes
the middle of it and ends at the next. In `artifacts`, `Scope` separates what does not meet: as long as there are no
snapshots and backups, two images are uploaded, downloaded, deleted and used; once there are, there is at
most one image and nothing happens to it. One image at a time is being saved, deleted or both; the other one may be
there, be chosen and be used. Snapshots and backups never look at an image, and an image's
requests never at them; only the instance's row and its disk are common. `ReadFails` is FALSE: when
the last read of a migration fails, its cleanup also frees the pool entry of an instance
whose row uses it, the same flaw that `migration_answer` shows. With TRUE only `PoolAddressReserved` fails (TLC
finds nothing against the other three, and section 5 proves them).

**Fairness.** Handlers and goroutines run on (weak fairness of their steps): the
Go scheduler guarantees it and every agent call has a timeout. In
`InstanceLifecycle` that is weak fairness of an operation's steps (`Body`), of each watcher, of the sweep, which comes
back every minute, and of time. Callers, the background injection, crashes and the operator are
never obliged to act. `TrashEventuallyPurged` has its premises in the property: from some point on callers
leave the instance alone and retention stays on (a sweep may lose every race with callers that keep the
instance busy), and nothing hinders the sweep any more (`Hindered`: calls and updates that fail, refusals,
crashes, a hundred longer due instances before this one). How many tries have failed before, and at
which step, is open. A hundred instances whose purge always fails would hinder the sweep of all others for ever; no
line says that they do not.

In `AgentTokens` the agent beats every 30 seconds whatever happens, its beats reach every
replica, operators and the page of nodes ask for the list, and what was begun is finished;
`StatusFollows` and `RPCAgain` are about the time after administrators leave the node alone
(`LeftAlone`). The other modules promise no liveness: their requests end, and nothing has to come after.

**Assumption on late effects.** A call that was given up is carried out later
when it replaces the guest; for others the runs take `LateEffects = FALSE`, the
call dies with its connection. With `TRUE` the code's own release of the fence
after a failed power call makes `TrashedIsQuiet` fail: a start arrives after the
recycling. `NoOrphanGuest` fails as well: a create that was given up is carried out after the purge.
The code accepts this (`retain` is set only for destructive calls). The properties of the readiness and of the fence
do without this assumption (section 5).

## 4. What the violated runs show

They are quoted under `findings`:

* `migration_answer`: everything is done, the source is deleted, `preserve` is
  false again, and the read for the answer fails: the deferred function deletes
  the target, the last copy.
* `fence_retry`: the record of a caller's id is read (`running`), then, in another
  statement, the fence. If the first request finishes in between, an overlapping retry finds the fence gone,
  takes that for a crash, resets the record from `succeeded` to `running` and calls the agent again
  (`operation_guard.go:115` against `instance_operation_record.go:8-9`). `NoRerunAfterSuccess`, which holds and is
  proved, says that this is the only way: it excepts the ids that were `overtaken`, no others.
* `lifecycle_restore`: a backup restore replaces the guest without a new `lifecycle_generation`, so a
  watcher's answer about the guest before is still accepted (`backup_restore.go:48` against
  `virtualis.go:587` and `virtualis.go:595-597`). `WatcherMarksItsGuest`, which holds and is proved, says that
  only a replacement that leaves the generation alone gets past it (this one, a reinstall whose update failed, a create
  carried out late): it excepts the watchers that were `misled`.

Some more was met while modelling and has no run of its own.

*The fence and its records.* Two concurrent requests with one id and different actions are both
recorded, since the unique index includes the action. `CreateInstance` never sets the in-memory flag
but its `finish` deletes it, whoever set it, so a waiting request can be left with the SQL half of
its fence only.

*The lifecycle.* A reinstall whose final update fails (`virtualis.go:812`) lets go of its fence with the `ssh_ready` and the
generation of the guest before; an operator who clears the fence of an interrupted restore leaves `ssh_ready` as it was; a create that was given up
may be carried out under a row that a network change has marked ready since. Nothing in the code notices any of them, so
`ReadinessIsCurrent` excepts the rows that are `stale` for one of these reasons or because a misled watcher was
believed, until the next operation clears `ssh_ready`. The watcher of a reinstall starts while the fence is still held
(`virtualis.go:816`) and gives up for good when its first poll sees it (`virtualis.go:565`), so
`ssh_ready` may stay unset although the comment at `virtualis.go:805-806` leaves it to that watcher. A
sweep under way (`trash.go:228-237`) purges an instance that was restored since the list was read, and does not notice that
retention has been switched off, although the comment at `trash.go:207` has it touch nothing then. No property covers these.

*Rules and networks.* A power or status update goes through the instance as it was read and inserts
the group rules that were replaced since, without a mark (`Store` of `FirewallSync`). Nothing applies a
pending firewall again, although the message at `security_group_sync.go:21` says it waits for that. An
update to `available` that is committed but reported as failed lets `CreateVPC` remove a network that may
be in use (excluded by `VPC`'s assumption). The retry of a migration that was cut short
re-claims the fence under the old token, and its record is refused by the unique `operation_id`
(`Retry` of `Migration`).

*Images, snapshots and backups.* A reinstall does not look at the image's status. The deletion of an
image leaves its second file, and one while it is downloaded leaves the file that arrives later; a
failed second file or row update of a download leaves files as well. A download lost with the process
leaves its row `downloading` for ever. A deletion that overlaps with a create leaves an instance that
refers to a deleted image; one that overlaps with a reinstall, restore or purge may be undone by the
instance being written back with its image, and the row is then without a file (`revived`). A crash
between saving a backup's file and its row leaves a file no row names, and so does a row that could
not be updated either way. A snapshot's deletion that was given up leaves the row `available`; restoring it
fails and the fence stays. A backup restore brings the snapshots of the archive.

*Agents.* A beat that was authenticated before a rotation shows the node online
afterwards, although the comment at `agent.go:133-135` has it pending until a beat with the
new token. The deletion of a node is undone by an operation that writes its instance with the node
it read (`virtualis.go:733-734`). `RPCToken`'s drop may drop a newer token; the next beat puts it back.

*Logins.* The limiter's counter for an account starts again after an hour
(`accountWindow`), so the lock of an account that is tried again and again does not grow to the 24 hours
the comment speaks of.

## 5. The proofs

`OperationFenceProofs` proves, from `FenceAssumption` alone and for any sets of
requests, tokens, ids and actions, with faults and crashes:

* `FenceInvariant`: `Spec => []FenceInv`
* `TypeCorrect`, `Exclusion`, `DangerFenced`, `FlagOwned`, `Accounted`: `[]` of `TypeOK`,
  `FenceExclusive`, `DestructiveWorkFenced`, `MemoryFlagOwned`, `FenceAccounted`
* `NeverStolen`: the action property `FenceNeverStolen`
* `Refinement`: `Spec => Fence!Spec`, the guard implements `ExclusiveFence`
* `RecordsInvariant`: `Spec => []RecordsInv`, and from it `NoRerun`: the action property `NoRerunAfterSuccess`

The argument: mutual exclusion does not follow from itself, since a request in its
body says nothing of the row. `HolderOwnsRow` adds that its token is the one in the row, and
that after a purge there is no row; a claim needs a free fence on a row that is
there, so nobody can hold it (`NoRowNoFence` closes the purge's end). Destructive
work may outlive its request, so `DangerInv` says whose it can be: the holder's
before it decides, a request that will retain, or one that is over and left its
token behind. `PassInv` is what each program point knows. `MemoryFlagOwned` is
inductive by itself. The refinement maps the owner to the holder, to `stranded`
when only a token is left, and to `gone` after a purge; each action is an
abstract step or a stutter, by the invariant before and after.

`Accounted` needs that a request whose statement on the fence failed is past its body (`StuckInv`); every other
pass ends with its token released or retained, or is cut off.

`NoRerun` rests on what is `Closed`: an id and action whose record is there, whose first record a lookup does not find
`running`, and with which no request is on its way to the agent. `FirstInv` has it for a record that says
`succeeded`, `ToldInv` for what a caller has been told, and `OwnInv` is what each program point knows of its
own record. What is closed stays closed (`ClosedStays`): a lookup may only answer from it, the unique index refuses
a second record, and a reset comes from a lookup made while the record said `running`. A success closes its
id, unless such a lookup is under way (`SuccessCloses`), which is what `overtaken` remembers.

`VPCProofs` proves, from `VPCAssumption` alone and for any sets of rows, instances and
administrators, with failed statements and calls, crashes and old records:

* `VPCInvariant`: `Spec => []VPCInv`
* `TypeCorrect`, `References`, `GuestsKeepTheirNetwork`, `RowAndNetworkAgree`: `[]` of `TypeOK`,
  `ReferencedIsAvailable`, `GuestKeepsNetwork`, `AvailableIsOnNode /\ NetworkHasRow`

Here `GuestKeepsNetwork` is the point, and it needs three things. A guest on the
network is known (`GuestIsKnown`): by its row's reference or by a migration record; a
guest that comes in is known by the record until the row is switched, one that leaves by
the record until it is deleted at the source. What is known is available (`ReferencedIsAvailable`
for references and targets, `SourcesStay` for sources), because `DeleteMark` refuses in
one transaction what is referred to and every reservation refuses what is not available. And an available row has its network
(`AvailableIsOnNode`), because one request at most works on the network (`OneWorker`, which
rests on the name's unique row, `OneRow`), and that request's row is not available.
`OperationInv` and `RequestInv` are what each program point knows in between.

`CredentialsProofs` proves about `AgentTokens`, for any number of replicas and tokens (the part of
`AgentTokensAssumption` about `MaxToken` is the hypothesis `Bounded`, the other part is in `SessionsAssumption`):

* `TokensInvariant`: `Agent!Spec => []TokenInv`, with `TypeOK` in it
* `OnlyCurrentTokens`: `Agent!Spec => []NoReplacedToken`, the property that run `agents` checks (of `call`, the
  variable that `Agent` is instantiated with)

What `CallCheck` compares with the row says something about a call only if no replaced token
comes back into the row. `RowNotReplaced` says so, and has to say it of the row that an operation
still holds after the deletion; `Unstored` says that a token on its way into the row has never been
there, which a second rotation in flight would otherwise break; `Numbered` gives both their ground.

`CredentialsProofs` proves about `Sessions`, from `SessionsAssumption` alone, for any numbers of replicas, requests
and tokens, any resolution and life:

* `SessionsInvariant`: `Spec => []SessionInv`, with `TypeOK` in it
* `OldPassword`, `FreshToken`, `Logout`: the action properties `OldPasswordStaysOut`,
  `FreshTokenWorks`, `RevokedStaysOut`

`VersionInv` carries the first two: what was signed, or is about to be, under the present version
goes back to the present password, and was signed no earlier than the second of its change; a login that
read the account before the change has a version that is past by the time it signs. `LogoutInv` carries the third: a
token whose logout was answered has ended (`Ended`), and what has ended stays so. Its version is past, or
its row in the table outlives it, or it has expired, which is when a clean-up may take the row;
`RequestInv` is what a request has found out when it goes from one look at the table or the clock to the
next. The three theorems then rest on `OnlyCheckUser`: no other step lets a request in.

`InstanceLifecycleProofs` proves, from `LifecycleAssumption`, for any numbers of guests (two at least),
watchers and polls:

* `TypeCorrect`: `Spec => []TypeOK`, with all faults and late effects
* `GuardInvariant`, and from it `Refinement`: `Spec => KeepsTheFence`, with all faults and late effects
* `QuietInvariant`, and from it `NoOrphans` and `Quiet`: `[]` of `NoOrphanGuest` and `TrashedIsQuiet`, where
  `~LateEffects`
* `ReadinessInvariant`, and from it `Readiness` and `WatchersMark`: `[]ReadinessIsCurrent` and the action
  property `WatcherMarksItsGuest`, with all faults, late effects and kinds of replacement

Only the trash needs the hypothesis: a start, stop or create that arrives after its fence was released is what
section 3 ("Assumption on late effects") says the code does not prevent. What is said of the readiness needs none,
because its exceptions are in the properties: the histories `stale` and `misled`.

Nor does the fence. `GuardInv` is the part of the invariant that says where destructive work can be:
under an operation that waits for it, or given up and then under a fence that was left behind (`LateInv`). Each
action is then an abstract step, by cases: a call that is sent is a `Launch` by the owner, its effect a `Land`, a failure that
retains is a `Strand` that leaves the danger as it is, and the end of an operation is a `LetGo`, which
demands that nothing dangerous is left. An operation that is neither replacing nor resizing
does all that with an empty `Danger`; the purge's row goes while it has the fence, so the owner is
`gone` from then on (`GoneInv`), and the release that follows is a stutter.

`LateInv` and `StageInv` are what a fence is worth: a replacement that may still happen has its fence kept, and
only a call that was carried out gets to the row. `QuietInv` follows the bin and the purge: what is
recycled is stopped, no call is on its way to it and only a restore or a purge gets past its checks; what
is purged has left neither guest nor calls. `ReadinessInv` has the two generations, the row's and
the one a watcher read: `MarkInv` says that a watcher that was told "ready", still has the row's
generation and is not misled was told so of this guest, unless a replacement is under way (`BetweenGuests`), and then
the replacement will raise the generation, or declare the watcher misled, before it lets go of the fence.

`MigrationProofs` proves, from `MigrationAssumption`, for any numbers of nodes, tokens and restarts:

* `BaseInvariant`: `Spec => []BaseInv`, and from it `TypeCorrect`, `NoLeak` (`[]NothingLeaks`) and `Refinement`
  (`Spec => KeepsTheFence`), whatever fails
* `MigrationInvariant`, and from it `Survival`, `OneGuest`, `Networks`: `[]` of `GuestSurvives`,
  `OneGuestWhenFree`, `NetworksReserved`, where `ReadsSucceed`

`ReadsSucceed` is needed for what is said of the guest: `migration_answer` shows that a failure of the read that
ends a migration makes the cleanup delete the last copy. Even then nothing leaks and the fence is kept.
`BaseInv` has for every statement of the handler and of its cleanup on which node the row is (`OwnerInv`), what
`imported` and `preserve` stand for (`FlagInv`), which call may still be on its way (`CallInv`: none when the
fence is free, nor when the pass is about to free it), and which reservations each node has
(`ReservationInv`). A call that is sent is then a `Launch` by the owner, its effect a `Land`, and `Finish` either
strands the fence or lets go of it with nothing launched.

For the guest there is, besides, where it is and what the calls that were given up may still do to it
(`WhereInv`), what the pass has done so far (`PassInv`: a cleanup that would delete the target runs only while
the source is whole), and that the record stays open while there may be a second copy (`RecordInv`), which is
what keeps the networks.

`AddressPoolProofs` proves, from `AddressPoolAssumption`, for any numbers of instances, addresses, entries and
administrators:

* `AddressPoolInvariant`: `Spec => []AddressInv`, and `TypeCorrect`
* `SharedByHand`, `NoOrphans`: `[]` of `SharedOnlyByHand`, `NoOrphanEntry`
* `OwnersKeepTheirs`, `OutOfService`: the action properties `OwnershipKept`, `OutOfServiceStays`
* `AddressesReserved`: `[]PoolAddressReserved`, where `~ReadFails` (the same read as above)

Only the last needs the hypothesis. After that read has failed, the row of an instance may have an address
whose entry was given back; but then its guest was deleted before (`OperationFacts` of `in_release`), and no step
brings a guest to such a row: a create comes from a row that is not there yet, a network change and a
move need the guest. So `Reserved` says of the row what `PoolAddressReserved` says only while there is, or is about
to be, a guest (`InUse`), and of the guest always, which is what keeps two guests apart.

An address is its entry's as long as the entry is owned (`PoolInv`): the code compares entry ids
where the properties speak of addresses, and an entry that is edited or deleted and added again
would separate them. Each step of an instance changes its own or a free entry only, each step of an
administrator a free one (`OperationFacts`, `RequestFacts`), because every conditional update names the
owner it expects. What an instance read before is still true when it writes (the parts of `AddressInv`
about `op`), since no one else may touch an entry it owns. `AddressPoolAssumption` has the
marks that stand for "no address", "on the other node" and "purged" differ from every address.

`FirewallSyncProofs` proves, from `FirewallAssumption` alone, for any sets of instances, groups and requests
and any number of edits, with failures and crashes:

* `FirewallInvariant`: `Spec => []FirewallInv`, with `TypeOK` in it (`TypeCorrect`)
* `GroupRules`, `LocalEdits`, `Bindings`: `[]` of `GroupRulesApplied`, `LocalEditApplied`, `NoDanglingBinding`

The point is `RowInv`: an instance without the mark has the present rules, whatever it is doing and
whoever has its fence, which is more than `GroupRulesApplied` says and what makes it inductive. A change of a group
marks in its own transaction everybody who is bound; the mark is taken off under the fence, and only if the
revision is the one that was read before the rules (`RevisionInv`). `FenceInv` and `CreateInv` make a
request the only one at its instance, `LockInv` makes what it found out about its groups stay true.
`OthersKeep` then says it once for all steps: what one request does leaves the
others' knowledge true if it touches only what it has the fence or lock of, or marks it.

`ArtifactsProofs` proves, from `ArtifactsAssumption` and `ContentAssumption` (an archive, an image's data and half
of either are told apart), for any numbers of snapshots, backups, images and files:

* `ArtifactsInvariant`: `Spec => []ArtifactsInv`, with `TypeOK` in it (`TypeCorrect`)
* `AvailableIsStored`, `HalfWrittenFenced`, `RowsNameTheirSnapshots`, `PurgedIsEmpty`: `[]` of
  `AvailableHasFile`, `HalfWrittenIsFenced`, `SnapshotsAreTheRows`, `PurgeLeavesNothing`

The argument is about who owns a file. A name is drawn once; afterwards a row, an operation under way and a
deletion may all remember it, but only those of one image or one backup (`OwnInv`). A step that
writes or removes a file therefore spoils nothing for anybody else (`ImageStep`, `HeldFileChanged`), and what is left is
what each owner knows of its own: how far an upload, a download or a deletion has come (`ImageInv`), that what a
backup's row offers is what was exported from a whole disk, until its deletion begins
(`BackupInv`, `DiskInv`), and that a file a purge has not removed is still on its list (`PurgeInv`).
`SnapInv` follows the snapshots through a backup: the rows it remembers are of the snapshots in its archive,
and only an import that has not been stored yet is ahead of the rows. `OpInv` is what an
operation's kind and step say of its other fields. What the properties except is excepted here, too: an image whose
row was written back after its deletion (`revived`), and a snapshot of which a call was given up (`doubted`).

TLC checked every one of these invariants on the instances below the runs (`FirewallInv` also with two
instances and with two groups, `AddressInv` with and without `ReadFails`) before it was proved. Only model-checked:

* liveness: `TrashEventuallyPurged`, `RPCAgain`, `StatusFollows` (outside the
  prover's reach).

## 6. Abstractions

* Quantities, names, sizes, formats and permissions are left out: a check on them
  is the choice between `Call` and `Reject`, `Begin` and nothing.
* A transaction is one step, with a failure before it and, where the code would act
  differently, a failure after it has been applied.
* `InstanceLifecycle` folds a purge's files and dependent rows into the row. What a purge does to
  files and their rows is in `Artifacts`, to pool entries in `AddressPool`, to references in `VPC`.
* `Artifacts` takes a power operation as one step that needs a free fence, carries out late only the
  calls that create or delete a snapshot, and has no instances without an image and no image of a
  path on the master. Its `Recover` is the operator, who repairs the guest before clearing the fence.
* The background injection that `SetInstancePassword` starts is left out of `InstanceLifecycle`.
* In `Sessions` the clocks of the replicas agree, and e-mail addresses, cookies, captcha
  and limiter are left out.
* In `Migration` other instances only appear as the pool address that is lost to
  one of them.

Not modelled at all, each with its reason in `PROJECT.json`: the login limiter, captchas and VNC tickets
(atomic operations of one process); API keys and NAT ports (decided by the isolation level or a
unique index of the database in use, which a model would have to assume); sizes and quotas,
batch operations, HTTP handlers, settings, storage and validation (data or I/O without a protocol of
their own).

## 7. Plan

1. Done: `OperationFence` with `ExclusiveFence`, `InstanceLifecycle`, `Migration`, `AddressPool`, `VPC`,
   `FirewallSync`, `AgentTokens`, `Sessions`, `Artifacts`.
2. Done: the safety properties of all of these proved, the guard's refinement, and that its users keep to it.
3. NAT mappings of several instances, if the index's behaviour is taken as an external definition.
