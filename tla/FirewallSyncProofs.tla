------------------------- MODULE FirewallSyncProofs -------------------------
(***************************************************************************)
(* Proofs about FirewallSync, for any sets of instances, groups and        *)
(* requests, and any number of edits.                                      *)
(*                                                                         *)
(* What a request knows of its instance it knows because it has the        *)
(* instance's fence; what it knows of a group, because it has the group's  *)
(* lock or because every change of the group marks the bound instances and *)
(* raises their revision.                                                  *)
(***************************************************************************)
EXTENDS FirewallSync, TLAPS

\* The request has, or should have, the fence of its instance.  (A request at
\* "mark" may have it or not: EditBegin goes there when it did not get it.)
Holds(q) ==
    \/ req[q].step \in {"read", "rules", "apply", "ack", "send", "store"}
    \/ req[q].step = "fenced" /\ req[q].kind # "create"
    \/ req[q].step = "lock" /\ req[q].kind = "bind"

\* The request is about to insert its instance.
Creates(q) == req[q].kind = "create" /\ req[q].step \in {"lock", "fenced"}

FenceInv(q) ==
    /\ req[q].step = "lock" => req[q].kind \in {"bind", "create"}
    /\ req[q].step \in {"begin", "mark"} => req[q].inst \in Instance
    /\ Holds(q) => req[q].inst \in Instance /\ fence[req[q].inst] = q
    /\ Holds(q) /\ req[q].step \in {"lock", "fenced", "send", "store"} => Live(req[q].inst)

\* Nobody else knows of an instance that is about to be inserted.
CreateInv(q) ==
    Creates(q) => /\ req[q].inst \in Instance /\ status[req[q].inst] = "none"
                  /\ \A p \in Request \ {q} : req[p].inst # req[q].inst

\* Whoever deletes a group, or binds an instance to some, has their locks.
LockInv(q) ==
    /\ req[q].step \in {"count", "delete"} => \A g \in req[q].groups : lock[g] = q
    /\ req[q].step = "delete" => \A g \in req[q].groups : BoundTo(g) = {}
    /\ req[q].step = "fenced" /\ req[q].kind \in {"bind", "create"} =>
           req[q].groups \subseteq exists /\ \A g \in req[q].groups : lock[g] = q

\* The rules of groups in w are the present ones of the instance's groups, as
\* far as no stale update gave them rules back.
Current(i, w) == bound[i] \cap rewritten = {} => w.groups = [g \in bound[i] |-> group[g]]

\* A revision that is still the one that was read means that the rules that were
\* read after it are the present ones, and so does a mark that is missing.
RevisionInv(q) ==
    LET i == req[q].inst IN
    /\ req[q].step \in {"rules", "apply", "ack"} => req[q].rev <= revision[i]
    /\ req[q].step = "apply" /\ (revision[i] = req[q].rev \/ ~pending[i]) => Current(i, req[q].seen)
    /\ req[q].step = "ack" /\ revision[i] = req[q].rev => Current(i, node[i])
    /\ req[q].step = "send" /\ ~pending[i] => Current(i, req[q].seen)

\* Under the fence an instance's own rules are what was read.
LocalInv(q) ==
    /\ req[q].step = "apply" => req[q].seen.local = local[req[q].inst]
    /\ req[q].step = "ack" => node[req[q].inst].local = local[req[q].inst]

RequestInv(q) == FenceInv(q) /\ CreateInv(q) /\ LockInv(q) /\ RevisionInv(q) /\ LocalInv(q)

\* A mark that is missing means that the node has the present rules, whatever
\* the instance is doing.
RowInv(i) ==
    /\ status[i] = "none" => bound[i] = {}
    /\ status[i] # "purged" /\ ~pending[i] => Current(i, node[i])

FirewallInv ==
    /\ TypeOK
    /\ NoDanglingBinding
    /\ \A i \in Instance : RowInv(i)
    /\ \A q \in Request : RequestInv(q)

-----------------------------------------------------------------------------
(* What a step of one request leaves to the others *)

\* The step does not touch the instance, or marks it: a request that has its
\* fence sees nothing but the mark and the revision.
Untouched(q, i) ==
    /\ status'[i] = status[i] /\ bound'[i] = bound[i] /\ local'[i] = local[i] /\ node'[i] = node[i]
    /\ fence'[i] = fence[i] \/ fence[i] \in {NoOne, q}
    /\ \/ pending'[i] /\ revision'[i] = revision[i] + 1
       \/ /\ revision'[i] = revision[i] /\ (pending'[i] = pending[i] \/ pending'[i])
          /\ bound[i] \cap rewritten' = {} =>
                 bound[i] \cap rewritten = {} /\ \A g \in bound[i] : group'[g] = group[g]

\* The step's own instance.
Own(q, i) == i = req[q].inst /\ (Holds(q) \/ Creates(q))

Others(q) ==
    /\ \A p \in Request \ {q} : req'[p] = req[p]
    /\ \A i \in Instance : Untouched(q, i) \/ (Own(q, i) /\ RowInv(i)')
    /\ \A g \in Group : lock'[g] = lock[g] \/ lock[g] \in {NoOne, q}
    /\ \/ bound' = bound /\ \A g \in exists \ exists' : lock[g] = q /\ BoundTo(g) = {}
       \/ exists' = exists /\ \A i \in Instance : \A g \in bound'[i] \ bound[i] : g \in exists /\ lock[g] = q
    /\ LET j == req'[q].inst IN
       j \in {req[q].inst, NoOne} \/ Live(j) \/ \A p \in Request : req[p].inst # j

\* A step of q keeps the invariant if it keeps q's own part.
StepOK(q) == TypeOK' /\ Others(q) /\ RequestInv(q)'

\* A step that is right for its own request is right for all: what the others know is
\* under fences and locks that are not its own, or is marked.
LEMMA OthersKeep ==
    ASSUME FirewallInv, NEW q \in Request, StepOK(q)
    PROVE  FirewallInv'
  <1> USE FirewallAssumption
  <1>1. TypeOK'
    BY DEF StepOK
  <1>2. NoDanglingBinding'
    <2>1. ASSUME NEW i \in Instance, NEW g \in bound'[i] PROVE g \in exists'
      <3>1. CASE bound' = bound /\ \A h \in exists \ exists' : lock[h] = q /\ BoundTo(h) = {}
        <4>1. g \in bound[i] /\ g \in exists /\ i \in BoundTo(g)
          BY <2>1, <3>1 DEF FirewallInv, NoDanglingBinding, BoundTo
        <4> QED
          BY <3>1, <4>1
      <3>2. CASE exists' = exists /\ \A k \in Instance : \A h \in bound'[k] \ bound[k] : h \in exists /\ lock[h] = q
        BY <2>1, <3>2 DEF FirewallInv, NoDanglingBinding
      <3> QED
        BY <3>1, <3>2 DEF StepOK, Others
    <2> QED
      BY <2>1 DEF NoDanglingBinding
  <1>3. ASSUME NEW i \in Instance PROVE RowInv(i)'
    <2>1. CASE Own(q, i) /\ RowInv(i)'
      BY <2>1
    <2>2. CASE Untouched(q, i)
      <3>1. RowInv(i)
        BY DEF FirewallInv
      <3> QED
        BY <2>2, <3>1 DEF Untouched, RowInv, Current
    <2> QED
      BY <2>1, <2>2 DEF StepOK, Others
  <1>4. ASSUME NEW p \in Request PROVE RequestInv(p)'
    <2>1. CASE p = q
      BY <2>1 DEF StepOK
    <2>2. CASE p # q
      <3> DEFINE i == req[p].inst
      <3>1. RequestInv(p) /\ RequestInv(q)
        BY DEF FirewallInv
      <3>2. req'[p] = req[p]
        BY <2>2 DEF StepOK, Others
      <3>3. (Holds(p) <=> Holds(p)') /\ (Creates(p) <=> Creates(p)')
        BY <3>2 DEF Holds, Creates
      <3>4. Holds(p) \/ Creates(p) => i \in Instance /\ ~Own(q, i) /\ Untouched(q, i)
        <4>1. Holds(p) => i \in Instance /\ fence[i] = p
          BY <3>1 DEF RequestInv, FenceInv
        <4>2. Holds(q) => fence[req[q].inst] = q
          BY <3>1 DEF RequestInv, FenceInv
        <4>3. Creates(p) => i \in Instance /\ req[q].inst # i
          BY <2>2, <3>1 DEF RequestInv, CreateInv
        <4>4. Creates(q) => req[q].inst # i
          BY <2>2, <3>1 DEF RequestInv, CreateInv
        <4> QED
          BY <2>2, <4>1, <4>2, <4>3, <4>4 DEF StepOK, Others, Own
      <3>5. FenceInv(p)'
        <4>1. Holds(p) => fence[i] = p /\ fence[i] # NoOne
          BY <3>1 DEF RequestInv, FenceInv
        <4>2. Holds(p) => fence'[i] = p /\ status'[i] = status[i]
          BY <2>2, <3>4, <4>1 DEF Untouched
        <4> QED
          BY <3>1, <3>2, <3>3, <3>4, <4>2 DEF RequestInv, FenceInv, Live
      <3>6. CreateInv(p)'
        <4>1. SUFFICES ASSUME Creates(p) PROVE i \in Instance /\ status'[i] = "none" /\ \A r \in Request \ {p} : req'[r].inst # i
          BY <3>2, <3>3 DEF CreateInv
        <4>2. i \in Instance /\ status[i] = "none" /\ \A r \in Request \ {p} : req[r].inst # i
          BY <3>1, <4>1 DEF RequestInv, CreateInv
        <4>3. status'[i] = "none"
          BY <3>4, <4>1, <4>2 DEF Untouched
        <4>4. req'[q].inst # i
          BY <2>2, <4>2 DEF StepOK, Others, Live
        <4> QED
          BY <4>2, <4>3, <4>4 DEF StepOK, Others
      <3>7. LockInv(p)'
        <4>1. \A g \in Group : lock[g] = p => lock'[g] = p /\ (g \in exists => g \in exists')
          BY <2>2 DEF StepOK, Others
        <4>2. \A g \in Group : lock[g] = p /\ BoundTo(g) = {} => BoundTo(g)' = {}
          <5> SUFFICES ASSUME NEW g \in Group, lock[g] = p, NEW k \in Instance, g \in bound'[k] PROVE g \in bound[k]
            BY DEF BoundTo
          <5> QED
            BY <2>2 DEF StepOK, Others
        <4>3. req[p].groups \subseteq Group
          BY DEF FirewallInv, TypeOK
        <4> QED
          BY <3>1, <3>2, <4>1, <4>2, <4>3 DEF RequestInv, LockInv
      <3>8. RevisionInv(p)' /\ LocalInv(p)'
        <4>1. CASE req[p].step \notin {"rules", "apply", "ack", "send"}
          BY <3>2, <4>1 DEF RevisionInv, LocalInv
        <4>2. CASE req[p].step \in {"rules", "apply", "ack", "send"}
          <5>1. i \in Instance /\ Untouched(q, i)
            BY <3>4, <4>2 DEF Holds
          <5>2. req[p].rev \in Nat /\ revision[i] \in Nat /\ pending[i] \in BOOLEAN
            BY <5>1 DEF FirewallInv, TypeOK
          <5>3. LocalInv(p)'
            BY <3>1, <3>2, <5>1 DEF RequestInv, LocalInv, Untouched
          <5>4. CASE pending'[i] /\ revision'[i] = revision[i] + 1
            <6>1. req[p].step # "send" => req[p].rev <= revision[i]
              BY <3>1, <4>2 DEF RequestInv, RevisionInv
            <6>2. req[p].step # "send" => req[p].rev <= revision'[i] /\ req[p].rev # revision'[i]
              BY <5>2, <5>4, <6>1
            <6> QED
              BY <3>2, <5>3, <5>4, <6>2 DEF RevisionInv
          <5>5. CASE ~(pending'[i] /\ revision'[i] = revision[i] + 1)
            <6>1. /\ revision'[i] = revision[i] /\ (pending'[i] = pending[i] \/ pending'[i])
                  /\ bound[i] \cap rewritten' = {} =>
                       bound[i] \cap rewritten = {} /\ \A g \in bound[i] : group'[g] = group[g]
                  /\ bound'[i] = bound[i] /\ node'[i] = node[i]
              BY <5>1, <5>5 DEF Untouched
            <6> QED
              BY <3>1, <3>2, <5>3, <6>1 DEF RequestInv, RevisionInv, Current
          <5> QED
            BY <5>4, <5>5
        <4> QED
          BY <4>1, <4>2
      <3> QED
        BY <3>5, <3>6, <3>7, <3>8 DEF RequestInv
    <2> QED
      BY <2>1, <2>2
  <1> QED
    BY <1>1, <1>2, <1>3, <1>4 DEF FirewallInv

-----------------------------------------------------------------------------
(* What the helpers do *)

Requests == [kind : Kind, step : Step, inst : Instance \cup {NoOne}, groups : SUBSET Group,
             rule : 0..MaxEdit, rev : Nat, seen : Wires, todo : SUBSET Instance]

\* The rules that go out are rules.
LEMMA WireFacts ==
    /\ NoRules \in Wires
    /\ \A G \in SUBSET Group, L \in SUBSET Version : TypeOK =>
           [groups |-> [g \in G |-> group[g]], local |-> L] \in Wires
  <1>1. ASSUME NEW G \in SUBSET Group, NEW L \in SUBSET Version, NEW f \in [G -> SUBSET Version]
        PROVE  [groups |-> f, local |-> L] \in Wires
    <2>1. f \in UNION {[H -> SUBSET Version] : H \in SUBSET Group}
      OBVIOUS
    <2> QED
      BY <2>1 DEF Wires
  <1>2. NoRules \in Wires
    <2>1. [g \in {} |-> {}] \in [{} -> SUBSET Version]
      OBVIOUS
    <2> QED
      BY <1>1, <2>1 DEF NoRules
  <1>3. ASSUME NEW G \in SUBSET Group, NEW L \in SUBSET Version, TypeOK
        PROVE  [groups |-> [g \in G |-> group[g]], local |-> L] \in Wires
    <2>1. [g \in G |-> group[g]] \in [G -> SUBSET Version]
      BY <1>3 DEF TypeOK
    <2> QED
      BY <1>1, <2>1
  <1> QED
    BY <1>2, <1>3

\* The rules that were seen belong to groups.
LEMMA SeenFacts ==
    ASSUME NEW w \in Wires
    PROVE  /\ DOMAIN w.groups \subseteq Group
           /\ \A g \in DOMAIN w.groups : w.groups[g] \subseteq Version
           /\ w.local \subseteq Version
  <1>1. w.groups \in UNION {[H -> SUBSET Version] : H \in SUBSET Group} /\ w.local \subseteq Version
    BY DEF Wires
  <1>2. PICK H \in SUBSET Group : w.groups \in [H -> SUBSET Version]
    BY <1>1
  <1> QED
    BY <1>1, <1>2

\* A request that does nothing, field by field.
LEMMA IdleFacts ==
    /\ Idle \in Requests /\ Idle.step = "idle" /\ Idle.inst = NoOne /\ Idle.kind = "none" /\ Idle.groups = {}
    /\ Idle.rule = 0 /\ Idle.rev = 0 /\ Idle.seen = NoRules /\ Idle.todo = {}
  BY FirewallAssumption, WireFacts DEF Idle, Requests, Kind, Step

\* A step of one request leaves the others alone,
LEMMA BecomesFacts ==
    ASSUME TypeOK, NEW q \in Request, NEW r \in Requests, Becomes(q, r)
    PROVE  /\ req' \in [Request -> Requests] /\ req'[q] = r
           /\ \A p \in Request \ {q} : req'[p] = req[p]
  BY DEF TypeOK, Becomes, Requests

\* and so does one that only goes on.
LEMMA GoFacts ==
    ASSUME TypeOK, NEW q \in Request, NEW s \in Step, Go(q, s)
    PROVE  /\ req' \in [Request -> Requests] /\ \A p \in Request \ {q} : req'[p] = req[p]
           /\ req'[q].step = s /\ req'[q].kind = req[q].kind /\ req'[q].inst = req[q].inst
           /\ req'[q].groups = req[q].groups /\ req'[q].rule = req[q].rule /\ req'[q].rev = req[q].rev
           /\ req'[q].seen = req[q].seen /\ req'[q].todo = req[q].todo
  <1>1. req[q] \in Requests
    BY DEF TypeOK, Requests
  <1> DEFINE n == [req[q] EXCEPT !.step = s]
  <1>2. /\ n \in Requests /\ n.step = s /\ n.kind = req[q].kind /\ n.inst = req[q].inst
        /\ n.groups = req[q].groups /\ n.rule = req[q].rule /\ n.rev = req[q].rev
        /\ n.seen = req[q].seen /\ n.todo = req[q].todo
    BY <1>1 DEF Requests
  <1>3. req' = [req EXCEPT ![q] = n]
    BY DEF Go
  <1> HIDE DEF n
  <1> QED
    BY <1>2, <1>3 DEF TypeOK, Requests

\* A request that is over, or goes on to its next instance, gives back its fence.
LEMMA FinishFacts ==
    ASSUME TypeOK, NEW q \in Request, Finish(q)
    PROVE  /\ req' \in [Request -> Requests] /\ \A p \in Request \ {q} : req'[p] = req[p]
           /\ req'[q].step \in {"idle", "each"} /\ req'[q].inst = NoOne
           /\ fence' \in [Instance -> Request \cup {NoOne, Kept}]
           /\ \A i \in Instance : fence'[i] = fence[i] \/ fence[i] = q
  <1> DEFINE e == [Idle EXCEPT !.kind = "edit", !.step = "each", !.todo = req[q].todo]
             n == IF req[q].kind = "edit" THEN e ELSE Idle
  <1>1. req[q].todo \subseteq Instance
    BY DEF TypeOK
  <1>2. e \in Requests /\ e.step = "each" /\ e.inst = NoOne
    BY <1>1, IdleFacts DEF Requests, Kind, Step
  <1> HIDE DEF e
  <1>3. n \in Requests /\ n.step \in {"idle", "each"} /\ n.inst = NoOne
    BY <1>2, IdleFacts
  <1>4. Becomes(q, n)
    BY DEF Finish, e
  <1> HIDE DEF n
  <1>5. fence' = [i \in Instance |-> IF fence[i] = q THEN NoOne ELSE fence[i]]
    BY DEF Finish, Frees
  <1> QED
    BY <1>3, <1>4, <1>5, BecomesFacts DEF TypeOK

\* Only free locks are taken, only own ones given back.
LEMMA LockFacts ==
    ASSUME TypeOK, NEW q \in Request
    PROVE  /\ Unlocks(q) => /\ lock' \in [Group -> Request \cup {NoOne}]
                            /\ \A g \in Group : lock'[g] = lock[g] \/ lock[g] = q
           /\ \A E \in SUBSET Group : Locks(q, E) /\ Unlocked(E) =>
                  /\ lock' \in [Group -> Request \cup {NoOne}]
                  /\ \A g \in Group : lock'[g] = lock[g] \/ lock[g] = NoOne
                  /\ \A g \in E : lock'[g] = q
  BY DEF TypeOK, Unlocks, Locks, Unlocked

\* A mark raises the revision, and touches nothing else.
LEMMA MarkFacts ==
    ASSUME TypeOK, NEW E \in SUBSET Instance, MarkPending(E)
    PROVE  /\ pending' \in [Instance -> BOOLEAN] /\ revision' \in [Instance -> Nat]
           /\ \A i \in E : pending'[i] /\ revision'[i] = revision[i] + 1
           /\ \A i \in Instance \ E : pending'[i] = pending[i] /\ revision'[i] = revision[i]
  <1>1. pending' = [i \in Instance |-> i \in E \/ pending[i]]
    BY DEF MarkPending
  <1>2. revision' = [i \in Instance |-> IF i \in E THEN revision[i] + 1 ELSE revision[i]]
    BY DEF MarkPending
  <1>3. \A i \in Instance : pending[i] \in BOOLEAN /\ revision[i] \in Nat
    BY DEF TypeOK
  <1>4. \A i \in E : pending'[i] = TRUE
    BY <1>1
  <1>5. \A i \in Instance \ E : pending'[i] = pending[i]
    BY <1>1, <1>3, Zenon
  <1>6. pending' \in [Instance -> BOOLEAN]
    BY <1>1, Zenon
  <1> QED
    BY <1>2, <1>3, <1>4, <1>5, <1>6

\* A request that knows nothing of instances and groups yet, or no more.
LEMMA Idles ==
    ASSUME NEW q \in Request, req'[q].step \in {"idle", "each", "write", "list"}
    PROVE  RequestInv(q)'
  BY DEF RequestInv, FenceInv, CreateInv, LockInv, RevisionInv, LocalInv, Holds, Creates

\* The steps that change requests, fences and locks only.
LEMMA QuietStep ==
    ASSUME TypeOK, NEW q \in Request,
           UNCHANGED <<instanceVars, group, exists, edits, rewritten, node>>,
           req' \in [Request -> Requests],
           \A p \in Request \ {q} : req'[p] = req[p],
           req'[q].inst \in {req[q].inst, NoOne} \/ Live(req'[q].inst) \/ \A p \in Request : req[p].inst # req'[q].inst,
           fence' \in [Instance -> Request \cup {NoOne, Kept}],
           \A i \in Instance : fence'[i] = fence[i] \/ fence[i] \in {NoOne, q},
           lock' \in [Group -> Request \cup {NoOne}],
           \A g \in Group : lock'[g] = lock[g] \/ lock[g] \in {NoOne, q}
    PROVE  TypeOK' /\ Others(q)
  <1>1. TypeOK'
    BY DEF TypeOK, Requests, instanceVars
  <1>2. \A i \in Instance : Untouched(q, i)
    BY DEF Untouched, instanceVars
  <1> QED
    BY <1>1, <1>2 DEF Others, instanceVars

\* Giving up changes nothing else.
LEMMA GiveUpStep ==
    ASSUME TypeOK, NEW q \in Request, Finish(q), Unlocks(q) \/ UNCHANGED lock,
           UNCHANGED <<instanceVars, group, exists, edits, rewritten, node>>
    PROVE  StepOK(q)
  <1>1. lock' \in [Group -> Request \cup {NoOne}] /\ \A g \in Group : lock'[g] = lock[g] \/ lock[g] = q
    BY LockFacts DEF TypeOK
  <1>2. TypeOK' /\ Others(q)
    BY <1>1, FinishFacts, QuietStep
  <1> QED
    BY <1>2, FinishFacts, Idles DEF StepOK

-----------------------------------------------------------------------------
(* Editing and deleting a group *)

\* EditStart takes a free lock.
LEMMA StartsEdit ==
    ASSUME FirewallInv, NEW q \in Request, NEW g \in Group, EditStart(q, g) PROVE StepOK(q)
  <1> DEFINE n == [Idle EXCEPT !.kind = "edit", !.step = "write", !.groups = {g}]
  <1>1. n \in Requests /\ n.step = "write" /\ n.inst = NoOne
    BY IdleFacts DEF Requests, Kind, Step
  <1> HIDE DEF n
  <1>2. req' \in [Request -> Requests] /\ req'[q] = n /\ \A p \in Request \ {q} : req'[p] = req[p]
    BY <1>1, BecomesFacts DEF EditStart, n, FirewallInv
  <1>3. TypeOK' /\ Others(q)
    BY <1>1, <1>2, LockFacts, QuietStep DEF EditStart, FirewallInv, TypeOK
  <1> QED
    BY <1>1, <1>2, <1>3, Idles DEF StepOK

\* EditWrite marks whoever is bound to the group, so that nobody takes the rules before
\* for the present ones.
LEMMA WritesEdit ==
    ASSUME FirewallInv, NEW q \in Request, EditWrite(q) PROVE StepOK(q)
  <1>1. lock' \in [Group -> Request \cup {NoOne}] /\ \A g \in Group : lock'[g] = lock[g] \/ lock[g] = q
    BY LockFacts DEF EditWrite, FirewallInv
  <1>2. CASE Becomes(q, Idle) /\ UNCHANGED <<group, edits, rewritten, pending, revision>>
    <2>1. req' \in [Request -> Requests] /\ req'[q] = Idle /\ \A p \in Request \ {q} : req'[p] = req[p]
      BY <1>2, BecomesFacts, IdleFacts DEF FirewallInv
    <2>2. TypeOK' /\ Others(q)
      BY <1>1, <1>2, <2>1, IdleFacts, QuietStep DEF EditWrite, FirewallInv, TypeOK, instanceVars
    <2> QED
      BY <2>1, <2>2, IdleFacts, Idles DEF StepOK
  <1>3. ASSUME NEW g \in req[q].groups, NEW n \in Version, Editable(n),
               group' = [group EXCEPT ![g] = {n}], edits' = n, rewritten' = rewritten \ {g},
               MarkPending(BoundTo(g)), Go(q, "list")
        PROVE  StepOK(q)
    <2>1. g \in Group
      BY DEF FirewallInv, TypeOK
    <2>2. /\ req' \in [Request -> Requests] /\ \A p \in Request \ {q} : req'[p] = req[p]
          /\ req'[q].step = "list" /\ req'[q].inst = req[q].inst
      BY <1>3, GoFacts DEF FirewallInv, Step
    <2>3. /\ pending' \in [Instance -> BOOLEAN] /\ revision' \in [Instance -> Nat]
          /\ \A i \in BoundTo(g) : pending'[i] /\ revision'[i] = revision[i] + 1
          /\ \A i \in Instance \ BoundTo(g) : pending'[i] = pending[i] /\ revision'[i] = revision[i]
      BY <1>3, MarkFacts DEF FirewallInv, BoundTo
    <2>4. TypeOK'
      BY <1>1, <1>3, <2>1, <2>2, <2>3 DEF EditWrite, FirewallInv, TypeOK, Requests, Version
    <2>5. ASSUME NEW i \in Instance PROVE Untouched(q, i)
      <3>1. i \notin BoundTo(g) => g \notin bound[i]
        BY DEF BoundTo
      <3>2. \A h \in bound[i] : g # h => group'[h] = group[h]
        BY <1>3 DEF FirewallInv, TypeOK
      <3> QED
        BY <1>3, <2>3, <3>1, <3>2 DEF Untouched, EditWrite
    <2>6. Others(q)
      BY <1>1, <2>2, <2>5 DEF Others, EditWrite
    <2> QED
      BY <2>2, <2>4, <2>6, Idles DEF StepOK
  <1> QED
    BY <1>2, <1>3 DEF EditWrite

\* EditList only reads.
LEMMA ListsEdit ==
    ASSUME FirewallInv, NEW q \in Request, EditList(q) PROVE StepOK(q)
  <1>1. ASSUME NEW n \in Requests, n.step \in {"idle", "each"}, n.inst = NoOne, Becomes(q, n) PROVE StepOK(q)
    <2>1. req' \in [Request -> Requests] /\ req'[q] = n /\ \A p \in Request \ {q} : req'[p] = req[p]
      BY <1>1, BecomesFacts DEF FirewallInv
    <2>2. TypeOK' /\ Others(q)
      BY <1>1, <2>1, QuietStep DEF EditList, FirewallInv, TypeOK, instanceVars, groupVars
    <2> QED
      BY <1>1, <2>1, <2>2, Idles DEF StepOK
  <1>2. CASE Becomes(q, Idle)
    BY <1>1, <1>2, IdleFacts
  <1>3. ASSUME NEW g \in req[q].groups,
               Becomes(q, [Idle EXCEPT !.kind = "edit", !.step = "each", !.todo = BoundTo(g)])
        PROVE  StepOK(q)
    <2> DEFINE n == [Idle EXCEPT !.kind = "edit", !.step = "each", !.todo = BoundTo(g)]
    <2>1. n \in Requests /\ n.step = "each" /\ n.inst = NoOne
      BY IdleFacts DEF Requests, Kind, Step, BoundTo
    <2>2. Becomes(q, n)
      BY <1>3
    <2> HIDE DEF n
    <2> QED
      BY <1>1, <2>1, <2>2
  <1> QED
    BY <1>2, <1>3 DEF EditList

\* EditEach only reads, and knows nothing of its instance afterwards.
LEMMA VisitsNext ==
    ASSUME FirewallInv, NEW q \in Request, EditEach(q) PROVE StepOK(q)
  <1>0. req[q] \in Requests
    BY DEF FirewallInv, TypeOK, Requests
  <1>1. ASSUME NEW n \in Requests, n.inst \in {req[q].inst, NoOne} \/ (n.inst \in Instance /\ Live(n.inst)), Becomes(q, n)
        PROVE  req'[q] = n /\ TypeOK' /\ Others(q)
    <2>1. req' \in [Request -> Requests] /\ req'[q] = n /\ \A p \in Request \ {q} : req'[p] = req[p]
      BY <1>1, BecomesFacts DEF FirewallInv
    <2> QED
      BY <1>1, <2>1, QuietStep DEF EditEach, FirewallInv, TypeOK, instanceVars, groupVars
  <1>2. CASE Becomes(q, Idle)
    BY <1>1, <1>2, IdleFacts, Idles DEF StepOK
  <1>3. ASSUME NEW i \in req[q].todo, Becomes(q, [req[q] EXCEPT !.todo = @ \ {i}]) PROVE StepOK(q)
    <2> DEFINE n == [req[q] EXCEPT !.todo = @ \ {i}]
    <2>1. n \in Requests /\ n.step = "each" /\ n.inst = req[q].inst
      BY <1>0 DEF Requests, EditEach, At
    <2>2. Becomes(q, n)
      BY <1>3
    <2> HIDE DEF n
    <2> QED
      BY <1>1, <2>1, <2>2, Idles DEF StepOK
  <1>4. ASSUME NEW i \in req[q].todo, status[i] = "running",
               Becomes(q, [req[q] EXCEPT !.todo = @ \ {i}, !.inst = i, !.rev = revision[i], !.step = "begin"])
        PROVE  StepOK(q)
    <2> DEFINE n == [req[q] EXCEPT !.todo = @ \ {i}, !.inst = i, !.rev = revision[i], !.step = "begin"]
    <2>0. i \in Instance /\ revision[i] \in Nat
      BY <1>0 DEF FirewallInv, TypeOK, Requests
    <2>1. n \in Requests /\ n.step = "begin" /\ n.inst = i
      BY <1>0, <2>0 DEF Requests, Step
    <2>2. Becomes(q, n)
      BY <1>4
    <2> HIDE DEF n
    <2>3. req'[q] = n /\ TypeOK' /\ Others(q)
      BY <1>1, <1>4, <2>0, <2>1, <2>2 DEF Live
    <2>4. RequestInv(q)'
      BY <2>0, <2>1, <2>3 DEF RequestInv, FenceInv, CreateInv, LockInv, RevisionInv, LocalInv, Holds, Creates
    <2> QED
      BY <2>3, <2>4 DEF StepOK
  <1> QED
    BY <1>2, <1>3, <1>4 DEF EditEach

\* EditBegin takes a free fence, or none.
LEMMA BeginsEdit ==
    ASSUME FirewallInv, NEW q \in Request, EditBegin(q) PROVE StepOK(q)
  <1>0. /\ req[q] \in Requests /\ req[q].inst \in Instance /\ req[q].step = "begin" /\ req[q].kind = "edit"
    BY DEF FirewallInv, TypeOK, Requests, RequestInv, FenceInv, EditBegin, At
  <1>1. CASE Go(q, "mark") /\ UNCHANGED fence
    <2>1. /\ req' \in [Request -> Requests] /\ \A p \in Request \ {q} : req'[p] = req[p]
          /\ req'[q].step = "mark" /\ req'[q].inst = req[q].inst
      BY <1>1, GoFacts DEF FirewallInv, Step
    <2>2. TypeOK' /\ Others(q)
      BY <1>1, <2>1, QuietStep DEF EditBegin, FirewallInv, TypeOK, instanceVars, groupVars
    <2>3. RequestInv(q)'
      BY <1>0, <2>1 DEF RequestInv, FenceInv, CreateInv, LockInv, RevisionInv, LocalInv, Holds, Creates
    <2> QED
      BY <2>2, <2>3 DEF StepOK
  <1>2. CASE /\ fence[req[q].inst] = NoOne /\ fence' = [fence EXCEPT ![req[q].inst] = q]
             /\ Becomes(q, [req[q] EXCEPT !.step = "read", !.rev = 0])
    <2> DEFINE n == [req[q] EXCEPT !.step = "read", !.rev = 0]
    <2>1. n \in Requests /\ n.step = "read" /\ n.inst = req[q].inst /\ n.kind = "edit"
      BY <1>0 DEF Requests, Step
    <2>2. Becomes(q, n)
      BY <1>2
    <2> HIDE DEF n
    <2>3. req' \in [Request -> Requests] /\ req'[q] = n /\ \A p \in Request \ {q} : req'[p] = req[p]
      BY <2>1, <2>2, BecomesFacts DEF FirewallInv
    <2>4. /\ fence' \in [Instance -> Request \cup {NoOne, Kept}] /\ fence'[req[q].inst] = q
          /\ \A i \in Instance : fence'[i] = fence[i] \/ fence[i] = NoOne
      BY <1>0, <1>2 DEF FirewallInv, TypeOK
    <2>5. TypeOK' /\ Others(q)
      BY <2>1, <2>3, <2>4, QuietStep DEF EditBegin, FirewallInv, TypeOK, instanceVars, groupVars
    <2>6. RequestInv(q)'
      BY <1>0, <2>1, <2>3, <2>4 DEF RequestInv, FenceInv, CreateInv, LockInv, RevisionInv, LocalInv, Holds, Creates
    <2> QED
      BY <2>5, <2>6 DEF StepOK
  <1> QED
    BY <1>1, <1>2 DEF EditBegin

\* DeleteStart takes a free lock.
LEMMA StartsDeletion ==
    ASSUME FirewallInv, NEW q \in Request, NEW g \in Group, DeleteStart(q, g) PROVE StepOK(q)
  <1> DEFINE n == [Idle EXCEPT !.kind = "remove", !.step = "count", !.groups = {g}]
  <1>1. n \in Requests /\ n.step = "count" /\ n.inst = NoOne /\ n.groups = {g} /\ n.kind = "remove"
    BY IdleFacts DEF Requests, Kind, Step
  <1> HIDE DEF n
  <1>2. req' \in [Request -> Requests] /\ req'[q] = n /\ \A p \in Request \ {q} : req'[p] = req[p]
    BY <1>1, BecomesFacts DEF DeleteStart, n, FirewallInv
  <1>3. /\ lock' \in [Group -> Request \cup {NoOne}] /\ lock'[g] = q
        /\ \A h \in Group : lock'[h] = lock[h] \/ lock[h] = NoOne
    BY LockFacts DEF DeleteStart, FirewallInv
  <1>4. TypeOK' /\ Others(q)
    BY <1>1, <1>2, <1>3, QuietStep DEF DeleteStart, FirewallInv, TypeOK
  <1>5. RequestInv(q)'
    BY <1>1, <1>2, <1>3 DEF RequestInv, FenceInv, CreateInv, LockInv, RevisionInv, LocalInv, Holds, Creates
  <1> QED
    BY <1>4, <1>5 DEF StepOK

\* What DeleteCount finds stays so while the lock is held.
LEMMA CountsBindings ==
    ASSUME FirewallInv, NEW q \in Request, DeleteCount(q) PROVE StepOK(q)
  <1>1. CASE Becomes(q, Idle) /\ Unlocks(q)
    <2>1. req' \in [Request -> Requests] /\ req'[q] = Idle /\ \A p \in Request \ {q} : req'[p] = req[p]
      BY <1>1, BecomesFacts, IdleFacts DEF FirewallInv
    <2>2. TypeOK' /\ Others(q)
      BY <1>1, <2>1, IdleFacts, LockFacts, QuietStep DEF DeleteCount, FirewallInv, TypeOK
    <2> QED
      BY <2>1, <2>2, IdleFacts, Idles DEF StepOK
  <1>2. CASE (\A g \in req[q].groups : BoundTo(g) = {}) /\ Go(q, "delete") /\ UNCHANGED lock
    <2>1. /\ req' \in [Request -> Requests] /\ \A p \in Request \ {q} : req'[p] = req[p]
          /\ req'[q].step = "delete" /\ req'[q].inst = req[q].inst /\ req'[q].groups = req[q].groups
      BY <1>2, GoFacts DEF FirewallInv, Step
    <2>2. TypeOK' /\ Others(q)
      BY <1>2, <2>1, QuietStep DEF DeleteCount, FirewallInv, TypeOK
    <2>3. \A g \in req[q].groups : lock[g] = q
      BY DEF FirewallInv, RequestInv, LockInv, DeleteCount, At
    <2>4. RequestInv(q)'
      BY <1>2, <2>1, <2>3
         DEF RequestInv, FenceInv, CreateInv, LockInv, RevisionInv, LocalInv, Holds, Creates, BoundTo, DeleteCount, instanceVars
    <2> QED
      BY <2>2, <2>4 DEF StepOK
  <1> QED
    BY <1>1, <1>2 DEF DeleteCount

\* DeleteWrite deletes what nobody is bound to.
LEMMA Deletes ==
    ASSUME FirewallInv, NEW q \in Request, DeleteWrite(q) PROVE StepOK(q)
  <1>1. req' \in [Request -> Requests] /\ req'[q] = Idle /\ \A p \in Request \ {q} : req'[p] = req[p]
    BY BecomesFacts, IdleFacts DEF DeleteWrite, FirewallInv
  <1>2. lock' \in [Group -> Request \cup {NoOne}] /\ \A g \in Group : lock'[g] = lock[g] \/ lock[g] = q
    BY LockFacts DEF DeleteWrite, FirewallInv
  <1>3. TypeOK'
    BY <1>1, <1>2 DEF DeleteWrite, FirewallInv, TypeOK, Requests, instanceVars
  <1>4. \A g \in exists \ exists' : lock[g] = q /\ BoundTo(g) = {}
    BY DEF DeleteWrite, FirewallInv, RequestInv, LockInv, At
  <1>5. Others(q)
    BY <1>1, <1>2, <1>4, IdleFacts DEF Others, Untouched, DeleteWrite, instanceVars
  <1> QED
    BY <1>1, <1>3, <1>5, IdleFacts, Idles DEF StepOK

-----------------------------------------------------------------------------
(* Binding *)

\* BindStart takes a free fence.
LEMMA StartsBinding ==
    ASSUME FirewallInv, NEW q \in Request, NEW i \in Instance, NEW G \in SUBSET Group, BindStart(q, i, G)
    PROVE  StepOK(q)
  <1> DEFINE n == [Idle EXCEPT !.kind = "bind", !.step = "lock", !.inst = i, !.groups = G]
  <1>1. n \in Requests /\ n.step = "lock" /\ n.inst = i /\ n.kind = "bind"
    BY IdleFacts DEF Requests, Kind, Step
  <1> HIDE DEF n
  <1>2. req' \in [Request -> Requests] /\ req'[q] = n /\ \A p \in Request \ {q} : req'[p] = req[p]
    BY <1>1, BecomesFacts DEF BindStart, n, FirewallInv
  <1>3. /\ fence' \in [Instance -> Request \cup {NoOne, Kept}] /\ fence'[i] = q
        /\ \A j \in Instance : fence'[j] = fence[j] \/ fence[j] = NoOne
    BY DEF BindStart, FirewallInv, TypeOK
  <1>4. TypeOK' /\ Others(q)
    BY <1>1, <1>2, <1>3, QuietStep DEF BindStart, FirewallInv, TypeOK, groupVars
  <1>5. RequestInv(q)'
    BY <1>1, <1>2, <1>3
       DEF RequestInv, FenceInv, CreateInv, LockInv, RevisionInv, LocalInv, Holds, Creates, Live, BindStart, instanceVars
  <1> QED
    BY <1>4, <1>5 DEF StepOK

\* CreateStart is the only one to know its instance.
LEMMA StartsCreation ==
    ASSUME FirewallInv, NEW q \in Request, NEW i \in Instance, NEW G \in SUBSET Group, CreateStart(q, i, G)
    PROVE  StepOK(q)
  <1> DEFINE n == [Idle EXCEPT !.kind = "create", !.step = "lock", !.inst = i, !.groups = G]
  <1>1. n \in Requests /\ n.step = "lock" /\ n.inst = i /\ n.kind = "create"
    BY IdleFacts DEF Requests, Kind, Step
  <1> HIDE DEF n
  <1>2. req' \in [Request -> Requests] /\ req'[q] = n /\ \A p \in Request \ {q} : req'[p] = req[p]
    BY <1>1, BecomesFacts DEF CreateStart, n, FirewallInv
  <1>3. TypeOK' /\ Others(q)
    BY <1>1, <1>2, QuietStep DEF CreateStart, FirewallInv, TypeOK, groupVars
  <1>4. RequestInv(q)'
    BY <1>1, <1>2
       DEF RequestInv, FenceInv, CreateInv, LockInv, RevisionInv, LocalInv, Holds, Creates, CreateStart, instanceVars
  <1> QED
    BY <1>3, <1>4 DEF StepOK

\* BindLock finds the groups there and keeps them there.
LEMMA LocksGroups ==
    ASSUME FirewallInv, NEW q \in Request, BindLock(q) PROVE StepOK(q)
  <1>1. CASE Finish(q) /\ UNCHANGED lock
    BY <1>1, GiveUpStep DEF BindLock, FirewallInv
  <1>2. CASE /\ req[q].groups \subseteq exists /\ Unlocked(req[q].groups)
             /\ Locks(q, req[q].groups) /\ Go(q, "fenced") /\ UNCHANGED fence
    <2>1. /\ req' \in [Request -> Requests] /\ \A p \in Request \ {q} : req'[p] = req[p]
          /\ req'[q].step = "fenced" /\ req'[q].inst = req[q].inst /\ req'[q].groups = req[q].groups
          /\ req'[q].kind = req[q].kind
      BY <1>2, GoFacts DEF FirewallInv, Step
    <2>2. req[q].groups \in SUBSET Group
      BY DEF FirewallInv, TypeOK
    <2>3. /\ lock' \in [Group -> Request \cup {NoOne}] /\ \A g \in req[q].groups : lock'[g] = q
          /\ \A h \in Group : lock'[h] = lock[h] \/ lock[h] = NoOne
      BY <1>2, <2>2, LockFacts DEF FirewallInv
    <2>4. TypeOK' /\ Others(q)
      BY <1>2, <2>1, <2>3, QuietStep DEF BindLock, FirewallInv, TypeOK
    <2>5. req[q].step = "lock" /\ FenceInv(q) /\ CreateInv(q)
      BY DEF FirewallInv, RequestInv, BindLock, At
    <2>6. FenceInv(q)' /\ CreateInv(q)'
      BY <1>2, <2>1, <2>5 DEF FenceInv, CreateInv, Holds, Creates, Live, BindLock, instanceVars
    <2>7. LockInv(q)' /\ RevisionInv(q)' /\ LocalInv(q)'
      BY <1>2, <2>1, <2>3 DEF LockInv, RevisionInv, LocalInv, BindLock
    <2> QED
      BY <2>4, <2>6, <2>7 DEF StepOK, RequestInv
  <1> QED
    BY <1>1, <1>2 DEF BindLock

\* BindWrite marks its instance, and binds it to groups that are there.
LEMMA Binds ==
    ASSUME FirewallInv, NEW q \in Request, BindWrite(q) PROVE StepOK(q)
  <1>1. lock' \in [Group -> Request \cup {NoOne}] /\ \A g \in Group : lock'[g] = lock[g] \/ lock[g] = q
    BY LockFacts DEF BindWrite, FirewallInv
  <1>2. CASE Finish(q) /\ UNCHANGED <<bound, pending, revision>>
    BY <1>2, GiveUpStep DEF BindWrite, FirewallInv, instanceVars
  <1>3. CASE /\ bound' = [bound EXCEPT ![req[q].inst] = req[q].groups]
             /\ MarkPending({req[q].inst})
             /\ Becomes(q, [req[q] EXCEPT !.step = "read", !.groups = {}])
             /\ UNCHANGED fence
    <2> DEFINE i == req[q].inst
               n == [req[q] EXCEPT !.step = "read", !.groups = {}]
    <2>1. req[q] \in Requests /\ req[q].step = "fenced" /\ req[q].kind = "bind" /\ RequestInv(q)
      BY DEF FirewallInv, TypeOK, Requests, BindWrite, At
    <2>2. /\ i \in Instance /\ fence[i] = q /\ Live(i) /\ Holds(q)
          /\ \A g \in req[q].groups : g \in exists /\ lock[g] = q
      BY <2>1 DEF RequestInv, FenceInv, LockInv, Holds
    <2>3. n \in Requests /\ n.step = "read" /\ n.inst = i /\ n.kind = "bind"
      BY <2>1 DEF Requests, Step
    <2>4. Becomes(q, n)
      BY <1>3
    <2> HIDE DEF n
    <2>5. req' \in [Request -> Requests] /\ req'[q] = n /\ \A p \in Request \ {q} : req'[p] = req[p]
      BY <2>3, <2>4, BecomesFacts DEF FirewallInv
    <2>6. /\ pending' \in [Instance -> BOOLEAN] /\ revision' \in [Instance -> Nat]
          /\ pending'[i] /\ revision'[i] = revision[i] + 1
          /\ \A j \in Instance \ {i} : pending'[j] = pending[j] /\ revision'[j] = revision[j]
      BY <1>3, <2>2, MarkFacts DEF FirewallInv
    <2>7. /\ bound' \in [Instance -> SUBSET Group] /\ bound'[i] = req[q].groups
          /\ \A j \in Instance \ {i} : bound'[j] = bound[j]
      BY <1>3, <2>1, <2>2 DEF FirewallInv, TypeOK, Requests
    <2>8. TypeOK'
      BY <1>1, <1>3, <2>5, <2>6, <2>7 DEF BindWrite, FirewallInv, TypeOK, Requests
    <2>9. ASSUME NEW j \in Instance, j = i PROVE RowInv(j)'
      BY <2>2, <2>6, <2>9 DEF RowInv, Live, BindWrite
    <2>10. \A j \in Instance \ {i} : Untouched(q, j)
      BY <1>3, <2>6, <2>7 DEF Untouched, BindWrite
    <2>11. Others(q)
      BY <1>1, <1>3, <2>2, <2>3, <2>5, <2>7, <2>9, <2>10 DEF Others, Own, BindWrite
    <2>12. RequestInv(q)'
      BY <1>3, <2>2, <2>3, <2>5 DEF RequestInv, FenceInv, CreateInv, LockInv, RevisionInv, LocalInv, Holds, Creates
    <2> QED
      BY <2>8, <2>11, <2>12 DEF StepOK
  <1> QED
    BY <1>2, <1>3 DEF BindWrite

\* CreateWrite marks its instance unless it has no groups, and then there is nothing to apply.
LEMMA Inserts ==
    ASSUME FirewallInv, NEW q \in Request, CreateWrite(q) PROVE StepOK(q)
  <1>1. lock' \in [Group -> Request \cup {NoOne}] /\ \A g \in Group : lock'[g] = lock[g] \/ lock[g] = q
    BY LockFacts DEF CreateWrite, FirewallInv
  <1> DEFINE i == req[q].inst
             G == req[q].groups
             w == [NoRules EXCEPT !.groups = [g \in G |-> group[g]]]
             n == [req[q] EXCEPT !.step = "send", !.groups = {}, !.seen = w]
  <1>2. CASE Finish(q) /\ UNCHANGED <<status, bound, pending, revision>>
    BY <1>2, GiveUpStep DEF CreateWrite, FirewallInv, instanceVars
  <1>3. CASE /\ status' = [status EXCEPT ![i] = "creating"]
             /\ bound' = [bound EXCEPT ![i] = G]
             /\ MarkPending(IF G = {} THEN {} ELSE {i})
             /\ fence' = [fence EXCEPT ![i] = q]
             /\ Becomes(q, n)
    <2>1. req[q] \in Requests /\ req[q].step = "fenced" /\ req[q].kind = "create" /\ RequestInv(q)
      BY DEF FirewallInv, TypeOK, Requests, CreateWrite, At
    <2>2. /\ i \in Instance /\ status[i] = "none" /\ Creates(q) /\ G \in SUBSET Group
          /\ \A g \in G : g \in exists /\ lock[g] = q
      BY <2>1 DEF RequestInv, CreateInv, LockInv, Creates, Requests
    <2>3. w \in Wires /\ w.groups = [g \in G |-> group[g]]
      <3>0. ASSUME NEW f PROVE [NoRules EXCEPT !.groups = f] = [groups |-> f, local |-> {}]
        BY DEF NoRules
      <3>1. w = [groups |-> [g \in G |-> group[g]], local |-> {}]
        BY <3>0
      <3> QED
        BY <2>2, <3>1, WireFacts DEF FirewallInv
    <2> HIDE DEF w
    <2>4. n \in Requests /\ n.step = "send" /\ n.inst = i /\ n.kind = "create" /\ n.seen = w
      BY <2>1, <2>3 DEF Requests, Step
    <2>5. Becomes(q, n)
      BY <1>3
    <2> HIDE DEF n
    <2>6. req' \in [Request -> Requests] /\ req'[q] = n /\ \A p \in Request \ {q} : req'[p] = req[p]
      BY <2>4, <2>5, BecomesFacts DEF FirewallInv
    <2>7. /\ pending' \in [Instance -> BOOLEAN] /\ revision' \in [Instance -> Nat]
          /\ \A j \in Instance \ {i} : pending'[j] = pending[j] /\ revision'[j] = revision[j]
          /\ IF G = {} THEN pending'[i] = pending[i] ELSE pending'[i]
      <3>1. CASE G = {}
        BY <1>3, <2>2, <3>1, MarkFacts DEF FirewallInv
      <3>2. CASE G # {}
        BY <1>3, <2>2, <3>2, MarkFacts DEF FirewallInv
      <3> QED
        BY <3>1, <3>2
    <2>8. /\ bound' \in [Instance -> SUBSET Group] /\ bound'[i] = G
          /\ \A j \in Instance \ {i} : bound'[j] = bound[j] /\ status'[j] = status[j] /\ fence'[j] = fence[j]
          /\ status'[i] = "creating" /\ fence'[i] = q /\ fence' \in [Instance -> Request \cup {NoOne, Kept}]
          /\ status' \in [Instance -> {"none", "creating", "stopped", "running", "error", "purged"}]
      BY <1>3, <2>2 DEF FirewallInv, TypeOK
    <2>9. TypeOK'
      BY <1>1, <2>6, <2>7, <2>8 DEF CreateWrite, FirewallInv, TypeOK, Requests
    <2>10. ASSUME NEW j \in Instance, j = i PROVE RowInv(j)'
      <3>1. bound[i] = {} /\ (~pending[i] => node[i].groups = [g \in {} |-> group[g]])
        BY <2>2 DEF FirewallInv, RowInv, Current
      <3>2. [g \in {} |-> group[g]] = [g \in {} |-> group'[g]]
        OBVIOUS
      <3> QED
        BY <2>7, <2>8, <2>10, <3>1, <3>2 DEF RowInv, Current, CreateWrite
    <2>11. \A j \in Instance \ {i} : Untouched(q, j)
      BY <2>7, <2>8 DEF Untouched, CreateWrite
    <2>12. Others(q)
      BY <1>1, <2>2, <2>4, <2>6, <2>8, <2>10, <2>11 DEF Others, Own, CreateWrite
    <2>13. RequestInv(q)'
      BY <2>2, <2>3, <2>4, <2>6, <2>8
         DEF RequestInv, FenceInv, CreateInv, LockInv, RevisionInv, LocalInv, Holds, Creates, Live, Current, CreateWrite
    <2> QED
      BY <2>9, <2>12, <2>13 DEF StepOK
  <1> QED
    BY <1>2, <1>3 DEF CreateWrite

-----------------------------------------------------------------------------
(* The rules of one instance *)

\* A request that takes the fence of a live instance.
LEMMA TakesFence ==
    ASSUME FirewallInv, NEW q \in Request, NEW i \in Instance, NEW n \in Requests,
           n.kind \notin {"create", "bind"}, n.step = "fenced", n.inst = i, Becomes(q, n),
           Live(i), fence[i] = NoOne, fence' = [fence EXCEPT ![i] = q],
           UNCHANGED <<instanceVars, groupVars, node>>
    PROVE  StepOK(q)
  <1>1. req' \in [Request -> Requests] /\ req'[q] = n /\ \A p \in Request \ {q} : req'[p] = req[p]
    BY BecomesFacts DEF FirewallInv
  <1>2. /\ fence' \in [Instance -> Request \cup {NoOne, Kept}] /\ fence'[i] = q
        /\ \A j \in Instance : fence'[j] = fence[j] \/ fence[j] = NoOne
    BY DEF FirewallInv, TypeOK
  <1>3. TypeOK' /\ Others(q)
    BY <1>1, <1>2, QuietStep DEF FirewallInv, TypeOK, groupVars
  <1>4. RequestInv(q)'
    BY <1>1, <1>2
       DEF RequestInv, FenceInv, CreateInv, LockInv, RevisionInv, LocalInv, Holds, Creates, Live, instanceVars
  <1> QED
    BY <1>3, <1>4 DEF StepOK

\* LocalStart takes a free fence, or looks a rule up without it.
LEMMA StartsLocal ==
    ASSUME FirewallInv, NEW q \in Request, NEW i \in Instance, LocalStart(q, i) PROVE StepOK(q)
  <1>1. CASE fence[i] = NoOne /\ fence' = [fence EXCEPT ![i] = q]
             /\ Becomes(q, [Idle EXCEPT !.kind = "local", !.step = "fenced", !.inst = i])
    <2> DEFINE n == [Idle EXCEPT !.kind = "local", !.step = "fenced", !.inst = i]
    <2>1. n \in Requests /\ n.step = "fenced" /\ n.inst = i /\ n.kind = "local"
      BY IdleFacts DEF Requests, Kind, Step
    <2>2. Becomes(q, n)
      BY <1>1
    <2> HIDE DEF n
    <2> QED
      BY <1>1, <2>1, <2>2, TakesFence DEF LocalStart
  <1>2. ASSUME NEW v \in local[i], UNCHANGED fence,
               Becomes(q, [Idle EXCEPT !.kind = "local", !.step = "begin", !.inst = i, !.rule = v])
        PROVE  StepOK(q)
    <2> DEFINE n == [Idle EXCEPT !.kind = "local", !.step = "begin", !.inst = i, !.rule = v]
    <2>0. v \in 0..MaxEdit
      BY FirewallAssumption DEF FirewallInv, TypeOK, Version
    <2>1. n \in Requests /\ n.step = "begin" /\ n.inst = i /\ n.kind = "local"
      BY <2>0, IdleFacts DEF Requests, Kind, Step
    <2>2. Becomes(q, n)
      BY <1>2
    <2> HIDE DEF n
    <2>3. req' \in [Request -> Requests] /\ req'[q] = n /\ \A p \in Request \ {q} : req'[p] = req[p]
      BY <2>1, <2>2, BecomesFacts DEF FirewallInv
    <2>4. TypeOK' /\ Others(q)
      BY <1>2, <2>1, <2>3, QuietStep DEF LocalStart, FirewallInv, TypeOK, instanceVars, groupVars
    <2>5. RequestInv(q)'
      BY <2>1, <2>3 DEF RequestInv, FenceInv, CreateInv, LockInv, RevisionInv, LocalInv, Holds, Creates
    <2> QED
      BY <2>4, <2>5 DEF StepOK
  <1> QED
    BY <1>1, <1>2 DEF LocalStart

\* LocalBegin takes a free fence.
LEMMA BeginsLocal ==
    ASSUME FirewallInv, NEW q \in Request, LocalBegin(q) PROVE StepOK(q)
  <1> DEFINE i == req[q].inst
  <1>0. req[q] \in Requests /\ i \in Instance /\ req[q].kind = "local" /\ req[q].step = "begin"
    BY DEF FirewallInv, TypeOK, Requests, RequestInv, FenceInv, LocalBegin, At
  <1>1. CASE Becomes(q, Idle) /\ UNCHANGED fence
    <2>1. req' \in [Request -> Requests] /\ req'[q] = Idle /\ \A p \in Request \ {q} : req'[p] = req[p]
      BY <1>1, BecomesFacts, IdleFacts DEF FirewallInv
    <2>2. TypeOK' /\ Others(q)
      BY <1>1, <2>1, IdleFacts, QuietStep DEF LocalBegin, FirewallInv, TypeOK, instanceVars, groupVars
    <2> QED
      BY <2>1, <2>2, IdleFacts, Idles DEF StepOK
  <1>2. CASE Live(i) /\ fence[i] = NoOne /\ fence' = [fence EXCEPT ![i] = q] /\ Go(q, "fenced")
    <2> DEFINE n == [req[q] EXCEPT !.step = "fenced"]
    <2>1. n \in Requests /\ n.step = "fenced" /\ n.inst = i /\ n.kind = "local"
      BY <1>0 DEF Requests, Step
    <2>2. Becomes(q, n)
      BY <1>2 DEF Go, Becomes
    <2> HIDE DEF n
    <2> QED
      BY <1>0, <1>2, <2>1, <2>2, TakesFence DEF LocalBegin
  <1> QED
    BY <1>1, <1>2 DEF LocalBegin

\* LocalWrite changes its own instance under the fence.
LEMMA WritesLocal ==
    ASSUME FirewallInv, NEW q \in Request, LocalWrite(q) PROVE StepOK(q)
  <1> DEFINE i == req[q].inst
             n == [req[q] EXCEPT !.step = "read", !.rule = 0]
  <1>1. CASE Finish(q) /\ UNCHANGED <<local, edits>>
    BY <1>1, GiveUpStep DEF LocalWrite, FirewallInv, instanceVars
  <1>2. ASSUME NEW L \in SUBSET Version, local' = [local EXCEPT ![i] = L], edits' \in 0..MaxEdit,
               Becomes(q, n), UNCHANGED fence
        PROVE  StepOK(q)
    <2>1. req[q] \in Requests /\ req[q].step = "fenced" /\ req[q].kind = "local" /\ RequestInv(q) /\ RowInv(i)
      BY DEF FirewallInv, TypeOK, Requests, LocalWrite, At, RequestInv, FenceInv, Holds
    <2>2. i \in Instance /\ fence[i] = q /\ Holds(q)
      BY <2>1 DEF RequestInv, FenceInv, Holds
    <2>3. n \in Requests /\ n.step = "read" /\ n.inst = i /\ n.kind = "local"
      <3>1. 0 \in 0..MaxEdit
        BY FirewallAssumption
      <3> QED
        BY <2>1, <3>1 DEF Requests, Step
    <2>4. Becomes(q, n)
      BY <1>2
    <2> HIDE DEF n
    <2>5. req' \in [Request -> Requests] /\ req'[q] = n /\ \A p \in Request \ {q} : req'[p] = req[p]
      BY <2>3, <2>4, BecomesFacts DEF FirewallInv
    <2>6. TypeOK'
      BY <1>2, <2>5 DEF LocalWrite, FirewallInv, TypeOK, Requests
    <2>7. ASSUME NEW j \in Instance, j = i PROVE RowInv(j)'
      BY <2>1, <2>7 DEF RowInv, Current, LocalWrite
    <2>8. \A j \in Instance \ {i} : Untouched(q, j)
      BY <1>2 DEF Untouched, LocalWrite, FirewallInv, TypeOK
    <2>9. Others(q)
      BY <2>2, <2>3, <2>5, <2>7, <2>8 DEF Others, Own, LocalWrite
    <2>10. RequestInv(q)'
      BY <1>2, <2>2, <2>3, <2>5 DEF RequestInv, FenceInv, CreateInv, LockInv, RevisionInv, LocalInv, Holds, Creates
    <2> QED
      BY <2>6, <2>9, <2>10 DEF StepOK
  <1>3. local[i] \subseteq Version
    BY DEF FirewallInv, TypeOK, RequestInv, FenceInv, Holds, LocalWrite, At
  <1>4. ASSUME NEW v \in Version, edits' = v, local' = [local EXCEPT ![i] = (local[i] \ {req[q].rule}) \cup {v}],
               Becomes(q, n), UNCHANGED fence
        PROVE  StepOK(q)
    <2>1. (local[i] \ {req[q].rule}) \cup {v} \in SUBSET Version /\ v \in 0..MaxEdit
      BY <1>3, FirewallAssumption DEF Version
    <2> QED
      BY <1>2, <1>4, <2>1
  <1>5. CASE /\ local' = [local EXCEPT ![i] = local[i] \ {req[q].rule}] /\ Becomes(q, n)
             /\ UNCHANGED <<edits, fence>>
    <2>1. local[i] \ {req[q].rule} \in SUBSET Version /\ edits' \in 0..MaxEdit
      BY <1>3, <1>5 DEF FirewallInv, TypeOK
    <2> QED
      BY <1>2, <1>5, <2>1
  <1> QED
    BY <1>1, <1>4, <1>5 DEF LocalWrite

-----------------------------------------------------------------------------
(* Synchronising one instance *)

\* SyncRead reads the present revision.
LEMMA ReadsRow ==
    ASSUME FirewallInv, NEW q \in Request, SyncRead(q) PROVE StepOK(q)
  <1> DEFINE i == req[q].inst
             n == [req[q] EXCEPT !.step = "rules", !.rev = revision[i]]
  <1>1. CASE Finish(q)
    BY <1>1, GiveUpStep DEF SyncRead, FirewallInv, groupVars
  <1>2. CASE Becomes(q, n) /\ UNCHANGED fence
    <2>1. req[q] \in Requests /\ i \in Instance /\ fence[i] = q /\ req[q].step = "read"
      BY DEF FirewallInv, TypeOK, Requests, RequestInv, FenceInv, Holds, SyncRead, At
    <2>2. revision[i] \in Nat
      BY <2>1 DEF FirewallInv, TypeOK
    <2>3. n \in Requests /\ n.step = "rules" /\ n.inst = i /\ n.rev = revision[i]
      BY <2>1, <2>2 DEF Requests, Step
    <2> HIDE DEF n
    <2>4. req' \in [Request -> Requests] /\ req'[q] = n /\ \A p \in Request \ {q} : req'[p] = req[p]
      BY <1>2, <2>3, BecomesFacts DEF FirewallInv
    <2>5. TypeOK' /\ Others(q)
      BY <1>2, <2>3, <2>4, QuietStep DEF SyncRead, FirewallInv, TypeOK, instanceVars, groupVars
    <2>6. revision'[req'[q].inst] = revision[i] /\ n.rev <= revision[i] /\ fence'[i] = q
      BY <1>2, <2>1, <2>2, <2>3, <2>4 DEF SyncRead, instanceVars
    <2>7. RequestInv(q)'
      BY <2>1, <2>3, <2>4, <2>6 DEF RequestInv, FenceInv, CreateInv, LockInv, RevisionInv, LocalInv, Holds, Creates
    <2> QED
      BY <2>5, <2>7 DEF StepOK
  <1> QED
    BY <1>1, <1>2 DEF SyncRead

\* SyncRules reads the present rules.
LEMMA ReadsRules ==
    ASSUME FirewallInv, NEW q \in Request, SyncRules(q) PROVE StepOK(q)
  <1> DEFINE i == req[q].inst
             n == [req[q] EXCEPT !.step = "apply", !.seen = Wire(i)]
  <1>1. req[q] \in Requests /\ i \in Instance /\ fence[i] = q /\ req[q].step = "rules" /\ req[q].rev <= revision[i]
    BY DEF FirewallInv, TypeOK, Requests, RequestInv, FenceInv, RevisionInv, Holds, SyncRules, At
  <1>2. /\ Wire(i) \in Wires
        /\ Wire(i).groups = [g \in bound[i] |-> group[g]] /\ Wire(i).local = local[i]
    BY <1>1, WireFacts DEF Wire, FirewallInv, TypeOK
  <1>3. n \in Requests /\ n.step = "apply" /\ n.inst = i /\ n.rev = req[q].rev /\ n.seen = Wire(i)
    BY <1>1, <1>2 DEF Requests, Step
  <1>4. Becomes(q, n)
    BY DEF SyncRules
  <1> HIDE DEF n
  <1>5. req' \in [Request -> Requests] /\ req'[q] = n /\ \A p \in Request \ {q} : req'[p] = req[p]
    BY <1>3, <1>4, BecomesFacts DEF FirewallInv
  <1>6. TypeOK' /\ Others(q)
    BY <1>3, <1>5, QuietStep DEF SyncRules, FirewallInv, TypeOK, instanceVars, groupVars
  <1>7. FenceInv(q)' /\ CreateInv(q)' /\ LockInv(q)'
    BY <1>1, <1>3, <1>5 DEF FenceInv, CreateInv, LockInv, Holds, Creates, SyncRules
  <1>8. RevisionInv(q)' /\ LocalInv(q)'
    BY <1>1, <1>2, <1>3, <1>5 DEF RevisionInv, LocalInv, Current, SyncRules, instanceVars, groupVars
  <1> QED
    BY <1>6, <1>7, <1>8 DEF StepOK, RequestInv

\* SyncApply gives the node what was read, or nothing.
LEMMA Applies ==
    ASSUME FirewallInv, NEW q \in Request, SyncApply(q) PROVE StepOK(q)
  <1>1. PICK ok, done \in BOOLEAN :
           /\ ok => done
           /\ node' = IF done THEN [node EXCEPT ![req[q].inst] = req[q].seen] ELSE node
           /\ Becomes(q, [req[q] EXCEPT !.step = IF ok THEN "ack" ELSE "mark", !.seen = NoRules])
    BY DEF SyncApply
  <1> DEFINE i == req[q].inst
             s == IF ok THEN "ack" ELSE "mark"
             n == [req[q] EXCEPT !.step = s, !.seen = NoRules]
  <1>2. req[q] \in Requests /\ i \in Instance /\ fence[i] = q /\ req[q].step = "apply" /\ Holds(q)
    BY DEF FirewallInv, TypeOK, Requests, RequestInv, FenceInv, Holds, SyncApply, At
  <1>3. RowInv(i) /\ RevisionInv(q) /\ LocalInv(q) /\ pending[i] \in BOOLEAN
    BY <1>2 DEF FirewallInv, TypeOK, RequestInv
  <1>4. s \in {"ack", "mark"} /\ (s = "ack" => ok)
    OBVIOUS
  <1> HIDE DEF s
  <1>5. n \in Requests /\ n.step = s /\ n.inst = i /\ n.rev = req[q].rev
    BY <1>2, <1>4, WireFacts DEF Requests, Step
  <1>6. Becomes(q, n)
    BY <1>1 DEF s
  <1> HIDE DEF n
  <1>7. req' \in [Request -> Requests] /\ req'[q] = n /\ \A p \in Request \ {q} : req'[p] = req[p]
    BY <1>5, <1>6, BecomesFacts DEF FirewallInv
  <1>8. /\ node' \in [Instance -> Wires] /\ \A j \in Instance \ {i} : node'[j] = node[j]
        /\ node'[i] \in {node[i], req[q].seen} /\ (ok => node'[i] = req[q].seen)
    BY <1>1, <1>2 DEF FirewallInv, TypeOK, Requests
  <1>9. TypeOK'
    BY <1>7, <1>8 DEF SyncApply, FirewallInv, TypeOK, Requests, instanceVars, groupVars
  <1>10. ASSUME NEW j \in Instance, j = i PROVE RowInv(j)'
    BY <1>2, <1>3, <1>8, <1>10 DEF RowInv, RevisionInv, Current, SyncApply, instanceVars, groupVars
  <1>11. \A j \in Instance \ {i} : Untouched(q, j)
    BY <1>8 DEF Untouched, SyncApply, instanceVars, groupVars
  <1>12. Others(q)
    BY <1>2, <1>5, <1>7, <1>10, <1>11 DEF Others, Own, SyncApply, instanceVars, groupVars
  <1>13. FenceInv(q)' /\ CreateInv(q)' /\ LockInv(q)'
    BY <1>2, <1>4, <1>5, <1>7 DEF FenceInv, CreateInv, LockInv, Holds, Creates, SyncApply
  <1>14. RevisionInv(q)' /\ LocalInv(q)'
    BY <1>2, <1>3, <1>4, <1>5, <1>7, <1>8 DEF RevisionInv, LocalInv, Current, SyncApply, instanceVars, groupVars
  <1> QED
    BY <1>9, <1>12, <1>13, <1>14 DEF StepOK, RequestInv

\* Taking the mark off, or setting it again, and giving the fence back.
LEMMA Marks ==
    ASSUME FirewallInv, NEW q \in Request, Finish(q), pending' \in [Instance -> BOOLEAN],
           \A i \in Instance :
               \/ pending'[i] = pending[i] \/ pending'[i]
               \/ i = req[q].inst /\ Holds(q) /\ Current(i, node[i]),
           UNCHANGED <<status, bound, revision, local, groupVars, node>>
    PROVE  StepOK(q)
  <1>1. /\ req' \in [Request -> Requests] /\ \A p \in Request \ {q} : req'[p] = req[p]
        /\ req'[q].step \in {"idle", "each"} /\ req'[q].inst = NoOne
        /\ fence' \in [Instance -> Request \cup {NoOne, Kept}]
        /\ \A i \in Instance : fence'[i] = fence[i] \/ fence[i] = q
    BY FinishFacts DEF FirewallInv
  <1>2. TypeOK'
    BY <1>1 DEF FirewallInv, TypeOK, Requests, groupVars
  <1>3. ASSUME NEW i \in Instance PROVE Untouched(q, i) \/ (Own(q, i) /\ RowInv(i)')
    <2>1. CASE pending'[i] = pending[i] \/ pending'[i]
      BY <1>1, <2>1 DEF Untouched, groupVars
    <2>2. CASE i = req[q].inst /\ Holds(q) /\ Current(i, node[i])
      BY <2>2 DEF Own, RowInv, Current, FirewallInv, groupVars
    <2> QED
      BY <2>1, <2>2
  <1>4. Others(q)
    BY <1>1, <1>3 DEF Others, groupVars
  <1> QED
    BY <1>1, <1>2, <1>4, Idles DEF StepOK

\* SyncAck takes the mark off what the node really has.
LEMMA Acknowledges ==
    ASSUME FirewallInv, NEW q \in Request, SyncAck(q) PROVE StepOK(q)
  <1> DEFINE i == req[q].inst
  <1>1. Holds(q) /\ i \in Instance /\ (revision[i] = req[q].rev => Current(i, node[i]))
    BY DEF FirewallInv, RequestInv, FenceInv, RevisionInv, Holds, SyncAck, At
  <1>2. CASE UNCHANGED pending
    BY <1>2, Marks DEF SyncAck, FirewallInv, TypeOK
  <1>3. CASE revision[i] = req[q].rev /\ pending' = [pending EXCEPT ![i] = FALSE]
    <2>1. pending' \in [Instance -> BOOLEAN] /\ \A j \in Instance \ {i} : pending'[j] = pending[j]
      BY <1>3 DEF FirewallInv, TypeOK
    <2> QED
      BY <1>1, <1>3, <2>1, Marks DEF SyncAck
  <1> QED
    BY <1>2, <1>3 DEF SyncAck

\* SyncMark only sets the mark.
LEMMA MarksAgain ==
    ASSUME FirewallInv, NEW q \in Request, SyncMark(q) PROVE StepOK(q)
  <1>1. CASE UNCHANGED pending
    BY <1>1, Marks DEF SyncMark, FirewallInv, TypeOK
  <1>2. CASE pending' = [pending EXCEPT ![req[q].inst] = TRUE]
    <2>1. pending' \in [Instance -> BOOLEAN] /\ \A j \in Instance : pending'[j] = pending[j] \/ pending'[j]
      BY <1>2 DEF FirewallInv, TypeOK
    <2> QED
      BY <2>1, Marks DEF SyncMark
  <1> QED
    BY <1>1, <1>2 DEF SyncMark

-----------------------------------------------------------------------------
(* Power, status and purge *)

\* PowerStart takes a free fence.
LEMMA StartsPower ==
    ASSUME FirewallInv, NEW q \in Request, NEW i \in Instance, NEW k \in {"start", "stop", "status", "purge"},
           PowerStart(q, i, k)
    PROVE  StepOK(q)
  <1> DEFINE n == [Idle EXCEPT !.kind = k, !.step = "fenced", !.inst = i]
  <1>1. n \in Requests /\ n.step = "fenced" /\ n.inst = i /\ n.kind = k
    BY IdleFacts DEF Requests, Kind, Step
  <1>2. Becomes(q, n)
    BY DEF PowerStart
  <1> HIDE DEF n
  <1> QED
    BY <1>1, <1>2, TakesFence DEF PowerStart

\* PowerRead reads the present rules.
LEMMA ReadsInstance ==
    ASSUME FirewallInv, NEW q \in Request, PowerRead(q) PROVE StepOK(q)
  <1> DEFINE i == req[q].inst
             n == [req[q] EXCEPT !.step = "send", !.seen = Wire(i)]
  <1>1. CASE Finish(q)
    BY <1>1, GiveUpStep DEF PowerRead, FirewallInv, groupVars
  <1>2. CASE Becomes(q, n) /\ UNCHANGED fence
    <2>1. /\ req[q] \in Requests /\ req[q].step = "fenced" /\ req[q].kind \in {"start", "stop", "status"}
          /\ i \in Instance /\ fence[i] = q /\ Live(i)
      BY DEF FirewallInv, TypeOK, Requests, RequestInv, FenceInv, Holds, PowerRead, At
    <2>2. Wire(i) \in Wires /\ Wire(i).groups = [g \in bound[i] |-> group[g]]
      BY <2>1, WireFacts DEF Wire, FirewallInv, TypeOK
    <2>3. n \in Requests /\ n.step = "send" /\ n.inst = i /\ n.kind = req[q].kind /\ n.seen = Wire(i)
      BY <2>1, <2>2 DEF Requests, Step
    <2> HIDE DEF n
    <2>4. req' \in [Request -> Requests] /\ req'[q] = n /\ \A p \in Request \ {q} : req'[p] = req[p]
      BY <1>2, <2>3, BecomesFacts DEF FirewallInv
    <2>5. TypeOK' /\ Others(q)
      BY <1>2, <2>3, <2>4, QuietStep DEF PowerRead, FirewallInv, TypeOK, instanceVars, groupVars
    <2>6. FenceInv(q)' /\ CreateInv(q)' /\ LockInv(q)'
      BY <1>2, <2>1, <2>3, <2>4 DEF FenceInv, CreateInv, LockInv, Holds, Creates, Live, PowerRead, instanceVars
    <2>7. RevisionInv(q)' /\ LocalInv(q)'
      BY <2>2, <2>3, <2>4 DEF RevisionInv, LocalInv, Current, PowerRead, instanceVars, groupVars
    <2> QED
      BY <2>5, <2>6, <2>7 DEF StepOK, RequestInv
  <1> QED
    BY <1>1, <1>2 DEF PowerRead

\* Send gives the node what was read, or nothing.
LEMMA Sends ==
    ASSUME FirewallInv, NEW q \in Request, Send(q) PROVE StepOK(q)
  <1> DEFINE i == req[q].inst
             w == IF req[q].kind \in {"create", "start"} THEN req[q].seen ELSE node[i]
  <1>1. req[q] \in Requests /\ i \in Instance /\ fence[i] = q /\ req[q].step = "send" /\ Holds(q) /\ Live(i)
    BY DEF FirewallInv, TypeOK, Requests, RequestInv, FenceInv, Holds, Send, At
  <1>2. RowInv(i) /\ RevisionInv(q)
    BY <1>1 DEF FirewallInv, RequestInv
  <1>3. node' \in {node, [node EXCEPT ![i] = w]}
    BY DEF Send
  <1>4. w \in {node[i], req[q].seen}
    OBVIOUS
  <1> HIDE DEF w
  <1>5. /\ node' \in [Instance -> Wires] /\ \A j \in Instance \ {i} : node'[j] = node[j]
        /\ node'[i] \in {node[i], req[q].seen}
    BY <1>1, <1>3, <1>4 DEF FirewallInv, TypeOK, Requests
  <1>6. /\ req' \in [Request -> Requests] /\ \A p \in Request \ {q} : req'[p] = req[p]
        /\ req'[q].step = "store" /\ req'[q].inst = i
    BY GoFacts DEF Send, FirewallInv, Step
  <1>7. TypeOK'
    BY <1>5, <1>6 DEF Send, FirewallInv, TypeOK, Requests, instanceVars, groupVars
  <1>8. ASSUME NEW j \in Instance, j = i PROVE RowInv(j)'
    BY <1>1, <1>2, <1>5, <1>8 DEF RowInv, RevisionInv, Current, Send, instanceVars, groupVars
  <1>9. \A j \in Instance \ {i} : Untouched(q, j)
    BY <1>5 DEF Untouched, Send, instanceVars, groupVars
  <1>10. Others(q)
    BY <1>1, <1>6, <1>8, <1>9 DEF Others, Own, Send, instanceVars, groupVars
  <1>11. RequestInv(q)'
    BY <1>1, <1>6
       DEF RequestInv, FenceInv, CreateInv, LockInv, RevisionInv, LocalInv, Holds, Creates, Live, Send, instanceVars
  <1> QED
    BY <1>7, <1>10, <1>11 DEF StepOK

\* Store changes groups only where the history says so.
LEMMA Stores ==
    ASSUME FirewallInv, NEW q \in Request, Store(q) PROVE StepOK(q)
  <1> DEFINE i == req[q].inst
  <1>1. CASE UNCHANGED <<status, group, rewritten>>
    BY <1>1, GiveUpStep DEF Store, FirewallInv, instanceVars
  <1>2. ASSUME NEW s \in {"stopped", "running", "error"}, status' = [status EXCEPT ![i] = s],
               group' = [g \in Group |-> group[g] \cup Seen(q, g)],
               rewritten' = rewritten \cup {g \in Group : ~(Seen(q, g) \subseteq group[g])}
        PROVE  StepOK(q)
    <2>1. req[q] \in Requests /\ i \in Instance /\ fence[i] = q /\ Holds(q) /\ Live(i) /\ RowInv(i)
      BY DEF FirewallInv, TypeOK, Requests, RequestInv, FenceInv, Holds, Store, At
    <2>2. \A g \in Group : Seen(q, g) \subseteq Version
      BY <2>1, SeenFacts DEF Requests, Seen
    <2>3. \A g \in Group : g \notin rewritten' => g \notin rewritten /\ group'[g] = group[g]
      BY <1>2
    <2>4. /\ req' \in [Request -> Requests] /\ \A p \in Request \ {q} : req'[p] = req[p]
          /\ req'[q].step \in {"idle", "each"} /\ req'[q].inst = NoOne
          /\ fence' \in [Instance -> Request \cup {NoOne, Kept}]
          /\ \A j \in Instance : fence'[j] = fence[j] \/ fence[j] = q
      BY FinishFacts DEF Store, FirewallInv
    <2>5. /\ status' \in [Instance -> {"none", "creating", "stopped", "running", "error", "purged"}]
          /\ status'[i] = s /\ \A j \in Instance \ {i} : status'[j] = status[j]
      BY <1>2, <2>1 DEF FirewallInv, TypeOK
    <2>6. group' \in [Group -> SUBSET Version]
      BY <1>2, <2>2 DEF FirewallInv, TypeOK
    <2>7. TypeOK'
      BY <1>2, <2>4, <2>5, <2>6 DEF Store, FirewallInv, TypeOK, Requests
    <2>8. \A j \in Instance : bound[j] \cap rewritten' = {} =>
              bound[j] \cap rewritten = {} /\ \A g \in bound[j] : group'[g] = group[g]
      BY <2>3 DEF FirewallInv, TypeOK
    <2>9. ASSUME NEW j \in Instance, j = i PROVE RowInv(j)'
      <3>1. pending'[j] = pending[j] /\ bound'[j] = bound[j] /\ node'[j] = node[j] /\ status'[j] # "none"
        BY <2>5, <2>9 DEF Store
      <3>2. ~pending[j] => Current(j, node[j])
        BY <2>1, <2>9 DEF RowInv, Live
      <3>3. [g \in bound[j] |-> group'[g]] = [g \in bound[j] |-> group[g]] \/ bound[j] \cap rewritten' # {}
        BY <2>8
      <3> QED
        BY <2>8, <3>1, <3>2, <3>3 DEF RowInv, Current
    <2>10. \A j \in Instance \ {i} : Untouched(q, j)
      BY <2>4, <2>5, <2>8 DEF Untouched, Store
    <2>11. Others(q)
      BY <2>1, <2>4, <2>9, <2>10 DEF Others, Own, Store
    <2> QED
      BY <2>4, <2>7, <2>11, Idles DEF StepOK
  <1> QED
    BY <1>1, <1>2 DEF Store

\* PurgeWrite unbinds and purges under the fence.
LEMMA Purges ==
    ASSUME FirewallInv, NEW q \in Request, PurgeWrite(q) PROVE StepOK(q)
  <1> DEFINE i == req[q].inst
  <1>1. CASE UNCHANGED <<status, bound, local>>
    BY <1>1, GiveUpStep DEF PurgeWrite, FirewallInv, instanceVars, groupVars
  <1>2. CASE /\ status' = [status EXCEPT ![i] = "purged"]
             /\ bound' = [bound EXCEPT ![i] = {}]
             /\ local' = [local EXCEPT ![i] = {}]
    <2>1. i \in Instance /\ fence[i] = q /\ Holds(q)
      BY DEF FirewallInv, RequestInv, FenceInv, Holds, PurgeWrite, At
    <2>2. /\ req' \in [Request -> Requests] /\ \A p \in Request \ {q} : req'[p] = req[p]
          /\ req'[q].step \in {"idle", "each"} /\ req'[q].inst = NoOne
          /\ fence' \in [Instance -> Request \cup {NoOne, Kept}]
          /\ \A j \in Instance : fence'[j] = fence[j] \/ fence[j] = q
      BY FinishFacts DEF PurgeWrite, FirewallInv
    <2>3. /\ status' \in [Instance -> {"none", "creating", "stopped", "running", "error", "purged"}]
          /\ bound' \in [Instance -> SUBSET Group] /\ local' \in [Instance -> SUBSET Version]
          /\ status'[i] = "purged" /\ bound'[i] = {}
          /\ \A j \in Instance \ {i} : status'[j] = status[j] /\ bound'[j] = bound[j] /\ local'[j] = local[j]
      BY <1>2, <2>1 DEF FirewallInv, TypeOK
    <2>4. TypeOK'
      BY <2>2, <2>3 DEF PurgeWrite, FirewallInv, TypeOK, Requests, groupVars
    <2>5. ASSUME NEW j \in Instance, j = i PROVE RowInv(j)'
      BY <2>3, <2>5 DEF RowInv
    <2>6. \A j \in Instance \ {i} : Untouched(q, j)
      BY <2>2, <2>3 DEF Untouched, PurgeWrite, groupVars
    <2>7. \A j \in Instance : bound'[j] \subseteq bound[j]
      BY <2>3
    <2>8. Others(q)
      BY <2>1, <2>2, <2>5, <2>6, <2>7 DEF Others, Own, PurgeWrite, groupVars
    <2> QED
      BY <2>2, <2>4, <2>8, Idles DEF StepOK
  <1> QED
    BY <1>1, <1>2 DEF PurgeWrite

-----------------------------------------------------------------------------
(* Failures *)

\* Crash keeps fences and rolls back.
LEMMA Crashes ==
    ASSUME FirewallInv, NEW q \in Request, Crash(q) PROVE StepOK(q)
  <1>1. req' \in [Request -> Requests] /\ req'[q] = Idle /\ \A p \in Request \ {q} : req'[p] = req[p]
    BY BecomesFacts, IdleFacts DEF Crash, FirewallInv
  <1>2. fence' \in [Instance -> Request \cup {NoOne, Kept}] /\ \A i \in Instance : fence'[i] = fence[i] \/ fence[i] = q
    BY DEF Crash, FirewallInv, TypeOK
  <1>3. TypeOK' /\ Others(q)
    BY <1>1, <1>2, IdleFacts, LockFacts, QuietStep DEF Crash, FirewallInv
  <1> QED
    BY <1>1, <1>3, IdleFacts, Idles DEF StepOK

\* A fence that was kept is nobody's.
LEMMA Recovers ==
    ASSUME FirewallInv, NEW i \in Instance, Recover(i) PROVE FirewallInv'
  <1>1. /\ fence' \in [Instance -> Request \cup {NoOne, Kept}]
        /\ \A q \in Request : \A j \in Instance : fence[j] = q => fence'[j] = q
    BY FirewallAssumption DEF Recover, FirewallInv, TypeOK
  <1>2. TypeOK' /\ NoDanglingBinding' /\ \A j \in Instance : RowInv(j)'
    BY <1>1 DEF Recover, FirewallInv, TypeOK, NoDanglingBinding, RowInv, Current, instanceVars, groupVars
  <1>3. ASSUME NEW q \in Request PROVE RequestInv(q)'
    <2>1. RequestInv(q)
      BY DEF FirewallInv
    <2>2. FenceInv(q)'
      BY <1>1, <2>1 DEF Recover, RequestInv, FenceInv, Holds, Live, instanceVars
    <2>3. CreateInv(q)' /\ LockInv(q)' /\ RevisionInv(q)' /\ LocalInv(q)'
      BY <2>1 DEF Recover, RequestInv, CreateInv, LockInv, RevisionInv, LocalInv, Creates, Current, BoundTo,
                  instanceVars, groupVars
    <2> QED
      BY <2>2, <2>3 DEF RequestInv
  <1> QED
    BY <1>2, <1>3 DEF FirewallInv

-----------------------------------------------------------------------------
(* The theorems *)

\* Every step keeps the invariant.
LEMMA FirewallNext == FirewallInv /\ [Next]_vars => FirewallInv'
  <1> SUFFICES ASSUME FirewallInv, [Next]_vars PROVE FirewallInv'
    OBVIOUS
  <1>1. CASE UNCHANGED vars
    BY <1>1 DEF vars, instanceVars, groupVars, FirewallInv, TypeOK, NoDanglingBinding, RowInv, RequestInv, FenceInv,
                CreateInv, LockInv, RevisionInv, LocalInv, Holds, Creates, Live, Current, BoundTo
  <1>2. CASE Edit
    BY <1>2, StartsEdit, WritesEdit, ListsEdit, VisitsNext, BeginsEdit, StartsDeletion, CountsBindings, Deletes,
       OthersKeep DEF Edit
  <1>3. CASE Bind
    BY <1>3, StartsBinding, StartsCreation, LocksGroups, Binds, Inserts, OthersKeep DEF Bind
  <1>4. CASE LocalEdit
    BY <1>4, StartsLocal, BeginsLocal, WritesLocal, OthersKeep DEF LocalEdit
  <1>5. CASE Sync
    BY <1>5, ReadsRow, ReadsRules, Applies, Acknowledges, MarksAgain, OthersKeep DEF Sync
  <1>6. CASE Operate
    BY <1>6, StartsPower, ReadsInstance, Sends, Stores, Purges, OthersKeep DEF Operate
  <1>7. CASE Fail
    BY <1>7, Crashes, Recovers, OthersKeep DEF Fail
  <1> QED
    BY <1>1, <1>2, <1>3, <1>4, <1>5, <1>6, <1>7 DEF Next

\* It holds at first.
LEMMA FirewallInit == Init => FirewallInv
  <1> SUFFICES ASSUME Init PROVE FirewallInv
    OBVIOUS
  <1>1. TypeOK
    BY IdleFacts, WireFacts, FirewallAssumption DEF Init, TypeOK, Requests
  <1>2. \A i \in Instance : RowInv(i)
    BY DEF Init, RowInv, Current, NoRules
  <1>3. \A q \in Request : RequestInv(q)
    BY IdleFacts DEF Init, RequestInv, FenceInv, CreateInv, LockInv, RevisionInv, LocalInv, Holds, Creates
  <1> QED
    BY <1>1, <1>2, <1>3 DEF FirewallInv, NoDanglingBinding, Init

\* The invariant of rules, bindings and marks, for any sets of instances, groups
\* and requests: fences and locks are exclusive, a missing mark means that the
\* node has the present rules (FirewallInv).
THEOREM FirewallInvariant == Spec => []FirewallInv
  BY FirewallInit, FirewallNext, PTL DEF Spec

\* Every variable keeps its type.
THEOREM TypeCorrect == Spec => []TypeOK
  <1>1. FirewallInv => TypeOK
    BY DEF FirewallInv
  <1> QED
    BY <1>1, FirewallInvariant, PTL

\* No instance is bound to a deleted group (bindSecurityGroups takes the locks in
\* which DeleteSecurityGroup counts and deletes).
THEOREM Bindings == Spec => []NoDanglingBinding
  <1>1. FirewallInv => NoDanglingBinding
    BY DEF FirewallInv
  <1> QED
    BY <1>1, FirewallInvariant, PTL

\* What is not marked pending and not under way runs with the present rules of its
\* groups (firewall_revision, syncFirewallIfRunning), and what a stale update gave
\* back is the only exception.
THEOREM GroupRules == Spec => []GroupRulesApplied
  <1>1. FirewallInv => GroupRulesApplied
    BY DEF FirewallInv, GroupRulesApplied, RowInv, Current, Wire
  <1> QED
    BY <1>1, FirewallInvariant, PTL

\* An edit of an instance's own rules is applied as a whole: when the node has
\* answered, it has exactly the rules of the database (CreateFirewall,
\* UpdateFirewall, DeleteFirewall).
THEOREM LocalEdits == Spec => []LocalEditApplied
  <1>1. FirewallInv => LocalEditApplied
    BY DEF FirewallInv, LocalEditApplied, RequestInv, LocalInv, At
  <1> QED
    BY <1>1, FirewallInvariant, PTL

=============================================================================
