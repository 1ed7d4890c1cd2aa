------------------------------ MODULE AgentTokens ------------------------------
(***************************************************************************)
(* The token and the status of one node (internal/service/agent.go).  The  *)
(* table of nodes holds the hash of the token only; each replica of the    *)
(* master keeps the token itself in memory, put there by the request that  *)
(* created or rotated it and by every heartbeat the node sends             *)
(* (AgentRegister, internal/handler/agent.go), and checks it against the   *)
(* row before a call to the node (RPCToken).                               *)
(*                                                                         *)
(* A statement, and a use of the cache, is a step.  The node's row can     *)
(* come back after its deletion: an operation of an instance writes the    *)
(* node it read along with the instance (virtualis.go:733-734).            *)
(***************************************************************************)
EXTENDS Naturals, TokenRequirements

CONSTANTS
    Replica,
    NoReplica,
    MaxToken    \* bound: tokens made

ASSUME AgentTokensAssumption ==
    /\ NoReplica \notin Replica
    /\ MaxToken \in Nat \ {0}

VARIABLES
    row,      \* the node's row
    made,     \* tokens made so far; they are numbered, the hash names its token
    cache,    \* agentTokenCache of each replica
    node,     \* the token the node runs with
    beat,     \* a heartbeat being served, per replica
    admin,    \* a rotation or deletion, per replica
    check,    \* a list of the nodes that found this one silent
    replaced, \* history: tokens that were stored and then overwritten
    held      \* the row that was deleted, as an operation of an instance has it

vars == <<row, made, cache, node, beat, call, admin, check, held, replaced>>

NoToken == 0
AnyToken == 0..MaxToken
Made == 1..made

Row == [hash : 1..MaxToken, status : {"pending", "online", "offline"}]
Gone == [hash |-> NoToken, status |-> "gone"]

Beat == [step : {"idle", "cache", "update"}, tok : AnyToken]
Somewhere == Replica \cup {NoReplica}
Call == [step : {"idle", "check", "use", "drop"}, at : Somewhere, tok : AnyToken, since : SUBSET (1..MaxToken)]
Admin == [step : {"idle", "update", "cache", "drop"}, tok : AnyToken]

TypeOK ==
    /\ row \in Row \cup {Gone}
    /\ made \in 1..MaxToken
    /\ cache \in [Replica -> AnyToken]
    /\ node \in AnyToken
    /\ beat \in [Replica -> Beat]
    /\ call \in Call
    /\ admin \in [Replica -> Admin]
    /\ check \in {"idle", "stale"}
    /\ held \in Row \cup {Gone}
    /\ replaced \subseteq 1..MaxToken

NoBeat == [step |-> "idle", tok |-> NoToken]
NoCall == [step |-> "idle", at |-> NoReplica, tok |-> NoToken, since |-> {}]
NoAdmin == [step |-> "idle", tok |-> NoToken]

\* Create has stored the row and cached the token where it was served.
Init ==
    /\ row = [hash |-> 1, status |-> "pending"]
    /\ made = 1
    /\ \E m \in Replica : cache = [k \in Replica |-> IF k = m THEN 1 ELSE NoToken]
    /\ node = NoToken
    /\ beat = [m \in Replica |-> NoBeat]
    /\ call = NoCall
    /\ admin = [m \in Replica |-> NoAdmin]
    /\ check = "idle"
    /\ held = Gone
    /\ replaced = {}

Exists == row # Gone

-----------------------------------------------------------------------------
(* Administrators *)

\* RotateToken: the node is read and a token made.
RotateRead(m) ==
    /\ admin[m] = NoAdmin
    /\ Exists
    /\ made < MaxToken
    /\ made' = made + 1
    /\ admin' = [admin EXCEPT ![m] = [step |-> "update", tok |-> made + 1]]
    /\ UNCHANGED <<row, cache, node, beat, call, check, held, replaced>>

\* The update goes by the id: of two rotations the last one wins, and a node
\* that was deleted meanwhile is no error.
RotateUpdate(m) ==
    /\ admin[m].step = "update"
    /\ \/ /\ row' = IF Exists THEN [hash |-> admin[m].tok, status |-> "pending"] ELSE Gone
          /\ replaced' = IF Exists THEN replaced \cup {row.hash} ELSE replaced
          /\ admin' = [admin EXCEPT ![m].step = "cache"]
       \/ admin' = [admin EXCEPT ![m] = NoAdmin] /\ UNCHANGED <<row, replaced>>
    /\ UNCHANGED <<made, cache, node, beat, call, check, held>>

RotateCache(m) ==
    /\ admin[m].step = "cache"
    /\ cache' = [cache EXCEPT ![m] = admin[m].tok]
    /\ admin' = [admin EXCEPT ![m] = NoAdmin]
    /\ UNCHANGED <<row, made, node, beat, call, check, held, replaced>>

\* Delete: the row, then this replica's cache.  An operation of an instance that
\* has just read the node may be under way.
DeleteRow(m) ==
    /\ admin[m] = NoAdmin
    /\ Exists
    /\ row' = Gone
    /\ held' \in {Gone, row}
    /\ admin' = [admin EXCEPT ![m].step = "drop"]
    /\ UNCHANGED <<made, cache, node, beat, call, check, replaced>>

DeleteDrop(m) ==
    /\ admin[m].step = "drop"
    /\ cache' = [cache EXCEPT ![m] = NoToken]
    /\ admin' = [admin EXCEPT ![m] = NoAdmin]
    /\ UNCHANGED <<row, made, node, beat, call, check, held, replaced>>

\* The node is (re)started with a token somebody was shown.
Rejoin(t) ==
    /\ t # node
    /\ \A m \in Replica : admin[m].tok # t
    /\ node' = t
    /\ UNCHANGED <<row, made, cache, beat, call, admin, check, held, replaced>>

-----------------------------------------------------------------------------
(* AgentRegister: every 30 seconds *)

\* Authenticate finds the row by the token's hash.
Authenticate(m) ==
    /\ beat[m] = NoBeat
    /\ node # NoToken
    /\ node = row.hash
    /\ beat' = [beat EXCEPT ![m] = [step |-> "cache", tok |-> node]]
    /\ UNCHANGED <<row, made, cache, node, call, admin, check, held, replaced>>

\* Slip: only a rotation or a creation fills the cache.
BeatUncached(m) ==
    /\ beat[m].step = "cache"
    /\ beat' = [beat EXCEPT ![m].step = "update"]
    /\ UNCHANGED <<row, made, cache, node, call, admin, check, held, replaced>>

\* Authenticate caches the token that was presented, whatever the row says by now.
BeatCache(m) ==
    /\ beat[m].step = "cache"
    /\ cache' = [cache EXCEPT ![m] = beat[m].tok]
    /\ beat' = [beat EXCEPT ![m].step = "update"]
    /\ UNCHANGED <<row, made, node, call, admin, check, held, replaced>>

\* Heartbeat: by the id alone.
Heartbeat(m) ==
    /\ beat[m].step = "update"
    /\ row' = IF Exists THEN [row EXCEPT !.status = "online"] ELSE Gone
    /\ beat' = [beat EXCEPT ![m] = NoBeat]
    /\ UNCHANGED <<made, cache, node, call, admin, check, held, replaced>>

-----------------------------------------------------------------------------
(* RPCToken, before every call to the node *)

\* The cache; an empty one refuses the call.
CallGet(m) ==
    /\ call = NoCall
    /\ cache[m] # NoToken
    /\ call' = [step |-> "check", at |-> m, tok |-> cache[m], since |-> replaced]
    /\ UNCHANGED <<row, made, cache, node, beat, admin, check, held, replaced>>

\* Slip: what is cached is trusted.
CallTrusts ==
    /\ call.step = "check"
    /\ call' = [call EXCEPT !.step = "use"]
    /\ UNCHANGED <<row, made, cache, node, beat, admin, check, held, replaced>>

\* tokenMatchesRow; an error counts as a mismatch.
CallCheck ==
    /\ call.step = "check"
    /\ \/ call.tok = row.hash /\ call' = [call EXCEPT !.step = "use"]
       \/ call' = [call EXCEPT !.step = "drop"]
    /\ UNCHANGED <<row, made, cache, node, beat, admin, check, held, replaced>>

\* What is dropped may be a newer token than the one that did not match.
CallDrop ==
    /\ call.step = "drop"
    /\ cache' = [cache EXCEPT ![call.at] = NoToken]
    /\ call' = NoCall
    /\ UNCHANGED <<row, made, node, beat, admin, check, held, replaced>>

\* agentClient has the token: the node is called with it.
CallUse ==
    /\ call.step = "use"
    /\ call' = NoCall
    /\ UNCHANGED <<row, made, cache, node, beat, admin, check, held, replaced>>

-----------------------------------------------------------------------------
(* The list of nodes, asked for again and again *)

\* MarkOfflineIfStale reads all rows.  Any time may have passed since the node
\* was last heard, more than the threshold of 90 seconds too ...
StaleRead ==
    /\ check = "idle"
    /\ row.status = "online"
    /\ check' = "stale"
    /\ UNCHANGED <<row, made, cache, node, beat, call, admin, held, replaced>>

\* Slip: nodes that are silent are looked for and left as they are.
StaleForgets ==
    /\ check = "stale"
    /\ check' = "idle"
    /\ UNCHANGED <<row, made, cache, node, beat, call, admin, held, replaced>>

\* ... and updates the status by the id, whatever was heard since.
StaleUpdate ==
    /\ check = "stale"
    /\ row' = IF Exists THEN [row EXCEPT !.status = "offline"] ELSE Gone
    /\ check' = "idle"
    /\ UNCHANGED <<made, cache, node, beat, call, admin, held, replaced>>

-----------------------------------------------------------------------------
(* Around *)

\* An operation's update of its instance inserts the node again if it is not there.
OperationWrites ==
    /\ held # Gone
    /\ row' = held
    /\ held' = Gone
    /\ UNCHANGED <<made, cache, node, beat, call, admin, check, replaced>>

\* The cache and the requests of a replica die with it.
Restart(m) ==
    /\ cache' = [cache EXCEPT ![m] = NoToken]
    /\ beat' = [beat EXCEPT ![m] = NoBeat]
    /\ call' = IF call.at = m THEN NoCall ELSE call
    /\ admin' = [admin EXCEPT ![m] = NoAdmin]
    /\ UNCHANGED <<row, made, node, check, held, replaced>>

Administers ==
    \/ \E m \in Replica : RotateRead(m) \/ DeleteRow(m)
    \/ \E t \in Made : Rejoin(t)
    \/ OperationWrites

Calls == (\E m \in Replica : CallGet(m)) \/ CallCheck \/ CallDrop \/ CallUse
Lists == StaleRead \/ StaleUpdate
Beats(m) == Authenticate(m) \/ BeatCache(m) \/ Heartbeat(m)

Next ==
    \/ Administers \/ Calls \/ Lists
    \/ \E m \in Replica :
           Beats(m) \/ RotateUpdate(m) \/ RotateCache(m) \/ DeleteDrop(m) \/ Restart(m)

Spec == Init /\ [][Next]_vars

\* The node beats every 30 seconds and its beats reach every replica, the
\* dashboard and other programs ask for the list of nodes, and what is begun is
\* finished.
FairSpec ==
    /\ Spec
    /\ \A m \in Replica :
           WF_vars(Beats(m)) /\ WF_vars(RotateUpdate(m) \/ RotateCache(m) \/ DeleteDrop(m))
    /\ WF_vars(CallCheck \/ CallDrop \/ CallUse)
    /\ WF_vars(Lists)

-----------------------------------------------------------------------------
(* Properties *)

\* From some time on nobody rotates, deletes, restarts or rejoins anything.
LeftAlone == <>[][~Administers /\ ~\E m \in Replica : Restart(m)]_vars
Runs == node # NoToken /\ node = row.hash

\* "The cache repairs itself": left alone, a node that runs with its token can
\* be called through every replica again and again, whatever rotations, drops of
\* the wrong token and restarts came before.
RPCAgain == LeftAlone /\ <>[]Runs => \A m \in Replica : []<>(cache[m] = row.hash)

\* A node that goes on beating is shown online again and again, although a check
\* may overtake a beat; one that stopped, or runs with another token, is not
\* online for ever.
StatusFollows ==
    /\ LeftAlone /\ <>[]Runs => []<>(row.status = "online")
    /\ LeftAlone /\ <>[]~Runs => <>[](row.status # "online")

=============================================================================
