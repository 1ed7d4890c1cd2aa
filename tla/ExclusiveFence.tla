---------------------------- MODULE ExclusiveFence ----------------------------
(***************************************************************************)
(* What the lifecycle fence of an instance promises, without saying how:   *)
(* at most one operation owns the instance; ownership is never taken away  *)
(* from its owner; an owner that disappears, or keeps the fence on         *)
(* purpose, strands it; and an instance on which destructive work may      *)
(* still be running is never up for grabs.                                 *)
(***************************************************************************)
CONSTANTS Request, Nobody, Stranded, Gone

VARIABLES
    owner,   \* the request that owns the instance, or Nobody, Stranded, Gone
    danger   \* requests whose destructive work may be running on the node

TypeOK ==
    /\ owner \in Request \cup {Nobody, Stranded, Gone}
    /\ danger \subseteq Request

Init == owner = Nobody /\ danger = {}

Acquire(r) == owner = Nobody /\ owner' = r /\ UNCHANGED danger

Launch(r) == owner = r /\ danger' = danger \cup {r} /\ UNCHANGED owner

Land(r) == danger' = danger \ {r} /\ UNCHANGED owner

\* The owner lets go, or has deleted the instance.
LetGo(r) == owner = r /\ danger = {} /\ owner' \in {Nobody, Gone} /\ UNCHANGED danger

\* The owner retains the fence or crashes; or a claim is lost half way.
Strand == owner \in Request \cup {Nobody} /\ owner' = Stranded /\ UNCHANGED danger

\* Manual recovery, once the node is known to be quiet.
Recover == owner = Stranded /\ danger = {} /\ owner' = Nobody /\ UNCHANGED danger

Next ==
    \/ \E r \in Request : Acquire(r) \/ Launch(r) \/ Land(r) \/ LetGo(r)
    \/ Strand
    \/ Recover

Spec == Init /\ [][Next]_<<owner, danger>>

=============================================================================
