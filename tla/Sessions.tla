-------------------------------- MODULE Sessions --------------------------------
(***************************************************************************)
(* The sessions of one account: issued by a login or a password change     *)
(* (internal/handler/auth.go, internal/service/user.go), examined by       *)
(* RequireAuth (internal/middleware/middleware.go), ended by a logout, a   *)
(* password change or their expiry.  Several replicas of the master share  *)
(* the database; each has its own cache in front of the table of revoked   *)
(* tokens (internal/auth/revocation_persist.go).                           *)
(*                                                                         *)
(* A statement of the database is a step; a handler that reads and later   *)
(* writes is several.  The replicas' clocks agree.                         *)
(***************************************************************************)
EXTENDS Naturals

CONSTANTS
    Replica,
    Request,
    Token,       \* sessions that may be issued
    Legacy,      \* those issued before tokens had an id
    NoToken,
    NoReplica,
    Resolution,  \* ticks in a second: the claims of a token are whole seconds
    TTL,         \* life of a token, in ticks
    MaxTime,     \* bound: the clock
    MaxChange    \* bound: increments of the session version

ASSUME SessionsAssumption ==
    /\ Legacy \subseteq Token
    /\ NoToken \notin Token
    /\ NoReplica \notin Replica
    /\ Resolution \in Nat \ {0}
    /\ TTL \in Nat \ {0}
    /\ MaxTime \in Nat /\ Resolution <= MaxTime
    /\ MaxChange \in Nat

VARIABLES
    now,
    user,     \* the account's row; era tells the password hashes apart
    token,    \* the claims of the tokens issued
    revoked,  \* revoked_tokens: expiry by token, or Never
    hot,      \* the cache of each replica
    sweep,    \* the time for which a replica's clean-up runs, or Never
    req,      \* the requests being served
    out       \* history: tokens whose logout has been answered with success

vars == <<now, user, token, revoked, hot, sweep, req, out>>

Never == 0
Time == Resolution..MaxTime
Expiry == 0..(MaxTime + TTL)
Version == 0..MaxChange

User == [version : Version, era : Version, changed : 0..MaxTime]
Claims == [version : Version, era : Version, issued : 0..MaxTime, expires : Expiry]
NotIssued == [version |-> 0, era |-> 0, issued |-> 0, expires |-> Never]
Step == {"idle", "hot", "table", "user", "in", "revoke", "cache",
         "change", "write", "reread", "sign", "refused"}
Nobody == [version |-> 0, era |-> 0, changed |-> 0]
Pass == [step : Step, at : Replica \cup {NoReplica}, tok : Token \cup {NoToken}, clock : 0..MaxTime,
         row : User, ended : BOOLEAN]

TypeOK ==
    /\ now \in Time
    /\ user \in User
    /\ token \in [Token -> Claims]
    /\ revoked \in [Token -> Expiry]
    /\ hot \in [Replica -> [Token -> Expiry]]
    /\ sweep \in [Replica -> 0..MaxTime]
    /\ req \in [Request -> Pass]
    /\ out \subseteq Token

Second(t) == t - (t % Resolution)
Issued(t) == token[t].expires # Never

Idle == [step |-> "idle", at |-> NoReplica, tok |-> NoToken, clock |-> 0, row |-> Nobody, ended |-> FALSE]

\* An account that never changed its password; old tokens are out there.
Init ==
    /\ now = Resolution
    /\ user = Nobody
    /\ token = [t \in Token |->
                   IF t \in Legacy THEN [NotIssued EXCEPT !.expires = Second(Resolution + TTL)] ELSE NotIssued]
    /\ revoked = [t \in Token |-> Never]
    /\ hot = [m \in Replica |-> [t \in Token |-> Never]]
    /\ sweep = [m \in Replica |-> Never]
    /\ req = [r \in Request |-> Idle]
    /\ out = {}

Tick == now < MaxTime /\ now' = now + 1 /\ UNCHANGED <<user, token, revoked, hot, sweep, req, out>>

Goes(r, step) == req' = [req EXCEPT ![r].step = step]
Ends(r) == req' = [req EXCEPT ![r] = Idle]

-----------------------------------------------------------------------------
(* Issuing: Login, and the end of UpdatePassword *)

\* Login reads the row and verifies the password against it.
Login(r, m) ==
    /\ req[r].step = "idle"
    /\ req' = [req EXCEPT ![r] = [Idle EXCEPT !.step = "sign", !.at = m, !.row = user]]
    /\ UNCHANGED <<now, user, token, revoked, hot, sweep, out>>

Issue(r, row) ==
    \E t \in Token :
        /\ ~Issued(t)
        /\ token' = [token EXCEPT ![t] =
                        [version |-> row.version, era |-> req[r].row.era,
                         issued |-> Second(now), expires |-> Second(now + TTL)]]
        /\ Ends(r)
        /\ UNCHANGED <<now, user, revoked, hot, sweep, out>>

\* Slip: the version is read again when the token is signed.
SetSessionReadsAgain(r) == req[r].step = "sign" /\ Issue(r, user)

\* setSession and GenerateToken: signed under the version of the row that was read.
SetSession(r) == req[r].step = "sign" /\ Issue(r, req[r].row)

-----------------------------------------------------------------------------
(* RequireAuth *)

\* ParseToken: not expired.  A request that comes after the answer to the
\* logout is remembered.
Arrive(r, m, t) ==
    /\ req[r].step = "idle"
    /\ now < token[t].expires
    /\ req' = [req EXCEPT ![r] = [Idle EXCEPT !.step = IF t \in Legacy THEN "user" ELSE "hot",
                                              !.at = m, !.tok = t, !.ended = t \in out]]
    /\ UNCHANGED <<now, user, token, revoked, hot, sweep, out>>

\* IsRevoked: the cache of this replica.
CheckHot(r) ==
    LET p == req[r] IN
    /\ p.step = "hot"
    /\ req' = [req EXCEPT ![r] = [@ EXCEPT !.step = IF hot[p.at][p.tok] > now THEN "refused" ELSE "table",
                                           !.clock = now]]
    /\ UNCHANGED <<now, user, token, revoked, hot, sweep, out>>

\* Slip: a token that is not in the cache is taken for valid.
CheckTableNever(r) ==
    /\ req[r].step = "table"
    /\ Goes(r, "user")
    /\ UNCHANGED <<now, user, token, revoked, hot, sweep, out>>

\* IsRevoked: then the table, which fills the cache.  An error refuses.
CheckTable(r) ==
    LET p == req[r] IN
    /\ p.step = "table"
    /\ \/ /\ revoked[p.tok] > p.clock
          /\ hot' = [hot EXCEPT ![p.at][p.tok] = revoked[p.tok]]
          /\ Goes(r, "refused")
       \/ revoked[p.tok] <= p.clock /\ Goes(r, "user") /\ UNCHANGED hot
       \/ Goes(r, "refused") /\ UNCHANGED hot
    /\ UNCHANGED <<now, user, token, revoked, sweep, out>>

\* Slip: only the time of the password change is compared.
AdmittedByTime(claims) == claims.issued >= Second(user.changed)

\* Slip: the time of the password change is not cut to seconds.
AdmittedExactly(claims) == claims.issued >= user.changed /\ claims.version = user.version

Admitted(claims) == claims.issued >= Second(user.changed) /\ claims.version = user.version

\* The account's row decides: the time of its last change of password, and the version.
CheckUser(r) ==
    /\ req[r].step = "user"
    /\ req' = [req EXCEPT ![r] = [@ EXCEPT !.step = IF Admitted(token[req[r].tok]) THEN "in" ELSE "refused",
                                           !.clock = 0, !.ended = FALSE]]
    /\ UNCHANGED <<now, user, token, revoked, hot, sweep, out>>

\* A request that was answered, or was only a visit.
Answer(r) ==
    /\ req[r].step \in {"in", "refused"}
    /\ Ends(r)
    /\ UNCHANGED <<now, user, token, revoked, hot, sweep, out>>

-----------------------------------------------------------------------------
(* Logout *)

\* The version retires the whole family of a token without an id.
LogoutLegacy(r) ==
    /\ req[r].step = "in"
    /\ req[r].tok \in Legacy
    /\ user.version < MaxChange
    /\ user' = [user EXCEPT !.version = @ + 1]
    /\ out' = out \cup {req[r].tok}
    /\ Ends(r)
    /\ UNCHANGED <<now, token, revoked, hot, sweep>>

\* Slip: only this process learns of the logout.
RevokeInMemory(r) ==
    /\ req[r].step = "in"
    /\ req[r].tok \notin Legacy
    /\ Goes(r, "cache")
    /\ UNCHANGED <<now, user, token, revoked, hot, sweep, out>>

\* Revoke: the row, keeping the later expiry; when it fails the logout does too.
Revoke(r) ==
    LET t == req[r].tok IN
    /\ req[r].step = "in"
    /\ t \notin Legacy
    /\ \/ /\ revoked' = [revoked EXCEPT ![t] = IF @ > token[t].expires THEN @ ELSE token[t].expires]
          /\ \/ Goes(r, "cache")
             \/ Ends(r)
       \/ Ends(r) /\ UNCHANGED revoked
    /\ UNCHANGED <<now, user, token, hot, sweep, out>>

\* Revoke: the cache; Logout: the answer.
RevokeHot(r) ==
    LET p == req[r] IN
    /\ p.step = "cache"
    /\ hot' = [hot EXCEPT ![p.at][p.tok] = IF @ > token[p.tok].expires THEN @ ELSE token[p.tok].expires]
    /\ out' = out \cup {p.tok}
    /\ Ends(r)
    /\ UNCHANGED <<now, user, token, revoked, sweep>>

-----------------------------------------------------------------------------
(* UpdatePassword *)

\* ChangePassword: the row is read and the old password verified.
VerifyOld(r) ==
    /\ req[r].step = "in"
    /\ req' = [req EXCEPT ![r] = [@ EXCEPT !.step = "change", !.tok = NoToken]]
    /\ UNCHANGED <<now, user, token, revoked, hot, sweep, out>>

\* TouchPassword: hashing takes its time, the clock is read before the update.
TouchPassword(r) ==
    /\ req[r].step = "change"
    /\ req' = [req EXCEPT ![r] = [@ EXCEPT !.step = "write", !.row = [req[r].row EXCEPT !.changed = now]]]
    /\ UNCHANGED <<now, user, token, revoked, hot, sweep, out>>

\* Slip: the hash is stored and the version left alone.
WritePasswordOnly(r) ==
    /\ req[r].step = "write"
    /\ user.era < MaxChange
    /\ user' = [user EXCEPT !.era = @ + 1, !.changed = req[r].row.changed]
    /\ Goes(r, "reread")
    /\ UNCHANGED <<now, token, revoked, hot, sweep, out>>

\* One update for hash, time and version; it looks at nothing but the id.
WritePassword(r) ==
    /\ req[r].step = "write"
    /\ user.version < MaxChange
    /\ \/ /\ user' = [version |-> user.version + 1, era |-> user.era + 1, changed |-> req[r].row.changed]
          /\ req' = [req EXCEPT ![r] = [@ EXCEPT !.step = "reread", !.row = Nobody]]
       \/ Ends(r) /\ UNCHANGED user
    /\ UNCHANGED <<now, token, revoked, hot, sweep, out>>

\* The row is read again for the new session.
Reread(r) ==
    /\ req[r].step = "reread"
    /\ \/ req' = [req EXCEPT ![r] = [@ EXCEPT !.step = "sign", !.row = user]]
       \/ Ends(r)
    /\ UNCHANGED <<now, user, token, revoked, hot, sweep, out>>

\* `virtualis reset-admin`, another process: hash, time and version in one update,
\* the time read at some moment before it.
ResetAdmin ==
    /\ user.version < MaxChange
    /\ \E read \in Resolution..now :
           user' = [version |-> user.version + 1, era |-> user.era + 1, changed |-> read]
    /\ UNCHANGED <<now, token, revoked, hot, sweep, req, out>>

-----------------------------------------------------------------------------
(* Replicas *)

Past(expiry) == expiry # Never /\ expiry <= now

\* CleanupExpired: rows of tokens that have expired anyway, at a time read first.
\* A clean-up that finds nothing is left out.
CleanupTable(m) ==
    /\ sweep[m] = Never
    /\ \E t \in Token : Past(revoked[t]) \/ Past(hot[m][t])
    /\ sweep' = [sweep EXCEPT ![m] = now]
    /\ revoked' = [t \in Token |-> IF revoked[t] <= now THEN Never ELSE revoked[t]]
    /\ UNCHANGED <<now, user, token, hot, req, out>>

CleanupHot(m) ==
    /\ sweep[m] # Never
    /\ hot' = [hot EXCEPT ![m] = [t \in Token |-> IF @[t] <= sweep[m] THEN Never ELSE @[t]]]
    /\ sweep' = [sweep EXCEPT ![m] = Never]
    /\ UNCHANGED <<now, user, token, revoked, req, out>>

\* warmCache; when its query fails the cache starts empty.
WarmCache == {[t \in Token |-> IF revoked[t] > now THEN revoked[t] ELSE Never], [t \in Token |-> Never]}

\* A replica dies with its requests and comes back.
Restart(m) ==
    /\ \E cache \in WarmCache : hot' = [hot EXCEPT ![m] = cache]
    /\ sweep' = [sweep EXCEPT ![m] = Never]
    /\ req' = [r \in Request |-> IF req[r].at = m THEN Idle ELSE req[r]]
    /\ UNCHANGED <<now, user, token, revoked, out>>

Next ==
    \/ Tick
    \/ ResetAdmin
    \/ \E r \in Request :
           \/ \E m \in Replica : Login(r, m) \/ \E t \in Token : Arrive(r, m, t)
           \/ SetSession(r)
           \/ CheckHot(r) \/ CheckTable(r) \/ CheckUser(r) \/ Answer(r)
           \/ LogoutLegacy(r) \/ Revoke(r) \/ RevokeHot(r)
           \/ VerifyOld(r) \/ TouchPassword(r) \/ WritePassword(r) \/ Reread(r)
    \/ \E m \in Replica : CleanupTable(m) \/ CleanupHot(m) \/ Restart(m)

Spec == Init /\ [][Next]_vars

-----------------------------------------------------------------------------
(* Properties *)

GetsIn(r) == req[r].step = "user" /\ req'[r].step = "in"

\* A logout that was answered with success ends the session: no request that
\* comes later gets in with its token, at any replica and after any restart or
\* clean-up, while the token has not expired.  (A request that straddles the
\* expiry may pass the first look at the clock and miss the row at the second.)
RevokedStaysOut ==
    [][\A r \in Request : GetsIn(r) /\ req[r].ended => now >= token[req[r].tok].expires]_vars

\* Nobody gets in on a login whose password is no longer the account's, however
\* the login and the change of password overlapped.
OldPasswordStaysOut ==
    [][\A r \in Request : GetsIn(r) => token[req[r].tok].era = user.era]_vars

\* The comparison of times never refuses what the version would let in: a token
\* signed in the second of the password change works at once.
FreshTokenWorks ==
    [][\A r \in Request :
          req[r].step = "user" /\ req'[r].step = "refused"
              => token[req[r].tok].version # user.version]_vars

=============================================================================
