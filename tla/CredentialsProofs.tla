----------------------------- MODULE CredentialsProofs -----------------------------
(***************************************************************************)
(* Proofs about the two kinds of credentials, for any number of replicas:  *)
(* the sessions of an account (Sessions) and the token of a node           *)
(* (AgentTokens, in the second half).                                      *)
(*                                                                         *)
(* Sessions: a revoked session stays out, an old password stays out, and a *)
(* fresh token is let in.  The session version carries the argument about  *)
(* passwords: what was signed, or is about to be, under the present        *)
(* version was signed under the present password, and not before its       *)
(* change.  The argument about logouts is that a token whose logout was    *)
(* answered has a row that outlives it, or a version that is past.         *)
(***************************************************************************)
EXTENDS Sessions, TokenRequirements, TLAPS

\* A version that was read of the account, with its password, is past or is the
\* present one.
ReadOf(row) == row.version <= user.version /\ (row.version = user.version => row.era = user.era)

\* Versions only grow, a change of password is one of version, and no later than
\* the present; what is signed under the present version is of its time.
VersionInv ==
    /\ user.era <= user.version /\ user.changed <= now
    /\ \A r \in Request : /\ req[r].row.changed <= now
                          /\ req[r].step = "sign" => ReadOf(req[r].row)
    /\ \A t \in Token : /\ ReadOf(token[t])
                        /\ token[t].version = user.version => token[t].issued >= Second(user.changed)

Over(t) == now >= token[t].expires

\* A token whose logout took effect: retired with its version, or kept in the
\* table until it has expired anyway.
Ended(t) == IF t \in Legacy THEN token[t].version < user.version
                            ELSE revoked[t] >= token[t].expires \/ Over(t)

\* What a request knows of its token at each of its steps.
RequestInv(r) ==
    LET p == req[r] IN
    /\ p.step \in {"hot", "table", "user", "in", "cache"} => p.tok \in Token
    /\ p.step \in {"hot", "table", "cache"} => p.tok \notin Legacy
    /\ p.tok \in Token => Issued(p.tok)
    /\ p.step = "table" => p.clock <= now
    /\ p.step = "cache" => Ended(p.tok)
    /\ p.ended => p.tok \in out /\ p.step # "in"
    /\ p.ended /\ p.step = "user" /\ p.tok \notin Legacy => Over(p.tok)

LogoutInv ==
    /\ \A t \in out : Issued(t) /\ Ended(t)
    /\ \A r \in Request : RequestInv(r)

SessionInv == TypeOK /\ VersionInv /\ LogoutInv

-----------------------------------------------------------------------------
(* Whole seconds *)

\* Second cuts a time to its second: never beyond it, and without changing the order.
LEMMA SecondFacts ==
    /\ \A t \in Nat : Second(t) \in Nat /\ Second(t) <= t
    /\ \A s, t \in Nat : s <= t => Second(s) <= Second(t)
    /\ Second(0) = 0
  BY SessionsAssumption DEF Second

-----------------------------------------------------------------------------
(* Steps of a request *)

\* What is put in the place of a request.
LEMMA Put ==
    ASSUME TypeOK, NEW r \in Request, NEW p \in Pass, req' = [req EXCEPT ![r] = p]
    PROVE  /\ req' \in [Request -> Pass]
           /\ req'[r] = p
           /\ \A q \in Request : q # r => req'[q] = req[q]
  BY DEF TypeOK

\* A request that goes on keeps all but its step; the others stay.
LEMMA GoesOn ==
    ASSUME TypeOK, NEW r \in Request, NEW s \in Step, Goes(r, s)
    PROVE  /\ req' \in [Request -> Pass]
           /\ \A q \in Request : q # r => req'[q] = req[q]
           /\ req'[r].step = s /\ req'[r].tok = req[r].tok /\ req'[r].row = req[r].row
           /\ req'[r].clock = req[r].clock /\ req'[r].ended = req[r].ended
  <1>1. req \in [Request -> Pass] /\ req' = [req EXCEPT ![r].step = s]
    BY DEF TypeOK, Goes
  <1> QED
    BY <1>1 DEF Pass

\* A request that is idle is one.
LEMMA IdlePass == Idle \in Pass
  BY SessionsAssumption DEF Idle, Pass, Step, User, Version, Nobody

\* A request that ends is idle.
LEMMA GoesHome ==
    ASSUME TypeOK, NEW r \in Request, Ends(r)
    PROVE  /\ req' \in [Request -> Pass]
           /\ \A q \in Request : q # r => req'[q] = req[q]
           /\ req'[r].step = "idle" /\ req'[r].tok = NoToken /\ req'[r].row = Nobody
           /\ req'[r].ended = FALSE
  <1>1. req \in [Request -> Pass] /\ req' = [req EXCEPT ![r] = Idle]
    BY DEF TypeOK, Ends
  <1> QED
    BY <1>1, IdlePass DEF Idle, Pass

\* Every action keeps the types.
LEMMA TypeStep ==
    ASSUME SessionInv, [Next]_vars PROVE TypeOK'
  <1> USE SessionsAssumption DEF SessionInv
  <1>1. CASE UNCHANGED vars
    BY <1>1, SecondFacts DEF vars, TypeOK
  <1>2. CASE Tick
    BY <1>2, SecondFacts DEF Tick, Time, TypeOK
  <1>3. CASE ResetAdmin
    BY <1>3, SecondFacts DEF ResetAdmin, User, Version, Time, VersionInv, TypeOK
  <1>4. ASSUME NEW r \in Request, NEW m \in Replica, Login(r, m) PROVE TypeOK'
    <2> DEFINE p == [Idle EXCEPT !.step = "sign", !.at = m, !.row = user]
    <2>1. /\ req[r] \in Pass /\ Idle \in Pass /\ user \in User /\ (now \in 0..MaxTime /\ 0 \in 0..MaxTime)
      BY IdlePass DEF TypeOK, Time
    <2>2. req' = [req EXCEPT ![r] = p]
      BY <1>4 DEF Login
    <2>4. p \in Pass
      BY <2>1 DEF Pass, Step
    <2> HIDE DEF p
    <2>5. req' \in [Request -> Pass]
      BY <2>2, <2>4, Put
    <2> QED
      BY <2>5, <1>4 DEF Login, TypeOK
  <1>5. ASSUME NEW r \in Request, NEW m \in Replica, NEW t \in Token, Arrive(r, m, t) PROVE TypeOK'
    <2> DEFINE e == t \in out
    <2>e. e \in BOOLEAN
      OBVIOUS
    <2> HIDE DEF e
    <2> DEFINE s == IF t \in Legacy THEN "user" ELSE "hot"
    <2> DEFINE p == [Idle EXCEPT !.step = s, !.at = m, !.tok = t, !.ended = e]
    <2>1. /\ req[r] \in Pass /\ Idle \in Pass /\ user \in User /\ (now \in 0..MaxTime /\ 0 \in 0..MaxTime)
      BY IdlePass DEF TypeOK, Time
    <2>2. req' = [req EXCEPT ![r] = p]
      BY <1>5 DEF Arrive, e
    <2>3. s \in Step
      BY DEF Step
    <2> HIDE DEF s
    <2>4. p \in Pass
      BY <2>1, <2>3, <2>e DEF Pass
    <2> HIDE DEF p
    <2>5. req' \in [Request -> Pass]
      BY <2>2, <2>4, Put
    <2> QED
      BY <2>5, <1>5 DEF Arrive, TypeOK
  <1>6. ASSUME NEW r \in Request, SetSession(r) PROVE TypeOK'
    BY <1>6, SecondFacts DEF SetSession, Ends, Idle, Nobody, Pass, Step, User, Claims, Version,
       Time, Expiry, Issue, TypeOK
  <1>7. ASSUME NEW r \in Request, CheckHot(r) PROVE TypeOK'
    <2> DEFINE s == IF hot[req[r].at][req[r].tok] > now THEN "refused" ELSE "table"
    <2> DEFINE p == [req[r] EXCEPT !.step = s, !.clock = now]
    <2>1. /\ req[r] \in Pass /\ Idle \in Pass /\ user \in User /\ (now \in 0..MaxTime /\ 0 \in 0..MaxTime)
      BY IdlePass DEF TypeOK, Time
    <2>2. req' = [req EXCEPT ![r] = p]
      BY <1>7 DEF CheckHot
    <2>3. s \in Step
      BY DEF Step
    <2> HIDE DEF s
    <2>4. p \in Pass
      BY <2>1, <2>3 DEF Pass
    <2> HIDE DEF p
    <2>5. req' \in [Request -> Pass]
      BY <2>2, <2>4, Put
    <2> QED
      BY <2>5, <1>7 DEF CheckHot, TypeOK
  <1>8. ASSUME NEW r \in Request, CheckTable(r) PROVE TypeOK'
    <2>1. req' \in [Request -> Pass]
      BY <1>8, GoesOn DEF CheckTable, Step
    <2>2. hot' \in [Replica -> [Token -> Expiry]]
      BY <1>8 DEF CheckTable, TypeOK
    <2> QED
      BY <2>1, <2>2, <1>8 DEF CheckTable, TypeOK
  <1>9. ASSUME NEW r \in Request, CheckUser(r) PROVE TypeOK'
    <2> DEFINE s == IF Admitted(token[req[r].tok]) THEN "in" ELSE "refused"
    <2> DEFINE p == [req[r] EXCEPT !.step = s, !.clock = 0, !.ended = FALSE]
    <2>1. /\ req[r] \in Pass /\ Idle \in Pass /\ user \in User /\ (now \in 0..MaxTime /\ 0 \in 0..MaxTime)
      BY IdlePass DEF TypeOK, Time
    <2>2. req' = [req EXCEPT ![r] = p]
      BY <1>9 DEF CheckUser
    <2>3. s \in Step
      BY DEF Step
    <2> HIDE DEF s
    <2>4. p \in Pass
      BY <2>1, <2>3 DEF Pass
    <2> HIDE DEF p
    <2>5. req' \in [Request -> Pass]
      BY <2>2, <2>4, Put
    <2> QED
      BY <2>5, <1>9 DEF CheckUser, TypeOK
  <1>10. ASSUME NEW r \in Request, Answer(r) PROVE TypeOK'
    BY <1>10, SecondFacts DEF Answer, Ends, Idle, Nobody, Pass, Step, User, Version, TypeOK
  <1>11. ASSUME NEW r \in Request, LogoutLegacy(r) PROVE TypeOK'
    <2>1. req' \in [Request -> Pass]
      BY <1>11, GoesHome DEF LogoutLegacy
    <2>2. user' \in User
      BY <1>11 DEF LogoutLegacy, TypeOK, User, Version
    <2>3. req[r].tok \in Token
      BY <1>11 DEF LogoutLegacy, TypeOK, Pass
    <2> QED
      BY <2>1, <2>2, <2>3, <1>11 DEF LogoutLegacy, TypeOK
  <1>12. ASSUME NEW r \in Request, Revoke(r) PROVE TypeOK'
    <2>1. req' \in [Request -> Pass]
      BY <1>12, GoesOn, GoesHome DEF Revoke, Step
    <2>2. revoked' \in [Token -> Expiry]
      BY <1>12 DEF Revoke, TypeOK, Claims
    <2> QED
      BY <2>1, <2>2, <1>12 DEF Revoke, TypeOK
  <1>13. ASSUME NEW r \in Request, RevokeHot(r) PROVE TypeOK'
    <2>1. req' \in [Request -> Pass]
      BY <1>13, GoesHome DEF RevokeHot
    <2>2. req[r].tok \in Token
      BY <1>13 DEF RevokeHot, LogoutInv, RequestInv
    <2>3. hot' \in [Replica -> [Token -> Expiry]]
      BY <2>2, <1>13 DEF RevokeHot, TypeOK, Claims
    <2> QED
      BY <2>1, <2>2, <2>3, <1>13 DEF RevokeHot, TypeOK
  <1>14. ASSUME NEW r \in Request, VerifyOld(r) PROVE TypeOK'
    <2> DEFINE p == [req[r] EXCEPT !.step = "change", !.tok = NoToken]
    <2>1. /\ req[r] \in Pass /\ Idle \in Pass /\ user \in User /\ (now \in 0..MaxTime /\ 0 \in 0..MaxTime)
      BY IdlePass DEF TypeOK, Time
    <2>2. req' = [req EXCEPT ![r] = p]
      BY <1>14 DEF VerifyOld
    <2>4. p \in Pass
      BY <2>1 DEF Pass, Step
    <2> HIDE DEF p
    <2>5. req' \in [Request -> Pass]
      BY <2>2, <2>4, Put
    <2> QED
      BY <2>5, <1>14 DEF VerifyOld, TypeOK
  <1>15. ASSUME NEW r \in Request, TouchPassword(r) PROVE TypeOK'
    <2> DEFINE w == [req[r].row EXCEPT !.changed = now]
    <2>e. w \in User
      BY DEF TypeOK, Pass, User, Time
    <2> HIDE DEF w
    <2> DEFINE p == [req[r] EXCEPT !.step = "write", !.row = w]
    <2>1. /\ req[r] \in Pass /\ Idle \in Pass /\ user \in User /\ (now \in 0..MaxTime /\ 0 \in 0..MaxTime)
      BY IdlePass DEF TypeOK, Time
    <2>2. req' = [req EXCEPT ![r] = p]
      BY <1>15 DEF TouchPassword, w
    <2>4. p \in Pass
      BY <2>1, <2>e DEF Pass, Step
    <2> HIDE DEF p
    <2>5. req' \in [Request -> Pass]
      BY <2>2, <2>4, Put
    <2> QED
      BY <2>5, <1>15 DEF TouchPassword, TypeOK
  <1>16. ASSUME NEW r \in Request, WritePassword(r) PROVE TypeOK'
    <2>1. CASE Ends(r) /\ UNCHANGED user
      BY <2>1, <1>16, GoesHome DEF WritePassword, TypeOK
    <2>2. CASE /\ user' = [version |-> user.version + 1, era |-> user.era + 1, changed |-> req[r].row.changed]
               /\ req' = [req EXCEPT ![r] = [@ EXCEPT !.step = "reread", !.row = Nobody]]
      <3> DEFINE p == [req[r] EXCEPT !.step = "reread", !.row = Nobody]
      <3>1. req[r] \in Pass /\ Nobody \in User
        BY DEF TypeOK, Nobody, User, Version
      <3>2. req' = [req EXCEPT ![r] = p]
        BY <2>2
      <3>3. p \in Pass
        BY <3>1 DEF Pass, Step
      <3>4. user' \in User
        BY <2>2, <3>1, <1>16 DEF WritePassword, TypeOK, VersionInv, User, Version, Pass
      <3> HIDE DEF p
      <3>5. req' \in [Request -> Pass]
        BY <3>2, <3>3, Put
      <3> QED
        BY <3>4, <3>5, <1>16 DEF WritePassword, TypeOK
    <2> QED
      BY <2>1, <2>2, <1>16 DEF WritePassword
  <1>17. ASSUME NEW r \in Request, Reread(r) PROVE TypeOK'
    <2>1. CASE Ends(r)
      BY <2>1, <1>17, GoesHome DEF Reread, TypeOK
    <2>2. CASE req' = [req EXCEPT ![r] = [@ EXCEPT !.step = "sign", !.row = user]]
      <3> DEFINE p == [req[r] EXCEPT !.step = "sign", !.row = user]
      <3>1. req[r] \in Pass /\ user \in User
        BY DEF TypeOK
      <3>2. req' = [req EXCEPT ![r] = p]
        BY <2>2
      <3>3. p \in Pass
        BY <3>1 DEF Pass, Step
      <3> HIDE DEF p
      <3>4. req' \in [Request -> Pass]
        BY <3>2, <3>3, Put
      <3> QED
        BY <3>4, <1>17 DEF Reread, TypeOK
    <2> QED
      BY <2>1, <2>2, <1>17 DEF Reread
  <1>18. ASSUME NEW m \in Replica, CleanupTable(m) PROVE TypeOK'
    BY <1>18, SecondFacts DEF CleanupTable, Time, Expiry, TypeOK
  <1>19. ASSUME NEW m \in Replica, CleanupHot(m) PROVE TypeOK'
    BY <1>19, SecondFacts DEF CleanupHot, Expiry, Never, TypeOK
  <1>20. ASSUME NEW m \in Replica, Restart(m) PROVE TypeOK'
    <2>1. req' \in [Request -> Pass]
      BY <1>20 DEF Restart, TypeOK, Pass, Step, Idle, Nobody, User, Version
    <2>2. WarmCache \subseteq [Token -> Expiry]
      <3>1. revoked \in [Token -> Expiry] /\ Never \in Expiry
        BY DEF TypeOK, Never, Expiry
      <3> QED
        BY <3>1 DEF WarmCache
    <2>3. hot' \in [Replica -> [Token -> Expiry]]
      BY <2>2, <1>20 DEF Restart, TypeOK
    <2> QED
      BY <2>1, <2>3, <1>20 DEF Restart, TypeOK, Never
  <1> QED
    BY <1>1, <1>2, <1>3, <1>4, <1>5, <1>6, <1>7, <1>8, <1>9, <1>10, <1>11, <1>12, <1>13, <1>14,
       <1>15, <1>16, <1>17, <1>18, <1>19, <1>20, SecondFacts DEF Next, TypeOK

-----------------------------------------------------------------------------
(* Versions *)

\* A request that carries no row further does nothing to the versions.
LEMMA VersionFrame ==
    ASSUME VersionInv, UNCHANGED <<now, user, token>>,
           \A r \in Request : /\ req'[r].row.changed <= now
                              /\ req'[r].step = "sign" => ReadOf(req'[r].row)
    PROVE  VersionInv'
  <1>1. user'.era <= user'.version /\ user'.changed <= now'
    BY DEF VersionInv
  <1>2. ASSUME NEW r \in Request
        PROVE  (req[r].row.changed <= now /\ (req[r].step = "sign" => ReadOf(req[r].row)))'
    BY <1>2 DEF ReadOf
  <1>3. ASSUME NEW t \in Token
        PROVE  (ReadOf(token[t]) /\ (token[t].version = user.version => token[t].issued >= Second(user.changed)))'
    BY <1>3 DEF VersionInv, ReadOf
  <1> QED
    BY <1>1, <1>2, <1>3 DEF VersionInv

\* Nor does one that ends.
LEMMA EndsFrame ==
    ASSUME SessionInv, NEW r \in Request, Ends(r), UNCHANGED <<now, user, token>> PROVE VersionInv'
  <1>1. /\ \A q \in Request : q # r => req'[q] = req[q]
        /\ req'[r].step = "idle" /\ req'[r].row = Nobody
    BY GoesHome DEF SessionInv
  <1>2. now >= 0
    BY SessionsAssumption DEF SessionInv, TypeOK, Time
  <1> QED
    BY <1>1, <1>2, VersionFrame DEF SessionInv, VersionInv, Nobody

\* A version, once past, stays so; what is signed now is not older than the password.
LEMMA VersionStep ==
    ASSUME SessionInv, TypeOK', [Next]_vars PROVE VersionInv'
  <1> USE SessionsAssumption DEF SessionInv
  <1>1. CASE UNCHANGED vars
    BY <1>1, SecondFacts DEF vars, TypeOK, ReadOf, VersionInv
  <1>2. CASE Tick
    BY <1>2, SecondFacts DEF Tick, ReadOf, TypeOK, User, Pass, VersionInv
  <1>3. CASE ResetAdmin
    BY <1>3, SecondFacts DEF ResetAdmin, ReadOf, TypeOK, User, Version, Pass, Claims, VersionInv
  <1>4. ASSUME NEW r \in Request, NEW m \in Replica, Login(r, m) PROVE VersionInv'
    BY <1>4, SecondFacts DEF Login, ReadOf, TypeOK, User, Version, VersionInv
  <1>5. ASSUME NEW r \in Request, NEW m \in Replica, NEW t \in Token, Arrive(r, m, t) PROVE VersionInv'
    BY <1>5, SecondFacts DEF Arrive, Idle, Nobody, ReadOf, TypeOK, Time, VersionInv
  <1>6. ASSUME NEW r \in Request, SetSession(r) PROVE VersionInv'
    BY <1>6, SecondFacts DEF SetSession, Ends, Idle, Nobody, Issue, ReadOf, TypeOK, User, Time,
       VersionInv
  <1>7. ASSUME NEW r \in Request, CheckHot(r) PROVE VersionInv'
    BY <1>7, SecondFacts DEF CheckHot, ReadOf, VersionInv
  <1>8. ASSUME NEW r \in Request, CheckTable(r) PROVE VersionInv'
    <2>1. PICK s \in {"refused", "user"} : Goes(r, s)
      BY <1>8 DEF CheckTable
    <2>2. /\ \A q \in Request : q # r => req'[q] = req[q]
          /\ req'[r].row = req[r].row /\ req'[r].step # "sign"
      BY <2>1, GoesOn DEF Step
    <2> QED
      BY <2>2, <1>8, VersionFrame DEF CheckTable, VersionInv
  <1>9. ASSUME NEW r \in Request, CheckUser(r) PROVE VersionInv'
    BY <1>9, SecondFacts DEF CheckUser, ReadOf, VersionInv
  <1>10. ASSUME NEW r \in Request, Answer(r) PROVE VersionInv'
    BY <1>10, SecondFacts DEF Answer, Ends, Idle, Nobody, ReadOf, TypeOK, Time, VersionInv
  <1>11. ASSUME NEW r \in Request, LogoutLegacy(r) PROVE VersionInv'
    BY <1>11, SecondFacts DEF LogoutLegacy, Ends, Idle, Nobody, ReadOf, TypeOK, User, Version,
       Pass, Claims, Time, VersionInv
  <1>12. ASSUME NEW r \in Request, Revoke(r) PROVE VersionInv'
    <2>1. CASE Goes(r, "cache")
      <3>1. /\ \A q \in Request : q # r => req'[q] = req[q]
            /\ req'[r].row = req[r].row /\ req'[r].step # "sign"
        BY <2>1, GoesOn DEF Step
      <3> QED
        BY <3>1, <1>12, VersionFrame DEF Revoke, VersionInv
    <2>2. CASE Ends(r)
      BY <2>2, <1>12, EndsFrame DEF Revoke
    <2> QED
      BY <2>1, <2>2, <1>12 DEF Revoke
  <1>13. ASSUME NEW r \in Request, RevokeHot(r) PROVE VersionInv'
    BY <1>13, SecondFacts DEF RevokeHot, Ends, Idle, Nobody, ReadOf, TypeOK, Time, VersionInv
  <1>14. ASSUME NEW r \in Request, VerifyOld(r) PROVE VersionInv'
    BY <1>14, SecondFacts DEF VerifyOld, ReadOf, VersionInv
  <1>15. ASSUME NEW r \in Request, TouchPassword(r) PROVE VersionInv'
    BY <1>15, SecondFacts DEF TouchPassword, ReadOf, TypeOK, Time, VersionInv
  <1>16. ASSUME NEW r \in Request, WritePassword(r) PROVE VersionInv'
    <2>1. CASE Ends(r) /\ UNCHANGED user
      BY <2>1, <1>16, EndsFrame DEF WritePassword
    <2>2. CASE /\ user' = [version |-> user.version + 1, era |-> user.era + 1, changed |-> req[r].row.changed]
               /\ req' = [req EXCEPT ![r] = [@ EXCEPT !.step = "reread", !.row = Nobody]]
      <3>1. /\ req'[r].step = "reread" /\ req'[r].row = Nobody
            /\ \A q \in Request : q # r => req'[q] = req[q]
        BY <2>2 DEF TypeOK, Pass
      <3>2. /\ user'.version = user.version + 1 /\ user'.era = user.era + 1
            /\ user'.changed = req[r].row.changed /\ now' = now /\ token' = token
        BY <2>2, <1>16 DEF WritePassword
      <3>3. /\ user.version \in Nat /\ user.era \in Nat /\ now \in Nat
            /\ \A q \in Request : req[q].row.version \in Nat
            /\ \A t \in Token : token[t].version \in Nat
        BY DEF TypeOK, User, Version, Time, Pass, Claims
      <3>4. \A q \in Request : /\ req'[q].row.changed <= now
                               /\ req'[q].step = "sign" => req'[q].row.version < user'.version
        BY <3>1, <3>2, <3>3 DEF VersionInv, ReadOf, Nobody
      <3>5. \A t \in Token : token[t].version < user'.version
        BY <3>2, <3>3 DEF VersionInv, ReadOf
      <3>6. user'.era <= user'.version /\ user'.changed <= now
        BY <3>2, <3>3 DEF VersionInv
      <3>7. ASSUME NEW q \in Request
            PROVE  (req[q].row.changed <= now /\ (req[q].step = "sign" => ReadOf(req[q].row)))'
        <4>1. req'[q].step = "sign" => req'[q].row.version <= user'.version /\ req'[q].row.version # user'.version
          <5>1. req'[q].row.version \in Nat
            BY <3>1, <3>3 DEF Nobody
          <5> QED
            BY <3>2, <3>3, <3>4, <5>1
        <4> QED
          BY <4>1, <3>2, <3>4 DEF ReadOf
      <3>8. ASSUME NEW t \in Token
            PROVE  (ReadOf(token[t]) /\ (token[t].version = user.version => token[t].issued >= Second(user.changed)))'
        <4>1. token'[t].version <= user'.version /\ token'[t].version # user'.version
          BY <3>2, <3>3, <3>5
        <4> QED
          BY <4>1 DEF ReadOf
      <3> QED
        BY <3>2, <3>6, <3>7, <3>8 DEF VersionInv
    <2> QED
      BY <2>1, <2>2, <1>16 DEF WritePassword
  <1>17. ASSUME NEW r \in Request, Reread(r) PROVE VersionInv'
    <2>1. CASE Ends(r)
      BY <2>1, <1>17, EndsFrame DEF Reread
    <2>2. CASE req' = [req EXCEPT ![r] = [@ EXCEPT !.step = "sign", !.row = user]]
      <3>1. /\ req'[r].row = user
            /\ \A q \in Request : q # r => req'[q] = req[q]
        BY <2>2 DEF TypeOK, Pass
      <3>2. ReadOf(user) /\ user.changed <= now
        BY DEF ReadOf, VersionInv, TypeOK, User, Version
      <3> QED
        BY <3>1, <3>2, <1>17, VersionFrame DEF Reread, VersionInv
    <2> QED
      BY <2>1, <2>2, <1>17 DEF Reread
  <1>18. ASSUME NEW m \in Replica, CleanupTable(m) PROVE VersionInv'
    BY <1>18, SecondFacts DEF CleanupTable, ReadOf, VersionInv
  <1>19. ASSUME NEW m \in Replica, CleanupHot(m) PROVE VersionInv'
    BY <1>19, SecondFacts DEF CleanupHot, ReadOf, VersionInv
  <1>20. ASSUME NEW m \in Replica, Restart(m) PROVE VersionInv'
    BY <1>20, SecondFacts DEF Restart, Idle, Nobody, ReadOf, TypeOK, Time, VersionInv
  <1> QED
    BY <1>1, <1>2, <1>3, <1>4, <1>5, <1>6, <1>7, <1>8, <1>9, <1>10, <1>11, <1>12, <1>13, <1>14,
       <1>15, <1>16, <1>17, <1>18, <1>19, <1>20, SecondFacts DEF Next

-----------------------------------------------------------------------------
(* Logouts *)

\* Nothing brings an ended token back: versions and the expiries in the table grow.
LEMMA LogoutFrame ==
    ASSUME SessionInv, TypeOK', token' = token, now' = now, out' = out,
           user'.version >= user.version, \A t \in Token : revoked'[t] >= revoked[t],
           \A q \in Request : req'[q] = req[q] \/ RequestInv(q)'
    PROVE  LogoutInv'
  <1>1. ASSUME NEW t \in Token, Ended(t) PROVE Ended(t)'
    <2>1. /\ token[t].version \in Nat /\ user.version \in Nat /\ user'.version \in Nat
          /\ token[t].expires \in Nat /\ revoked[t] \in Nat /\ revoked'[t] \in Nat
      BY SessionsAssumption DEF SessionInv, TypeOK, Claims, User, Version, Expiry
    <2> QED
      BY <1>1, <2>1 DEF Ended, Over
  <1>2. \A t \in out' : (Issued(t) /\ Ended(t))'
    BY <1>1 DEF SessionInv, LogoutInv, TypeOK, Issued
  <1>3. ASSUME NEW q \in Request, req'[q] = req[q] PROVE RequestInv(q)'
    <2>1. RequestInv(q) /\ (req[q].step = "cache" => req[q].tok \in Token)
      BY DEF SessionInv, LogoutInv, RequestInv
    <2>2. req[q].step = "cache" => Ended(req[q].tok)'
      BY <1>1, <1>3, <2>1 DEF RequestInv
    <2> QED
      BY <1>3, <2>1, <2>2 DEF RequestInv, Issued, Over
  <1> QED
    BY <1>2, <1>3 DEF LogoutInv

\* A request that ends knows nothing any more.
LEMMA RequestEnds ==
    ASSUME SessionInv, NEW r \in Request, Ends(r), NEW q \in Request PROVE req'[q] = req[q] \/ RequestInv(q)'
  <1>1. /\ q # r => req'[q] = req[q]
        /\ req'[r].step = "idle" /\ req'[r].tok = NoToken /\ req'[r].ended = FALSE
    BY GoesHome DEF SessionInv
  <1>2. RequestInv(r)'
    BY <1>1, SessionsAssumption DEF RequestInv
  <1> QED
    BY <1>1, <1>2

\* What has ended stays so, and every request knows what it knew.
LEMMA LogoutStep ==
    ASSUME SessionInv, TypeOK', VersionInv', [Next]_vars PROVE LogoutInv'
  <1> USE SessionsAssumption DEF SessionInv
  <1>1. CASE UNCHANGED vars
    BY <1>1, SecondFacts DEF vars, RequestInv, Ended, Over, Issued, LogoutInv
  <1>2. CASE Tick
    BY <1>2, SecondFacts DEF Tick, TypeOK, RequestInv, Ended, Over, Issued, Pass, Claims, Expiry,
       LogoutInv
  <1>3. CASE ResetAdmin
    <2>1. user'.version = user.version + 1 /\ UNCHANGED <<now, token, revoked, req, out>>
      BY <1>3 DEF ResetAdmin
    <2>2. user'.version >= user.version /\ \A t \in Token : revoked'[t] >= revoked[t]
      BY <2>1 DEF TypeOK, User, Version, Expiry
    <2> QED
      BY <2>1, <2>2, LogoutFrame
  <1>4. ASSUME NEW r \in Request, NEW m \in Replica, Login(r, m) PROVE LogoutInv'
    BY <1>4, SecondFacts DEF Login, Idle, RequestInv, Ended, Over, Issued, LogoutInv
  <1>5. ASSUME NEW r \in Request, NEW m \in Replica, NEW t \in Token, Arrive(r, m, t) PROVE LogoutInv'
    <2>1. token' = token /\ now' = now /\ out' = out /\ revoked' = revoked /\ user' = user
      BY <1>5 DEF Arrive
    <2>2. user'.version >= user.version /\ \A k \in Token : revoked'[k] >= revoked[k]
      BY <2>1 DEF TypeOK, User, Version, Expiry
    <2>3. ASSUME NEW q \in Request PROVE req'[q] = req[q] \/ RequestInv(q)'
      <3>1. q # r => req'[q] = req[q]
        BY <1>5 DEF Arrive, TypeOK
      <3>2. req'[r] = [Idle EXCEPT !.step = IF t \in Legacy THEN "user" ELSE "hot", !.at = m, !.tok = t,
                                   !.ended = t \in out]
        BY <1>5 DEF Arrive, TypeOK
      <3>3. /\ req'[r].step = (IF t \in Legacy THEN "user" ELSE "hot") /\ req'[r].tok = t
            /\ req'[r].ended = (t \in out)
        BY <3>2 DEF Idle
      <3>4. Issued(t)
        BY <1>5 DEF Arrive, Issued, Never, TypeOK, Time
      <3>9. RequestInv(r)'
        BY <2>1, <3>3, <3>4 DEF RequestInv, Issued
      <3> QED
        BY <3>1, <3>9
    <2> QED
      BY <2>1, <2>2, <2>3, LogoutFrame
  <1>6. ASSUME NEW r \in Request, SetSession(r) PROVE LogoutInv'
    BY <1>6, SecondFacts DEF SetSession, Ends, Idle, Issue, RequestInv, Ended, Over, Issued,
       LogoutInv
  <1>7. ASSUME NEW r \in Request, CheckHot(r) PROVE LogoutInv'
    <2>1. token' = token /\ now' = now /\ out' = out /\ revoked' = revoked /\ user' = user
      BY <1>7 DEF CheckHot
    <2>2. user'.version >= user.version /\ \A t \in Token : revoked'[t] >= revoked[t]
      BY <2>1 DEF TypeOK, User, Version, Expiry
    <2>3. ASSUME NEW q \in Request PROVE req'[q] = req[q] \/ RequestInv(q)'
      <3>1. q # r => req'[q] = req[q]
        BY <1>7 DEF CheckHot, TypeOK
      <3>2. /\ req'[r].step \in {"refused", "table"} /\ req'[r].tok = req[r].tok
            /\ req'[r].clock = now /\ req'[r].ended = req[r].ended /\ req[r].step = "hot"
        <4>1. req[r] \in Pass
          BY DEF TypeOK
        <4>2. req'[r] = [req[r] EXCEPT !.step = IF hot[req[r].at][req[r].tok] > now THEN "refused" ELSE "table",
                                       !.clock = now]
          BY <1>7 DEF CheckHot, TypeOK
        <4> QED
          BY <4>1, <4>2, <1>7 DEF CheckHot, Pass
      <3>3. now <= now
        BY DEF TypeOK, Time
      <3>4. RequestInv(r)
        BY DEF LogoutInv
      <3>9. RequestInv(r)'
        BY <2>1, <3>2, <3>3, <3>4 DEF RequestInv, Issued
      <3> QED
        BY <3>1, <3>9
    <2> QED
      BY <2>1, <2>2, <2>3, LogoutFrame
  <1>8. ASSUME NEW r \in Request, CheckTable(r) PROVE LogoutInv'
    <2>1. token' = token /\ now' = now /\ out' = out /\ revoked' = revoked /\ user' = user
      BY <1>8 DEF CheckTable
    <2>2. user'.version >= user.version /\ \A t \in Token : revoked'[t] >= revoked[t]
      BY <2>1 DEF TypeOK, User, Version, Expiry
    <2>3. ASSUME NEW q \in Request PROVE req'[q] = req[q] \/ RequestInv(q)'
      <3>1. PICK s \in {"refused", "user"} : Goes(r, s) /\ (s = "user" => revoked[req[r].tok] <= req[r].clock)
        BY <1>8 DEF CheckTable
      <3>2. /\ q # r => req'[q] = req[q]
            /\ req'[r].step = s /\ req'[r].tok = req[r].tok
            /\ req'[r].clock = req[r].clock /\ req'[r].ended = req[r].ended
        BY <3>1, GoesOn DEF Step
      <3>3. RequestInv(r) /\ req[r].step = "table" /\ req[r].tok \in Token
        BY <1>8 DEF CheckTable, LogoutInv, RequestInv
      <3>4. s = "user" /\ req[r].ended /\ req[r].tok \notin Legacy => Over(req[r].tok)
        <4>1. SUFFICES ASSUME s = "user", req[r].ended, req[r].tok \notin Legacy PROVE Over(req[r].tok)
          OBVIOUS
        <4>2. Ended(req[r].tok)
          BY <3>3, <4>1 DEF RequestInv, LogoutInv
        <4>3. req[r].clock <= now /\ revoked[req[r].tok] <= req[r].clock
          BY <3>1, <3>3, <4>1 DEF RequestInv
        <4>4. /\ revoked[req[r].tok] \in Nat /\ token[req[r].tok].expires \in Nat
              /\ req[r].clock \in Nat /\ now \in Nat
          BY <3>3 DEF TypeOK, Expiry, Claims, Pass, Time
        <4> QED
          BY <4>1, <4>2, <4>3, <4>4 DEF Ended, Over
      <3>9. RequestInv(r)'
        BY <2>1, <3>1, <3>2, <3>3, <3>4 DEF RequestInv, Issued, Over
      <3> QED
        BY <3>2, <3>9
    <2> QED
      BY <2>1, <2>2, <2>3, LogoutFrame
  <1>9. ASSUME NEW r \in Request, CheckUser(r) PROVE LogoutInv'
    BY <1>9, SecondFacts DEF CheckUser, RequestInv, Ended, Over, Issued, LogoutInv
  <1>10. ASSUME NEW r \in Request, Answer(r) PROVE LogoutInv'
    BY <1>10, SecondFacts DEF Answer, Ends, Idle, RequestInv, Ended, Over, Issued, LogoutInv
  <1>11. ASSUME NEW r \in Request, LogoutLegacy(r) PROVE LogoutInv'
    <2>1. /\ UNCHANGED <<now, token, revoked>> /\ user'.version = user.version + 1
          /\ out' = out \cup {req[r].tok} /\ Ends(r)
          /\ req[r].step = "in" /\ req[r].tok \in Legacy /\ req[r].tok \in Token
      BY <1>11, SessionsAssumption DEF LogoutLegacy
    <2>2. \A t \in Token : /\ token[t].version \in Nat /\ token[t].version <= user.version
      BY DEF TypeOK, Claims, Version, VersionInv, ReadOf
    <2>3. user.version \in Nat
      BY DEF TypeOK, User, Version
    <2>4. \A t \in Token : Ended(t) => Ended(t)'
      BY <2>1, <2>2, <2>3 DEF Ended, Over
    <2>5. ASSUME NEW t \in Token, t = req[r].tok PROVE Issued(t) /\ Ended(t)'
      BY <2>1, <2>2, <2>3, <2>5 DEF Ended, LogoutInv, RequestInv
    <2>6. \A t \in out' : (Issued(t) /\ Ended(t))'
      BY <2>1, <2>4, <2>5 DEF LogoutInv, TypeOK, Issued
    <2>7. ASSUME NEW q \in Request PROVE RequestInv(q)'
      <3>1. req'[q] = req[q] \/ RequestInv(q)'
        BY <2>1, RequestEnds
      <3>2. ASSUME req'[q] = req[q] PROVE RequestInv(q)'
        <4>1. RequestInv(q)
          BY DEF LogoutInv
        <4>2. req[q].step = "cache" => Ended(req[q].tok)'
          BY <2>4, <3>2, <4>1 DEF RequestInv
        <4> QED
          BY <2>1, <3>2, <4>1, <4>2 DEF RequestInv, Issued, Over
      <3> QED
        BY <3>1, <3>2
    <2> QED
      BY <2>6, <2>7 DEF LogoutInv
  <1>12. ASSUME NEW r \in Request, Revoke(r) PROVE LogoutInv'
    <2>1. UNCHANGED <<now, token, out, user>>
      BY <1>12 DEF Revoke
    <2>2. /\ req[r].tok \in Token /\ req[r].step = "in" /\ req[r].tok \notin Legacy /\ RequestInv(r)
      BY <1>12 DEF Revoke, LogoutInv, RequestInv
    <2>3. /\ \A t \in Token : revoked[t] \in Nat /\ token[t].expires \in Nat
          /\ user.version \in Nat
      BY DEF TypeOK, Expiry, Claims, User, Version
    <2>4. user'.version >= user.version /\ \A t \in Token : revoked'[t] >= revoked[t]
      BY <2>1, <2>3, <1>12 DEF Revoke, TypeOK
    <2>5. CASE Ends(r)
      BY <2>1, <2>4, <2>5, RequestEnds, LogoutFrame
    <2>6. CASE /\ revoked' = [revoked EXCEPT ![req[r].tok] =
                                 IF @ > token[req[r].tok].expires THEN @ ELSE token[req[r].tok].expires]
               /\ Goes(r, "cache")
      <3>1. /\ \A q \in Request : q # r => req'[q] = req[q]
            /\ req'[r].step = "cache" /\ req'[r].tok = req[r].tok /\ req'[r].ended = req[r].ended
        BY <2>6, GoesOn DEF Step
      <3>2. revoked'[req[r].tok] >= token[req[r].tok].expires
        BY <2>2, <2>3, <2>6 DEF TypeOK
      <3>3. RequestInv(r)'
        BY <2>1, <2>2, <3>1, <3>2 DEF RequestInv, Issued, Ended
      <3> QED
        BY <2>1, <2>4, <3>1, <3>3, LogoutFrame
    <2> QED
      BY <2>5, <2>6, <1>12 DEF Revoke
  <1>13. ASSUME NEW r \in Request, RevokeHot(r) PROVE LogoutInv'
    BY <1>13, SecondFacts DEF RevokeHot, Ends, Idle, RequestInv, Ended, Over, Issued, LogoutInv
  <1>14. ASSUME NEW r \in Request, VerifyOld(r) PROVE LogoutInv'
    <2>1. token' = token /\ now' = now /\ out' = out /\ revoked' = revoked /\ user' = user
      BY <1>14 DEF VerifyOld
    <2>2. user'.version >= user.version /\ \A t \in Token : revoked'[t] >= revoked[t]
      BY <2>1 DEF TypeOK, User, Version, Expiry
    <2>3. ASSUME NEW q \in Request PROVE req'[q] = req[q] \/ RequestInv(q)'
      <3>1. q # r => req'[q] = req[q]
        BY <1>14 DEF VerifyOld, TypeOK
      <3>2. req'[r].step = "change" /\ req'[r].tok = NoToken /\ req'[r].ended = FALSE
        BY <1>14 DEF VerifyOld, TypeOK, LogoutInv, RequestInv
      <3>9. RequestInv(r)'
        BY <2>1, <3>2, SessionsAssumption DEF RequestInv
      <3> QED
        BY <3>1, <3>9
    <2> QED
      BY <2>1, <2>2, <2>3, LogoutFrame
  <1>15. ASSUME NEW r \in Request, TouchPassword(r) PROVE LogoutInv'
    BY <1>15, SecondFacts DEF TouchPassword, RequestInv, Ended, Over, Issued, LogoutInv
  <1>16. ASSUME NEW r \in Request, WritePassword(r) PROVE LogoutInv'
    <2>1. UNCHANGED <<now, token, out, revoked>>
      BY <1>16 DEF WritePassword
    <2>2. user'.version >= user.version /\ \A t \in Token : revoked'[t] >= revoked[t]
      BY <2>1, <1>16 DEF WritePassword, TypeOK, User, Version, Expiry
    <2>3. CASE Ends(r)
      BY <2>1, <2>2, <2>3, RequestEnds, LogoutFrame
    <2>4. CASE req' = [req EXCEPT ![r] = [@ EXCEPT !.step = "reread", !.row = Nobody]]
      <3>1. /\ \A q \in Request : q # r => req'[q] = req[q]
            /\ req'[r].step = "reread" /\ req'[r].tok = req[r].tok /\ req'[r].ended = req[r].ended
        BY <2>4 DEF TypeOK, Pass
      <3>2. RequestInv(r)'
        BY <2>1, <3>1 DEF LogoutInv, RequestInv, Issued
      <3> QED
        BY <2>1, <2>2, <3>1, <3>2, LogoutFrame
    <2> QED
      BY <2>3, <2>4, <1>16 DEF WritePassword
  <1>17. ASSUME NEW r \in Request, Reread(r) PROVE LogoutInv'
    <2>1. UNCHANGED <<now, token, out, revoked, user>>
      BY <1>17 DEF Reread
    <2>2. user'.version >= user.version /\ \A t \in Token : revoked'[t] >= revoked[t]
      BY <2>1 DEF TypeOK, User, Version, Expiry
    <2>3. CASE Ends(r)
      BY <2>1, <2>2, <2>3, RequestEnds, LogoutFrame
    <2>4. CASE req' = [req EXCEPT ![r] = [@ EXCEPT !.step = "sign", !.row = user]]
      <3>1. /\ \A q \in Request : q # r => req'[q] = req[q]
            /\ req'[r].step = "sign" /\ req'[r].tok = req[r].tok /\ req'[r].ended = req[r].ended
        BY <2>4 DEF TypeOK, Pass
      <3>2. RequestInv(r)'
        BY <2>1, <3>1 DEF LogoutInv, RequestInv, Issued
      <3> QED
        BY <2>1, <2>2, <3>1, <3>2, LogoutFrame
    <2> QED
      BY <2>3, <2>4, <1>17 DEF Reread
  <1>18. ASSUME NEW m \in Replica, CleanupTable(m) PROVE LogoutInv'
    BY <1>18, SecondFacts DEF CleanupTable, TypeOK, RequestInv, Ended, Over, Issued, Claims,
       Expiry, LogoutInv
  <1>19. ASSUME NEW m \in Replica, CleanupHot(m) PROVE LogoutInv'
    BY <1>19, SecondFacts DEF CleanupHot, RequestInv, Ended, Over, Issued, LogoutInv
  <1>20. ASSUME NEW m \in Replica, Restart(m) PROVE LogoutInv'
    BY <1>20, SecondFacts DEF Restart, Idle, RequestInv, Ended, Over, Issued, LogoutInv
  <1> QED
    BY <1>1, <1>2, <1>3, <1>4, <1>5, <1>6, <1>7, <1>8, <1>9, <1>10, <1>11, <1>12, <1>13, <1>14,
       <1>15, <1>16, <1>17, <1>18, <1>19, <1>20, SecondFacts DEF Next

-----------------------------------------------------------------------------
(* Theorems *)

\* A master that was just started has nothing to remember.
LEMMA SessionInit == Init => SessionInv
  <1> SUFFICES ASSUME Init PROVE SessionInv
    OBVIOUS
  <1> USE SessionsAssumption
  <1>1. TypeOK
    <2>1. Resolution + TTL \in Nat /\ Second(Resolution + TTL) \in Nat /\ Second(Resolution + TTL) <= Resolution + TTL
      BY SecondFacts
    <2>2. Second(Resolution + TTL) \in Expiry /\ Never \in Expiry
      BY <2>1 DEF Expiry, Never
    <2>3. token \in [Token -> Claims]
      BY <2>2 DEF Init, NotIssued, Claims, Version
    <2>4. user \in User /\ now \in Time /\ Never \in 0..MaxTime
      BY DEF Init, Nobody, User, Version, Time, Never
    <2> QED
      BY <2>2, <2>3, <2>4, IdlePass DEF Init, TypeOK
  <1>2. \A t \in Token : token[t].version = 0 /\ token[t].era = 0 /\ token[t].issued = 0
    BY DEF Init, NotIssued
  <1>3. user = Nobody /\ now = Resolution /\ \A r \in Request : req[r] = Idle
    BY DEF Init
  <1>4. VersionInv
    BY <1>2, <1>3, SecondFacts DEF VersionInv, ReadOf, Nobody, Idle
  <1>5. LogoutInv
    BY <1>3 DEF Init, LogoutInv, RequestInv, Idle
  <1> QED
    BY <1>1, <1>4, <1>5 DEF SessionInv

\* Types, versions and logouts together are inductive.
LEMMA SessionNext == SessionInv /\ [Next]_vars => SessionInv'
  BY TypeStep, VersionStep, LogoutStep DEF SessionInv

\* A present version means a present password, and a token whose logout was
\* answered has ended, whatever requests, clean-ups and restarts are under way.
THEOREM SessionsInvariant == Spec => []SessionInv
  BY SessionInit, SessionNext, PTL DEF Spec

\* A request is let in, or refused at the account's row, by nothing but the
\* comparison with that row.
LEMMA OnlyCheckUser ==
    ASSUME SessionInv, Next, NEW q \in Request, req[q].step = "user", req'[q].step \in {"in", "refused"}
    PROVE  CheckUser(q)
  <1>1. req \in [Request -> Pass]
    BY DEF SessionInv, TypeOK
  <1>2. CASE Tick
    BY <1>2, <1>1 DEF Tick
  <1>3. CASE ResetAdmin
    BY <1>3, <1>1 DEF ResetAdmin
  <1>4. ASSUME NEW r \in Request, NEW m \in Replica, Login(r, m) PROVE CheckUser(q)
    BY <1>4, <1>1 DEF Login
  <1>5. ASSUME NEW r \in Request, NEW m \in Replica, NEW t \in Token, Arrive(r, m, t) PROVE CheckUser(q)
    BY <1>5, <1>1 DEF Arrive
  <1>6. ASSUME NEW r \in Request, SetSession(r) PROVE CheckUser(q)
    BY <1>6, <1>1 DEF SetSession, Issue, Ends
  <1>7. ASSUME NEW r \in Request, CheckHot(r) PROVE CheckUser(q)
    BY <1>7, <1>1 DEF CheckHot
  <1>8. ASSUME NEW r \in Request, CheckTable(r) PROVE CheckUser(q)
    BY <1>8, <1>1 DEF CheckTable, Goes
  <1>9. ASSUME NEW r \in Request, CheckUser(r) PROVE CheckUser(q)
    BY <1>9, <1>1 DEF CheckUser
  <1>10. ASSUME NEW r \in Request, Answer(r) PROVE CheckUser(q)
    BY <1>10, <1>1 DEF Answer, Ends
  <1>11. ASSUME NEW r \in Request, LogoutLegacy(r) PROVE CheckUser(q)
    BY <1>11, <1>1 DEF LogoutLegacy, Ends
  <1>12. ASSUME NEW r \in Request, Revoke(r) PROVE CheckUser(q)
    BY <1>12, <1>1 DEF Revoke, Goes, Ends
  <1>13. ASSUME NEW r \in Request, RevokeHot(r) PROVE CheckUser(q)
    BY <1>13, <1>1 DEF RevokeHot, Ends
  <1>14. ASSUME NEW r \in Request, VerifyOld(r) PROVE CheckUser(q)
    BY <1>14, <1>1 DEF VerifyOld
  <1>15. ASSUME NEW r \in Request, TouchPassword(r) PROVE CheckUser(q)
    BY <1>15, <1>1 DEF TouchPassword
  <1>16. ASSUME NEW r \in Request, WritePassword(r) PROVE CheckUser(q)
    BY <1>16, <1>1 DEF WritePassword, Ends
  <1>17. ASSUME NEW r \in Request, Reread(r) PROVE CheckUser(q)
    BY <1>17, <1>1 DEF Reread, Ends
  <1>18. ASSUME NEW m \in Replica, CleanupTable(m) PROVE CheckUser(q)
    BY <1>18, <1>1 DEF CleanupTable
  <1>19. ASSUME NEW m \in Replica, CleanupHot(m) PROVE CheckUser(q)
    BY <1>19, <1>1 DEF CleanupHot
  <1>20. ASSUME NEW m \in Replica, Restart(m) PROVE CheckUser(q)
    BY <1>20, <1>1 DEF Restart, Idle
  <1> QED
    BY <1>2, <1>3, <1>4, <1>5, <1>6, <1>7, <1>8, <1>9, <1>10, <1>11, <1>12, <1>13, <1>14, <1>15,
       <1>16, <1>17, <1>18, <1>19, <1>20 DEF Next

\* What it finds out about the request that it lets in or refuses.
LEMMA CheckUserFacts ==
    ASSUME SessionInv, NEW r \in Request, CheckUser(r)
    PROVE  /\ req'[r].step = "in" <=> Admitted(token[req[r].tok])
           /\ RequestInv(r) /\ req[r].tok \in Token
  <1>1. req[r] \in Pass /\ RequestInv(r)
    BY DEF SessionInv, TypeOK, LogoutInv
  <1>2. req[r].tok \in Token
    BY <1>1 DEF CheckUser, RequestInv
  <1>3. req'[r].step = IF Admitted(token[req[r].tok]) THEN "in" ELSE "refused"
    BY <1>1 DEF CheckUser, SessionInv, TypeOK, Pass
  <1> QED
    BY <1>1, <1>2, <1>3

\* Nobody gets in on a password that is no longer the account's (RequireAuth
\* after TouchPassword or ResetAdmin), for any number of tokens and replicas.
THEOREM OldPassword == Spec => OldPasswordStaysOut
  <1>1. SessionInv /\ [Next]_vars =>
            [\A r \in Request : GetsIn(r) => token[req[r].tok].era = user.era]_vars
    <2> SUFFICES ASSUME SessionInv, Next, NEW r \in Request, GetsIn(r)
                 PROVE  token[req[r].tok].era = user.era
      BY DEF vars
    <2>1. Admitted(token[req[r].tok]) /\ req[r].tok \in Token
      BY OnlyCheckUser, CheckUserFacts DEF GetsIn
    <2> QED
      BY <2>1 DEF Admitted, SessionInv, VersionInv, ReadOf
  <1> QED
    BY <1>1, SessionsInvariant, PTL DEF OldPasswordStaysOut, Spec

\* The comparison of whole seconds never refuses a token of the present version.
THEOREM FreshToken == Spec => FreshTokenWorks
  <1>1. SessionInv /\ [Next]_vars =>
            [\A r \in Request : req[r].step = "user" /\ req'[r].step = "refused"
                                    => token[req[r].tok].version # user.version]_vars
    <2> SUFFICES ASSUME SessionInv, Next, NEW r \in Request, req[r].step = "user", req'[r].step = "refused"
                 PROVE  token[req[r].tok].version # user.version
      BY DEF vars
    <2>1. ~Admitted(token[req[r].tok]) /\ req[r].tok \in Token
      BY OnlyCheckUser, CheckUserFacts
    <2> QED
      BY <2>1 DEF Admitted, SessionInv, VersionInv
  <1> QED
    BY <1>1, SessionsInvariant, PTL DEF FreshTokenWorks, Spec

\* A token whose logout was answered is not let in before it has expired, at any
\* replica and after any clean-up or restart.
THEOREM Logout == Spec => RevokedStaysOut
  <1>1. SessionInv /\ [Next]_vars =>
            [\A r \in Request : GetsIn(r) /\ req[r].ended => now >= token[req[r].tok].expires]_vars
    <2> SUFFICES ASSUME SessionInv, Next, NEW r \in Request, GetsIn(r), req[r].ended
                 PROVE  now >= token[req[r].tok].expires
      BY DEF vars
    <2>1. Admitted(token[req[r].tok]) /\ req[r].tok \in Token /\ RequestInv(r) /\ req[r].step = "user"
      BY OnlyCheckUser, CheckUserFacts DEF GetsIn
    <2>2. CASE req[r].tok \in Legacy
      <3>1. req[r].tok \in out
        BY <2>1 DEF RequestInv
      <3>2. token[req[r].tok].version < user.version
        BY <2>2, <3>1 DEF SessionInv, LogoutInv, Ended
      <3>3. user.version \in Nat
        BY DEF SessionInv, TypeOK, User, Version
      <3> QED
        BY <2>1, <3>2, <3>3 DEF Admitted
    <2>3. CASE req[r].tok \notin Legacy
      BY <2>1, <2>3 DEF RequestInv, Over
    <2> QED
      BY <2>2, <2>3
  <1> QED
    BY <1>1, SessionsInvariant, PTL DEF RevokedStaysOut, Spec

-----------------------------------------------------------------------------
(***************************************************************************)
(* The other credential: the tokens of the nodes (AgentTokens).  No call   *)
(* goes out with a token that had been replaced before it began, for any   *)
(* number of replicas and tokens.                                          *)
(*                                                                         *)
(* What a call compares with the row says something about the call only if *)
(* no replaced token ever comes back into the row.  It could by two ways:  *)
(* a rotation that overtook another, and an operation of an instance that  *)
(* inserts the node it read before the deletion.                           *)
(***************************************************************************)
CONSTANTS MaxToken
VARIABLES row, made, cache, node, beat, admin, check, replaced, held

Agent == INSTANCE AgentTokens

\* What AgentTokensAssumption asks besides what SessionsAssumption says of the replicas.
Bounded == MaxToken \in Nat \ {0}

\* Tokens on their way into the row have never been there.
Pending(m) == admin[m].step = "update"
Unstored ==
    \A m \in Replica : Pending(m) =>
        /\ admin[m].tok \notin replaced \cup {row.hash, held.hash}
        /\ \A n \in Replica : Pending(n) /\ admin[n].tok = admin[m].tok => n = m

\* Tokens are numbered as they are made.
Numbered ==
    /\ replaced \subseteq Agent!Made
    /\ row.hash <= made /\ held.hash <= made
    /\ \A m \in Replica : admin[m].tok <= made /\ (Pending(m) => admin[m].tok # Agent!NoToken)

\* What the row has, or may get again, has not been replaced.
RowNotReplaced ==
    /\ row.hash \notin replaced
    /\ held # Agent!Gone => row = Agent!Gone /\ held.hash \notin replaced

\* What a call remembers as replaced is.
SinceReplaced == call.since \subseteq replaced

TokenInv == Agent!TypeOK /\ Unstored /\ Numbered /\ RowNotReplaced /\ SinceReplaced /\ Agent!NoReplacedToken

-----------------------------------------------------------------------------
LEMMA AgentInitInv == Bounded /\ Agent!Init => TokenInv
  <1> SUFFICES ASSUME Bounded, Agent!Init PROVE TokenInv
    OBVIOUS
  <1>1. Agent!TypeOK
    BY SessionsAssumption DEF Bounded, Agent!Init, Agent!TypeOK, Agent!Row, Agent!Gone, Agent!Beat, Agent!Call,
         Agent!Admin, Agent!NoBeat, Agent!NoCall, Agent!NoAdmin, Agent!NoToken,
         Agent!AnyToken, Agent!Somewhere
  <1>2. Unstored /\ Numbered /\ RowNotReplaced /\ SinceReplaced /\ Agent!NoReplacedToken
    BY SessionsAssumption DEF Bounded, Agent!Init, Unstored, Pending, Numbered, RowNotReplaced, SinceReplaced,
         Agent!NoReplacedToken, Agent!Gone, Agent!NoCall, Agent!NoAdmin, Agent!NoToken, Agent!Made
  <1> QED
    BY <1>1, <1>2 DEF TokenInv

-----------------------------------------------------------------------------
(* Agent tokens: administrators *)

LEMMA RotateReadStep ==
    ASSUME Bounded, TokenInv, NEW m \in Replica, Agent!RotateRead(m) PROVE TokenInv'
  <1> USE SessionsAssumption DEF Bounded, TokenInv, Agent!RotateRead
  <1>1. /\ made' = made + 1 /\ made' \in 1..MaxToken
        /\ admin' = [admin EXCEPT ![m] = [step |-> "update", tok |-> made']]
        /\ UNCHANGED <<row, cache, node, beat, call, check, held, replaced>>
    BY DEF Agent!TypeOK
  <1>2. Agent!TypeOK'
    BY <1>1 DEF Agent!TypeOK, Agent!Admin, Agent!AnyToken
  <1>3. Numbered' /\ Unstored'
    BY <1>1 DEF Agent!TypeOK, Agent!Admin, Agent!AnyToken, Agent!Row, Agent!Gone, Agent!NoToken, Unstored,
         Pending, Numbered, Agent!Made
  <1> QED
    BY <1>1, <1>2, <1>3 DEF RowNotReplaced, SinceReplaced, Agent!NoReplacedToken

\* The new token was never stored, and the one it takes the place of is in no
\* other rotation and in no deleted row.
LEMMA RotateUpdateStep ==
    ASSUME Bounded, TokenInv, NEW m \in Replica, Agent!RotateUpdate(m) PROVE TokenInv'
  <1> USE SessionsAssumption DEF Bounded, TokenInv
  <1>1. UNCHANGED <<made, cache, node, beat, call, check, held>> /\ Pending(m)
    BY DEF Agent!RotateUpdate, Pending
  <1>2. CASE Agent!Exists /\ row' = [hash |-> admin[m].tok, status |-> "pending"]
                    /\ replaced' = replaced \cup {row.hash}
                    /\ admin' = [admin EXCEPT ![m].step = "cache"]
    <2>1. held = Agent!Gone
      BY <1>2 DEF Agent!Exists, RowNotReplaced
    <2>2. admin[m].tok \in 1..MaxToken /\ row.hash \in 1..MaxToken /\ row.hash <= made
      BY <1>1, <1>2 DEF Agent!TypeOK, Agent!Admin, Agent!AnyToken, Numbered, Agent!NoToken, Agent!Exists, Agent!Row
    <2>3. Agent!TypeOK'
      BY <1>1, <1>2, <2>2 DEF Agent!TypeOK, Agent!Row, Agent!Admin
    <2>4. Unstored'
      BY <1>1, <1>2, <2>1, <2>2 DEF Unstored, Pending, Agent!TypeOK, Agent!Admin
    <2>5. Numbered'
      BY <1>1, <1>2, <2>2 DEF Numbered, Pending, Agent!Made, Agent!TypeOK, Agent!Admin
    <2>6. RowNotReplaced'
      BY <1>1, <1>2, <2>1 DEF RowNotReplaced, Unstored, Agent!TypeOK
    <2> QED
      BY <1>1, <1>2, <2>3, <2>4, <2>5, <2>6 DEF SinceReplaced, Agent!NoReplacedToken
  <1>3. CASE /\ row' = Agent!Gone /\ row = Agent!Gone /\ replaced' = replaced
             /\ admin' = [admin EXCEPT ![m].step = "cache"]
    <2>1. Agent!TypeOK'
      BY <1>1, <1>3 DEF Agent!TypeOK, Agent!Admin
    <2>2. Unstored' /\ Numbered'
      BY <1>1, <1>3 DEF Unstored, Numbered, Pending, Agent!Made, Agent!TypeOK, Agent!Admin
    <2> QED
      BY <1>1, <1>3, <2>1, <2>2 DEF RowNotReplaced, SinceReplaced, Agent!NoReplacedToken
  <1>4. CASE admin' = [admin EXCEPT ![m] = Agent!NoAdmin] /\ UNCHANGED <<row, replaced>>
    <2>1. Agent!TypeOK'
      BY <1>1, <1>4 DEF Agent!TypeOK, Agent!Admin, Agent!NoAdmin, Agent!NoToken, Agent!AnyToken
    <2>2. Unstored' /\ Numbered'
      BY <1>1, <1>4 DEF Unstored, Numbered, Pending, Agent!Made, Agent!TypeOK, Agent!Admin, Agent!NoAdmin,
           Agent!NoToken
    <2> QED
      BY <1>1, <1>4, <2>1, <2>2 DEF RowNotReplaced, SinceReplaced, Agent!NoReplacedToken
  <1> QED
    BY <1>2, <1>3, <1>4 DEF Agent!RotateUpdate, Agent!Exists

\* A request that is over stores nothing any more.
LEMMA AdminEnds ==
    ASSUME Bounded, TokenInv, NEW m \in Replica, NEW c \in Agent!AnyToken,
           cache' = [cache EXCEPT ![m] = c], admin' = [admin EXCEPT ![m] = Agent!NoAdmin],
           UNCHANGED <<row, made, node, beat, call, check, held, replaced>>
    PROVE  TokenInv'
  <1> USE SessionsAssumption DEF Bounded, TokenInv
  <1>1. Agent!TypeOK'
    BY DEF Agent!TypeOK, Agent!Admin, Agent!NoAdmin, Agent!NoToken, Agent!AnyToken
  <1>2. Unstored' /\ Numbered'
    BY DEF Unstored, Numbered, Pending, Agent!Made, Agent!TypeOK, Agent!Admin, Agent!NoAdmin, Agent!NoToken
  <1> QED
    BY <1>1, <1>2 DEF RowNotReplaced, SinceReplaced, Agent!NoReplacedToken

LEMMA RotateCacheStep ==
    ASSUME Bounded, TokenInv, NEW m \in Replica, Agent!RotateCache(m) PROVE TokenInv'
  <1>1. admin[m].tok \in Agent!AnyToken
    BY DEF TokenInv, Agent!TypeOK, Agent!Admin
  <1> QED
    BY <1>1, AdminEnds DEF Agent!RotateCache

LEMMA DeleteDropStep ==
    ASSUME Bounded, TokenInv, NEW m \in Replica, Agent!DeleteDrop(m) PROVE TokenInv'
  <1>1. Agent!NoToken \in Agent!AnyToken
    BY SessionsAssumption DEF Bounded, Agent!NoToken, Agent!AnyToken
  <1> QED
    BY <1>1, AdminEnds DEF Agent!DeleteDrop

\* The row goes, and may stay with an operation that has read it.
LEMMA DeleteRowStep ==
    ASSUME Bounded, TokenInv, NEW m \in Replica, Agent!DeleteRow(m) PROVE TokenInv'
  <1> USE SessionsAssumption DEF Bounded, TokenInv
  <1>1. /\ row' = Agent!Gone /\ held' \in {Agent!Gone, row} /\ admin' = [admin EXCEPT ![m].step = "drop"]
        /\ UNCHANGED <<made, cache, node, beat, call, check, replaced>>
    BY DEF Agent!DeleteRow
  <1>2. Agent!TypeOK'
    BY <1>1 DEF Agent!TypeOK, Agent!Admin
  <1>3. Agent!NoToken \notin replaced /\ \A n \in Replica : Pending(n) => admin[n].tok # Agent!NoToken
    BY DEF Agent!TypeOK, Agent!NoToken, Numbered
  <1>4. Unstored'
    BY <1>1, <1>3 DEF Unstored, Pending, Agent!TypeOK, Agent!Admin, Agent!Gone
  <1>5. Numbered'
    BY <1>1 DEF Numbered, Pending, Agent!Made, Agent!TypeOK, Agent!Admin, Agent!Gone, Agent!NoToken
  <1>6. RowNotReplaced'
    BY <1>1, <1>3 DEF RowNotReplaced, Agent!Gone
  <1> QED
    BY <1>1, <1>2, <1>4, <1>5, <1>6 DEF SinceReplaced, Agent!NoReplacedToken

LEMMA OperationWritesStep ==
    ASSUME Bounded, TokenInv, Agent!OperationWrites PROVE TokenInv'
  <1> USE SessionsAssumption DEF Bounded, TokenInv
  <1>1. /\ row' = held /\ held' = Agent!Gone /\ held # Agent!Gone
        /\ UNCHANGED <<made, cache, node, beat, call, admin, check, replaced>>
    BY DEF Agent!OperationWrites
  <1>2. Agent!TypeOK'
    BY <1>1 DEF Agent!TypeOK
  <1>3. Unstored'
    BY <1>1 DEF Unstored, Pending, Numbered, Agent!Gone, Agent!TypeOK, Agent!NoToken
  <1>4. Numbered'
    BY <1>1 DEF Numbered, Pending, Agent!Made, Agent!TypeOK, Agent!Gone, Agent!NoToken
  <1>5. RowNotReplaced'
    BY <1>1 DEF RowNotReplaced
  <1> QED
    BY <1>1, <1>2, <1>3, <1>4, <1>5 DEF SinceReplaced, Agent!NoReplacedToken

-----------------------------------------------------------------------------
(* Agent tokens: heartbeats, the stale check and restarts *)

\* Only the status of the row changes, and rotations may end.
LEMMA StatusStep ==
    ASSUME Bounded, TokenInv, Agent!TypeOK', row'.hash = row.hash, held # Agent!Gone => row' = Agent!Gone,
           \A n \in Replica : admin'[n] \in {admin[n], Agent!NoAdmin},
           UNCHANGED <<made, held, replaced>>, call' = call \/ call' = Agent!NoCall
    PROVE  TokenInv'
  <1> USE DEF TokenInv
  <1>1. Unstored' /\ Numbered'
    BY DEF Unstored, Numbered, Pending, Agent!Made, Agent!TypeOK, Agent!NoAdmin, Agent!NoToken
  <1>2. RowNotReplaced' /\ SinceReplaced' /\ Agent!NoReplacedToken'
    BY DEF RowNotReplaced, SinceReplaced, Agent!NoReplacedToken, Agent!NoCall
  <1> QED
    BY <1>1, <1>2

LEMMA BeatsStep ==
    ASSUME Bounded, TokenInv, NEW m \in Replica, Agent!Beats(m) PROVE TokenInv'
  <1> USE SessionsAssumption DEF Bounded, TokenInv
  <1>1. CASE Agent!Authenticate(m)
    <2>1. Agent!TypeOK'
      BY <1>1 DEF Agent!Authenticate, Agent!TypeOK, Agent!Beat
    <2> QED
      BY <1>1, <2>1, StatusStep DEF Agent!Authenticate, RowNotReplaced
  <1>2. CASE Agent!BeatCache(m)
    <2>1. Agent!TypeOK'
      BY <1>2 DEF Agent!BeatCache, Agent!TypeOK, Agent!Beat
    <2> QED
      BY <1>2, <2>1, StatusStep DEF Agent!BeatCache, RowNotReplaced
  <1>3. CASE Agent!Heartbeat(m)
    <2>1. Agent!TypeOK' /\ row'.hash = row.hash
      BY <1>3 DEF Agent!Heartbeat, Agent!TypeOK, Agent!Beat, Agent!NoBeat, Agent!NoToken, Agent!AnyToken,
           Agent!Row, Agent!Exists, Agent!Gone
    <2> QED
      BY <1>3, <2>1, StatusStep DEF Agent!Heartbeat, RowNotReplaced, Agent!Exists
  <1> QED
    BY <1>1, <1>2, <1>3 DEF Agent!Beats

LEMMA ListsStep ==
    ASSUME Bounded, TokenInv, Agent!Lists PROVE TokenInv'
  <1> USE SessionsAssumption DEF Bounded, TokenInv
  <1>1. CASE Agent!StaleRead
    <2>1. Agent!TypeOK'
      BY <1>1 DEF Agent!StaleRead, Agent!TypeOK
    <2> QED
      BY <1>1, <2>1, StatusStep DEF Agent!StaleRead, RowNotReplaced
  <1>2. CASE Agent!StaleUpdate
    <2>1. Agent!TypeOK' /\ row'.hash = row.hash
      BY <1>2 DEF Agent!StaleUpdate, Agent!TypeOK, Agent!Row, Agent!Exists, Agent!Gone
    <2> QED
      BY <1>2, <2>1, StatusStep DEF Agent!StaleUpdate, RowNotReplaced, Agent!Exists
  <1> QED
    BY <1>1, <1>2 DEF Agent!Lists

LEMMA RejoinStep ==
    ASSUME Bounded, TokenInv, NEW t \in Agent!Made, Agent!Rejoin(t) PROVE TokenInv'
  <1>1. Agent!TypeOK'
    BY SessionsAssumption DEF Bounded, TokenInv, Agent!TypeOK, Agent!Rejoin, Agent!Made, Agent!AnyToken
  <1> QED
    BY <1>1, StatusStep DEF Agent!Rejoin, TokenInv, RowNotReplaced

LEMMA AgentRestartStep ==
    ASSUME Bounded, TokenInv, NEW m \in Replica, Agent!Restart(m) PROVE TokenInv'
  <1>1. Agent!TypeOK'
    BY SessionsAssumption DEF Bounded, TokenInv, Agent!TypeOK, Agent!Restart, Agent!NoBeat, Agent!NoCall,
         Agent!NoAdmin, Agent!NoToken, Agent!AnyToken, Agent!Beat,
         Agent!Call, Agent!Admin, Agent!Somewhere
  <1>2. \A n \in Replica : admin'[n] \in {admin[n], Agent!NoAdmin}
    BY DEF Agent!Restart, TokenInv, Agent!TypeOK
  <1> QED
    BY <1>1, <1>2, StatusStep DEF Agent!Restart, TokenInv, RowNotReplaced

-----------------------------------------------------------------------------
(* Agent tokens: calls *)

\* A call that passes the check has the token of the row, which is none that
\* was replaced before.
LEMMA CallsStep ==
    ASSUME Bounded, TokenInv, Agent!Calls PROVE TokenInv'
  <1> USE SessionsAssumption DEF Bounded, TokenInv
  <1>1. ASSUME NEW m \in Replica, Agent!CallGet(m) PROVE TokenInv'
    <2>1. Agent!TypeOK'
      BY <1>1 DEF Agent!CallGet, Agent!TypeOK, Agent!Call, Agent!Somewhere
    <2>2. SinceReplaced' /\ Agent!NoReplacedToken'
      BY <1>1 DEF Agent!CallGet, SinceReplaced, Agent!NoReplacedToken
    <2> QED
      BY <1>1, <2>1, <2>2 DEF Agent!CallGet, Unstored, Pending, Numbered, Agent!Made, RowNotReplaced
  <1>2. CASE Agent!CallCheck
    <2>1. UNCHANGED <<row, made, cache, node, beat, admin, check, held, replaced>>
      BY <1>2 DEF Agent!CallCheck
    <2>2. Agent!TypeOK' /\ call'.since = call.since /\ call'.tok = call.tok
      BY <1>2, <2>1 DEF Agent!CallCheck, Agent!TypeOK, Agent!Call
    <2>3. Agent!NoReplacedToken'
      BY <1>2, <2>2 DEF Agent!CallCheck, Agent!NoReplacedToken, SinceReplaced, RowNotReplaced, Agent!TypeOK,
           Agent!Call
    <2> QED
      BY <2>1, <2>2, <2>3 DEF SinceReplaced, Unstored, Pending, Numbered, Agent!Made, RowNotReplaced
  <1>3. CASE Agent!CallDrop
    <2>1. Agent!TypeOK'
      <3>1. cache' \in [Replica -> Agent!AnyToken]
        <4>1. cache \in [Replica -> Agent!AnyToken] /\ Agent!NoToken \in Agent!AnyToken
          BY DEF Agent!TypeOK, Agent!NoToken, Agent!AnyToken
        <4>2. cache' = [cache EXCEPT ![call.at] = Agent!NoToken]
          BY <1>3 DEF Agent!CallDrop
        <4> QED
          BY <4>1, <4>2
      <3>2. call' \in Agent!Call
        BY <1>3 DEF Agent!CallDrop, Agent!NoCall, Agent!Call, Agent!Somewhere, Agent!NoToken, Agent!AnyToken
      <3> QED
        BY <1>3, <3>1, <3>2 DEF Agent!CallDrop, Agent!TypeOK
    <2> QED
      BY <1>3, <2>1, StatusStep DEF Agent!CallDrop, RowNotReplaced
  <1>4. CASE Agent!CallUse
    <2>1. Agent!TypeOK'
      BY <1>4 DEF Agent!CallUse, Agent!TypeOK, Agent!NoCall, Agent!Call, Agent!Somewhere, Agent!NoToken,
           Agent!AnyToken
    <2> QED
      BY <1>4, <2>1, StatusStep DEF Agent!CallUse, RowNotReplaced
  <1> QED
    BY <1>1, <1>2, <1>3, <1>4 DEF Agent!Calls

-----------------------------------------------------------------------------
(* Agent tokens: the theorem *)

\* The inductive invariant holds for any number of replicas and tokens.
THEOREM TokensInvariant == Bounded => (Agent!Spec => []TokenInv)
  <1> SUFFICES ASSUME Bounded PROVE Agent!Spec => []TokenInv
    OBVIOUS
  <1>1. TokenInv /\ [Agent!Next]_(Agent!vars) => TokenInv'
    <2> SUFFICES ASSUME TokenInv, [Agent!Next]_(Agent!vars) PROVE TokenInv'
      OBVIOUS
    <2>1. CASE UNCHANGED Agent!vars
      BY <2>1 DEF Agent!vars, TokenInv, Agent!TypeOK, Unstored, Pending, Numbered, Agent!Made, RowNotReplaced,
           SinceReplaced, Agent!NoReplacedToken
    <2>2. CASE Agent!Administers
      BY <2>2, RotateReadStep, DeleteRowStep, RejoinStep, OperationWritesStep DEF Agent!Administers
    <2>3. CASE Agent!Calls
      BY <2>3, CallsStep
    <2>4. CASE Agent!Lists
      BY <2>4, ListsStep
    <2>5. ASSUME NEW m \in Replica,
                 \/ Agent!Beats(m) \/ Agent!RotateUpdate(m) \/ Agent!RotateCache(m)
                 \/ Agent!DeleteDrop(m) \/ Agent!Restart(m)
          PROVE  TokenInv'
      BY <2>5, BeatsStep, RotateUpdateStep, RotateCacheStep, DeleteDropStep, AgentRestartStep
    <2> QED
      BY <2>1, <2>2, <2>3, <2>4, <2>5 DEF Agent!Next
  <1> QED
    BY AgentInitInv, <1>1, PTL DEF Agent!Spec

\* NoReplacedToken: whatever the rotations, deletions, heartbeats and restarts of
\* the replicas, RPCToken hands out no token that was replaced before it was asked.
THEOREM OnlyCurrentTokens == Bounded => (Agent!Spec => []NoReplacedToken)
  <1> SUFFICES ASSUME Bounded PROVE Agent!Spec => []NoReplacedToken
    OBVIOUS
  <1>1. TokenInv => NoReplacedToken
    BY DEF TokenInv, Agent!NoReplacedToken, NoReplacedToken
  <1> QED
    BY <1>1, TokensInvariant, PTL

=================================================================================
