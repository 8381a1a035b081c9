----------------------------- MODULE LoginProofs -----------------------------
(***************************************************************************)
(* IInv is an inductive invariant of Login, for any phones, logins, calls, *)
(* limits and lifetimes, and with it the properties of the guard, of the   *)
(* sessions and of the two together.                                       *)
(***************************************************************************)
EXTENDS Login, TLAPS

\* The parts of the invariant: the guard's keys, the tokens, the logins.
GuardPart == GuardTypeOK /\ CountInv
SessionPart == SessionsTypeOK /\ SessionInv /\ RevokedStaysOut /\ TokensAreHonored
LoginTypeOK ==
  /\ account \in [Phones -> {"none", "active", "disabled"}]
  /\ pc \in [Logins -> Pc]
  /\ res \in [Logins -> Answers \cup {"none"}]
  /\ reset \in [Logins -> {"none", "sent", "done"}]
  /\ unlocked \subseteq Logins
LoginPart == LoginTypeOK /\ LoginInv /\ LockedOutStaysOut

\* MaxFail - 1 failures go by between two resets.
LEMMA OneMoreReset ==
  ASSUME NEW k \in Nat, NEW n \in Nat
  PROVE  k * (n + 1) = k * n + k /\ k * n \in Nat
OBVIOUS

LEMMA GuessesFromCount == GuardPart => GuessesAreBounded
<1> SUFFICES ASSUME GuardPart, NEW p \in Phones
             PROVE  misses[p] <= (MaxFail - 1) * (resets[p] + 1)
  BY DEF GuessesAreBounded
<1> USE GuardAssumption
<1> DEFINE k == MaxFail - 1
<1>1. k \in Nat /\ resets[p] \in Nat /\ fail[p] \in Nat /\ misses[p] \in Nat
  BY DEF GuardPart, GuardTypeOK
<1>2. misses[p] <= k * resets[p] + fail[p] /\ fail[p] <= k
  BY <1>1 DEF GuardPart, CountInv
<1>3. k * (resets[p] + 1) = k * resets[p] + k /\ k * resets[p] \in Nat
  BY <1>1, OneMoreReset
<1> HIDE DEF k
<1>4. misses[p] <= k * (resets[p] + 1)
  BY <1>1, <1>2, <1>3
<1> QED
  BY <1>4 DEF k

LEMMA InvParts == IInv <=> GuardPart /\ SessionPart /\ LoginPart
BY GuessesFromCount
   DEF IInv, TypeOK, GuardPart, SessionPart, LoginTypeOK, LoginPart

LEMMA InitInv == Init => IInv
<1> SUFFICES ASSUME Init PROVE GuardPart /\ SessionPart /\ LoginPart
  BY InvParts
<1> USE GuardAssumption, SessionsAssumption, LoginAssumption
     DEF Init, GuardInit, SessionsInit
<1>1. GuardPart
  <2>1. (MaxFail - 1) * 0 = 0
    OBVIOUS
  <2> QED
    BY <2>1 DEF GuardPart, GuardTypeOK, CountInv
<1>2. SessionsTypeOK
  BY DEF SessionsTypeOK, CallPc
<1>3. LoggedOut = {}
  BY DEF LoggedOut
<1>4. SessionInv /\ RevokedStaysOut /\ TokensAreHonored
  BY <1>3 DEF SessionInv, RevokedStaysOut, TokensAreHonored
<1>5. LoginPart
  BY DEF LoginPart, LoginTypeOK, LoginInv, LockedOutStaysOut, Pc, Answers
<1> QED
  BY <1>1, <1>2, <1>4, <1>5 DEF SessionPart
-----------------------------------------------------------------------------
(* The guard *)

LEMMA GuardStep ==
  ASSUME GuardPart, NEW p \in Phones,
         OnFailure(p) \/ OnSuccess(p) \/ LockEnds(p) \/ UNCHANGED guardVars
  PROVE  GuardPart'
<1> USE GuardAssumption DEF GuardPart
<1> DEFINE k == MaxFail - 1
<1>0. /\ \A q \in Phones : /\ fail[q] \in Nat /\ misses[q] \in Nat /\ resets[q] \in Nat
                           /\ k * resets[q] \in Nat
      /\ k \in Nat
  BY OneMoreReset DEF GuardTypeOK
<1>1. CASE UNCHANGED guardVars \/ AlreadyLocked(p) \/ LockEnds(p)
  BY <1>1 DEF guardVars, AlreadyLocked, LockEnds, GuardTypeOK, CountInv
<1>2. CASE Counting(p)
  <2>1. GuardTypeOK'
    BY <1>2 DEF Counting, GuardTypeOK
  <2>2. \A q \in Phones : misses[q] <= k * resets[q] + fail[q]
    BY DEF CountInv
  <2> HIDE DEF k
  <2>3. \A q \in Phones : misses'[q] <= k * resets'[q] + fail'[q]
    BY <1>0, <1>2, <2>2 DEF Counting, GuardTypeOK
  <2>4. \A q \in Phones : fail'[q] <= misses'[q] /\ fail'[q] < MaxFail
    BY <1>0, <1>2 DEF Counting, Reaches, GuardTypeOK, CountInv
  <2> QED
    BY <2>1, <2>3, <2>4 DEF CountInv, k
<1>3. CASE LockedNow(p)
  <2>1. GuardTypeOK'
    BY <1>3 DEF LockedNow, Locks, GuardTypeOK
  <2>2. \A q \in Phones : misses[q] <= k * resets[q] + fail[q]
    BY DEF CountInv
  <2>3. k * 0 = 0
    BY <1>0
  <2> HIDE DEF k
  <2>4. \A q \in Phones : misses'[q] <= k * resets'[q] + fail'[q]
    BY <1>0, <1>3, <2>2, <2>3 DEF LockedNow, Locks, GuardTypeOK
  <2>5. \A q \in Phones : fail'[q] <= misses'[q] /\ fail'[q] < MaxFail
    BY <1>0, <1>3 DEF LockedNow, Locks, GuardTypeOK, CountInv
  <2> QED
    BY <2>1, <2>4, <2>5 DEF CountInv, k
<1>4. CASE OnSuccess(p)
  <2>1. GuardTypeOK'
    BY <1>4 DEF OnSuccess, GuardTypeOK
  <2>2. \A q \in Phones : misses[q] <= k * resets[q] + fail[q] /\ fail[q] <= k
    BY <1>0 DEF CountInv
  <2>3. k * (resets[p] + 1) = k * resets[p] + k
    BY <1>0, OneMoreReset
  <2> HIDE DEF k
  <2>4. \A q \in Phones : misses'[q] <= k * resets'[q] + fail'[q]
    BY <1>0, <1>4, <2>2, <2>3 DEF OnSuccess, GuardTypeOK
  <2>5. \A q \in Phones : fail'[q] <= misses'[q] /\ fail'[q] < MaxFail
    BY <1>0, <1>4 DEF OnSuccess, GuardTypeOK, CountInv
  <2> QED
    BY <2>1, <2>4, <2>5 DEF CountInv, k
<1> QED
  BY <1>1, <1>2, <1>3, <1>4 DEF OnFailure
-----------------------------------------------------------------------------
(* Tokens and the calls that bring them *)

\* A step of a login that signs l, or saves the session of l and hands it out
\* or not, when l is not held yet: no call has anything to do with l.
LEMMA TokenStep ==
  ASSUME SessionPart, NEW l \in Logins, l \notin held, UNCHANGED <<now, callVars>>,
         \/ /\ exp[l] = 0 /\ exp' = [exp EXCEPT ![l] = now + Ttl]
            /\ UNCHANGED <<sess, held>>
         \/ /\ exp[l] > 0 /\ UNCHANGED exp
            /\ sess' = [sess EXCEPT ![l] = now + Ttl] \/ UNCHANGED sess
            /\ held' = held \/ (held' = held \cup {l} /\ sess'[l] = now + Ttl)
  PROVE  SessionPart'
<1> USE SessionsAssumption DEF SessionPart
<1>0. NoToken \notin held /\ \A c \in Calls : brought[c] # l
  BY DEF SessionsTypeOK, SessionInv
<1>1. SessionsTypeOK'
  BY DEF SessionsTypeOK, callVars
<1>2. LoggedOut' = LoggedOut /\ \A t \in Logins : Revokers(t)' = Revokers(t)
  BY DEF LoggedOut, Revokers, callVars
<1>3. l \notin LoggedOut /\ LoggedOut \subseteq Logins
  BY <1>0 DEF LoggedOut, SessionInv, SessionsTypeOK
<1>4. \A t \in Logins : /\ exp'[t] <= now' + Ttl
                        /\ sess'[t] > 0 => exp'[t] > 0 /\ sess'[t] >= exp'[t]
  BY DEF SessionsTypeOK, SessionInv
<1>5. \A t \in held' : exp'[t] > 0 /\ (sess'[t] = 0 => now' >= exp'[t] \/ Revokers(t)' # {})
  <2> SUFFICES ASSUME NEW t \in held'
               PROVE  exp'[t] > 0 /\ (sess'[t] = 0 => now' >= exp'[t] \/ Revokers(t)' # {})
    OBVIOUS
  <2>1. CASE t = l
    BY <2>1, <1>1 DEF SessionsTypeOK
  <2>2. CASE t # l
    BY <2>2, <1>2 DEF SessionsTypeOK, SessionInv
  <2> QED
    BY <2>1, <2>2
<1>6. \A t \in LoggedOut' : sess'[t] = 0
  BY <1>2, <1>3 DEF SessionInv, SessionsTypeOK
<1>7. \A c \in Calls :
        /\ brought'[c] \in held' \cup {NoToken}
        /\ callPc'[c] # "done" => callRes'[c] = "none" /\ c \notin cut' \cup garbled'
        /\ callPc'[c] = "redis" \/ callRes'[c] = "OK" => brought'[c] # NoToken
        /\ before'[c] \subseteq LoggedOut'
  BY <1>2 DEF SessionInv, callVars
<1>8. SessionInv'
  BY <1>4, <1>5, <1>6, <1>7 DEF SessionInv
<1>9. RevokedStaysOut'
  BY DEF RevokedStaysOut, callVars
<1>10. TokensAreHonored'
  <2>1. \A c \in Calls : brought[c] # NoToken => brought[c] \in Logins /\ exp'[brought[c]] = exp[brought[c]]
    BY <1>0 DEF SessionsTypeOK
  <2> QED
    BY <1>2, <2>1 DEF TokensAreHonored, callVars, SessionsTypeOK
<1> QED
  BY <1>1, <1>8, <1>9, <1>10

\* What calls were answered stays, and so do those that revoked a token.
LEMMA AnswersStay ==
  ASSUME \A c \in Calls : callRes[c] # "none" => callRes'[c] = callRes[c] /\ brought'[c] = brought[c]
  PROVE  LoggedOut \subseteq LoggedOut' /\ \A t : Revokers(t) \subseteq Revokers(t)'
BY DEF LoggedOut, Revokers

\* A call begins, waits for the table or makes it, or goes on to Redis.
LEMMA CallGoes ==
  ASSUME SessionPart, NEW c \in Calls, NEW a \in CallPc \ {"done"}, Goto(c, a),
         callPc[c] # "done", UNCHANGED <<tokenVars, callRes, garbled, cut>>,
         table' \in BOOLEAN, ready' \in BOOLEAN,
         \/ UNCHANGED <<brought, before>>
         \/ /\ \E t \in held \cup {NoToken} : brought' = [brought EXCEPT ![c] = t]
            /\ before' = [before EXCEPT ![c] = LoggedOut]
            /\ a # "redis",
         a = "redis" => brought[c] # NoToken
  PROVE  SessionPart'
<1> USE SessionsAssumption DEF SessionPart
<1>0. callRes[c] = "none"
  BY DEF SessionInv
<1>1. \A d \in Calls : d # c => brought'[d] = brought[d] /\ before'[d] = before[d]
  BY DEF SessionsTypeOK
<1>2. LoggedOut' = LoggedOut /\ \A t : Revokers(t)' = Revokers(t)
  BY <1>0, <1>1 DEF LoggedOut, Revokers
<1>3. LoggedOut \subseteq held
  BY DEF LoggedOut, SessionInv
<1>4. SessionsTypeOK'
  BY <1>3 DEF SessionsTypeOK, Goto, tokenVars
<1>5. brought'[c] \in held \cup {NoToken} /\ before'[c] \subseteq LoggedOut
  BY DEF SessionsTypeOK, SessionInv
<1>6. SessionInv'
  BY <1>0, <1>1, <1>2, <1>4, <1>5 DEF SessionInv, Goto, tokenVars, SessionsTypeOK
<1>7. RevokedStaysOut' /\ TokensAreHonored'
  BY <1>0, <1>1, <1>2, <1>4 DEF RevokedStaysOut, TokensAreHonored, SessionsTypeOK, tokenVars
<1> QED
  BY <1>4, <1>6, <1>7

\* A call ends: for a reason, and having deleted its session if it was a logout
\* that got through.
LEMMA CallEnds ==
  ASSUME SessionPart, NEW c \in Calls, NEW a \in {"OK", "GONE", "INVALID"}, Reply(c, a),
         callPc[c] # "done", UNCHANGED <<now, exp, held, table, ready, brought, before>>,
         garbled' \in {garbled, garbled \cup {c}}, cut' \in {cut, cut \cup {c}},
         \/ UNCHANGED sess
         \/ /\ brought[c] # NoToken /\ sess' = [sess EXCEPT ![brought[c]] = 0]
            /\ CallKind[c] = "logout" /\ a \in {"OK", "GONE"},
         CallKind[c] = "logout" /\ a = "OK" => sess' = [sess EXCEPT ![brought[c]] = 0],
         a = "OK" => brought[c] # NoToken,
         CallKind[c] = "authenticate" /\ a = "OK" => sess[brought[c]] > 0,
         a # "OK" /\ brought[c] # NoToken =>
            now >= exp[brought[c]] \/ sess[brought[c]] = 0 \/ c \in cut' \cup garbled'
  PROVE  SessionPart'
<1> USE SessionsAssumption DEF SessionPart
<1>0. callRes[c] = "none" /\ c \notin cut \cup garbled
  BY DEF SessionInv
<1>1. /\ \A d \in Calls : d # c => callRes'[d] = callRes[d] /\ callPc'[d] = callPc[d]
      /\ callRes'[c] = a /\ callPc'[c] = "done"
  BY DEF SessionsTypeOK, Reply, Goto
<1>2. /\ LoggedOut \subseteq LoggedOut' /\ \A t : Revokers(t) \subseteq Revokers(t)'
      /\ LoggedOut' \subseteq LoggedOut \cup {brought[c]}
      /\ ~(CallKind[c] = "logout" /\ a = "OK") => LoggedOut' = LoggedOut
      /\ CallKind[c] = "logout" /\ a \in {"OK", "GONE"} => c \in Revokers(brought[c])'
  BY <1>0, <1>1 DEF LoggedOut, Revokers
<1>3. SessionsTypeOK'
  BY DEF SessionsTypeOK, Reply, Goto, CallPc
<1>4. \A t \in Logins : /\ sess'[t] \in {sess[t], 0}
                        /\ t # brought[c] => sess'[t] = sess[t]
  BY DEF SessionsTypeOK
<1>5. brought[c] \in held \cup {NoToken}
  BY DEF SessionInv
<1>6. SessionInv'
  <2>1. \A t \in Logins : /\ exp'[t] <= now' + Ttl
                          /\ sess'[t] > 0 => exp'[t] > 0 /\ sess'[t] >= exp'[t]
    BY <1>4 DEF SessionInv, SessionsTypeOK
  <2>2. \A t \in held' : exp'[t] > 0 /\ (sess'[t] = 0 => now' >= exp'[t] \/ Revokers(t)' # {})
    <3> SUFFICES ASSUME NEW t \in held, sess'[t] = 0
                 PROVE  now >= exp[t] \/ Revokers(t)' # {}
      BY DEF SessionInv
    <3>1. CASE sess[t] = 0
      BY <1>2, <3>1 DEF SessionInv
    <3>2. CASE sess[t] # 0
      BY <1>2, <1>4, <3>2 DEF SessionsTypeOK
    <3> QED
      BY <3>1, <3>2
  <2>3. \A t \in LoggedOut' : sess'[t] = 0
    <3> SUFFICES ASSUME NEW t \in LoggedOut' PROVE sess'[t] = 0
      OBVIOUS
    <3>1. t \in Logins
      BY <1>2, <1>5 DEF LoggedOut, SessionInv, SessionsTypeOK
    <3>2. CASE t \in LoggedOut
      BY <1>4, <3>1, <3>2 DEF SessionInv
    <3>3. CASE t \notin LoggedOut
      BY <1>2, <3>1, <3>3 DEF SessionsTypeOK
    <3> QED
      BY <3>2, <3>3
  <2>4. \A d \in Calls :
          /\ brought'[d] \in held' \cup {NoToken}
          /\ callPc'[d] # "done" => callRes'[d] = "none" /\ d \notin cut' \cup garbled'
          /\ callPc'[d] = "redis" \/ callRes'[d] = "OK" => brought'[d] # NoToken
          /\ before'[d] \subseteq LoggedOut'
    BY <1>0, <1>1, <1>2 DEF SessionInv
  <2> QED
    BY <2>1, <2>2, <2>3, <2>4 DEF SessionInv
<1>7. RevokedStaysOut'
  <2>1. CallKind[c] = "authenticate" /\ a = "OK" => brought[c] \notin before[c]
    BY DEF SessionInv
  <2> QED
    BY <1>1, <2>1 DEF RevokedStaysOut
<1>8. TokensAreHonored'
  <2>1. a # "OK" /\ brought[c] # NoToken =>
           \/ now >= exp[brought[c]] \/ Revokers(brought[c]) \ {c} # {} \/ c \in cut' \cup garbled'
    <3>1. c \notin Revokers(brought[c])
      BY <1>0 DEF Revokers
    <3> QED
      BY <1>5, <3>1 DEF SessionInv
  <2> SUFFICES ASSUME NEW d \in Calls, callRes'[d] \in {"GONE", "INVALID"}, brought[d] # NoToken
               PROVE  \/ now >= exp[brought[d]]
                      \/ Revokers(brought[d])' \ {d} # {}
                      \/ d \in cut' \cup garbled'
    BY DEF TokensAreHonored
  <2>2. CASE d = c
    BY <1>1, <1>2, <2>1, <2>2
  <2>3. CASE d # c
    BY <1>1, <1>2, <2>3 DEF TokensAreHonored
  <2> QED
    BY <2>2, <2>3
<1> QED
  BY <1>3, <1>6, <1>7, <1>8

\* The clock goes on: a session that expires had outlived its token.
LEMMA TickSession ==
  ASSUME SessionPart, Tick
  PROVE  SessionPart'
<1> USE SessionsAssumption DEF SessionPart, Tick
<1>0. LoggedOut' = LoggedOut /\ \A t : Revokers(t)' = Revokers(t)
  BY DEF LoggedOut, Revokers, callVars
<1>1. SessionsTypeOK'
  BY DEF SessionsTypeOK, callVars
<1>2. \A t \in Logins : /\ now \in Nat /\ exp[t] \in Nat /\ sess[t] \in Nat
                        /\ now' = now + 1 /\ exp'[t] = exp[t]
                        /\ sess'[t] = IF sess[t] <= now THEN 0 ELSE sess[t]
  BY DEF SessionsTypeOK
<1>3. held' = held /\ held \subseteq Logins /\ LoggedOut \subseteq Logins
  BY DEF SessionsTypeOK, SessionInv, LoggedOut
<1>4. SessionInv'
  <2>1. \A t \in Logins : /\ exp'[t] <= now' + Ttl
                          /\ sess'[t] > 0 => exp'[t] > 0 /\ sess'[t] >= exp'[t]
    BY <1>2 DEF SessionInv
  <2>2. \A t \in held' : exp'[t] > 0 /\ (sess'[t] = 0 => now' >= exp'[t] \/ Revokers(t)' # {})
    <3> SUFFICES ASSUME NEW t \in held
                 PROVE  exp'[t] > 0 /\ (sess'[t] = 0 => now' >= exp'[t] \/ Revokers(t)' # {})
      BY <1>3
    <3>1. /\ exp[t] > 0 /\ (sess[t] = 0 => now >= exp[t] \/ Revokers(t) # {})
          /\ sess[t] > 0 => sess[t] >= exp[t]
      BY <1>3 DEF SessionInv
    <3> QED
      BY <1>0, <1>2, <1>3, <3>1
  <2>3. \A t \in LoggedOut' : sess'[t] = 0
    BY <1>0, <1>2, <1>3 DEF SessionInv
  <2> QED
    BY <1>0, <2>1, <2>2, <2>3 DEF SessionInv, callVars
<1>5. RevokedStaysOut'
  BY DEF RevokedStaysOut, callVars
<1>6. TokensAreHonored'
  <2>1. \A c \in Calls : brought[c] # NoToken => brought[c] \in Logins
    BY DEF SessionsTypeOK
  <2> QED
    BY <1>0, <1>2, <2>1 DEF TokensAreHonored, callVars
<1> QED
  BY <1>1, <1>4, <1>5, <1>6

LEMMA SessionsStep ==
  ASSUME SessionPart, SessionsNext \/ UNCHANGED sessVars
  PROVE  SessionPart'
<1> USE SessionsAssumption
<1>0. SessionsTypeOK /\ SessionInv
  BY DEF SessionPart
<1>1. ASSUME NEW c \in Calls, Bring(c) PROVE SessionPart'
  <2>1. \E a \in {"verify", "clear"} : Goto(c, a)
    BY <1>1 DEF Bring
  <2> QED
    BY <1>0, <1>1, <2>1, CallGoes DEF Bring, SessionsTypeOK, CallPc
<1>2. ASSUME NEW c \in Calls, Clear(c) PROVE SessionPart'
  BY <1>0, <1>2, CallGoes DEF Clear, SessionsTypeOK, CallPc
<1>3. ASSUME NEW c \in Calls, Fill(c) PROVE SessionPart'
  BY <1>0, <1>3, CallGoes DEF Fill, SessionsTypeOK, CallPc
<1>4. ASSUME NEW c \in Calls, Verify(c) PROVE SessionPart'
  <2>1. CASE Genuine(brought[c]) /\ Goto(c, "redis") /\ UNCHANGED <<callRes, garbled>>
    BY <1>0, <1>4, <2>1, CallGoes DEF Verify, Genuine, SessionsTypeOK, CallPc
  <2>2. CASE ~Genuine(brought[c]) /\ Reply(c, "INVALID") /\ UNCHANGED garbled
    <3>1. brought[c] # NoToken => now >= exp[brought[c]]
      BY <1>0, <2>2 DEF Genuine, SessionsTypeOK
    <3> QED
      BY <1>4, <2>2, <3>1, CallEnds DEF Verify, tokenVars
  <2>3. CASE Reply(c, "INVALID") /\ garbled' = garbled \cup {c}
    BY <1>4, <2>3, CallEnds DEF Verify, tokenVars
  <2> QED
    BY <1>4, <2>1, <2>2, <2>3 DEF Verify
<1>5. ASSUME NEW c \in Calls, callPc[c] = "redis"
      PROVE  /\ brought[c] \in Logins /\ brought[c] # NoToken
             /\ sess[brought[c]] > 0 \/ sess[brought[c]] = 0
             /\ Gone(brought[c]) => now >= exp[brought[c]] \/ sess[brought[c]] = 0
  <2>1. brought[c] \in Logins /\ brought[c] # NoToken
    BY <1>0, <1>5 DEF SessionsTypeOK, SessionInv
  <2>2. /\ sess[brought[c]] \in Nat /\ exp[brought[c]] \in Nat /\ now \in Nat
        /\ sess[brought[c]] > 0 => sess[brought[c]] >= exp[brought[c]]
    BY <1>0, <2>1 DEF SessionsTypeOK, SessionInv
  <2> QED
    BY <2>1, <2>2 DEF Gone
<1>6. ASSUME NEW c \in Calls, Logout(c) PROVE SessionPart'
  <2>1. CASE Revoke(c)
    <3>1. CASE There(brought[c]) /\ Reply(c, "OK")
      BY <1>5, <1>6, <2>1, <3>1, CallEnds DEF Logout, Revoke
    <3>2. CASE Gone(brought[c]) /\ Reply(c, "GONE")
      BY <1>5, <1>6, <2>1, <3>2, CallEnds DEF Logout, Revoke
    <3> QED
      BY <2>1, <3>1, <3>2 DEF Revoke
  <2>2. CASE RevokeFails(c)
    BY <1>5, <1>6, <2>2, CallEnds DEF Logout, RevokeFails
  <2> QED
    BY <1>6, <2>1, <2>2 DEF Logout
<1>7. ASSUME NEW c \in Calls, Authenticate(c) PROVE SessionPart'
  <2>1. CASE There(brought[c]) /\ Reply(c, "OK") /\ UNCHANGED cut
    BY <1>5, <1>7, <2>1, CallEnds DEF Authenticate, There, tokenVars
  <2>2. CASE Gone(brought[c]) /\ Reply(c, "GONE") /\ UNCHANGED cut
    BY <1>5, <1>7, <2>2, CallEnds DEF Authenticate, tokenVars
  <2>3. CASE ExistsFails(c)
    BY <1>5, <1>7, <2>3, CallEnds DEF Authenticate, ExistsFails, tokenVars
  <2> QED
    BY <1>7, <2>1, <2>2, <2>3 DEF Authenticate
<1>8. CASE UNCHANGED sessVars
  <2>1. LoggedOut' = LoggedOut /\ \A t : Revokers(t)' = Revokers(t)
    BY <1>8 DEF LoggedOut, Revokers, sessVars, callVars
  <2> QED
    BY <1>8, <2>1 DEF SessionPart, SessionsTypeOK, SessionInv, RevokedStaysOut,
                      TokensAreHonored, sessVars, tokenVars, callVars
<1> QED
  BY <1>1, <1>2, <1>3, <1>4, <1>6, <1>7, <1>8, TickSession DEF SessionsNext
-----------------------------------------------------------------------------
(* The logins *)

\* Every running login whose phone is not locked is noted.
Noted ==
  \A l \in Logins : pc[l] \notin {"idle", "done"} /\ lock[LoginPhone[l]] # "on" => l \in unlocked

LEMMA NotesAll ==
  ASSUME NotesLocks, LoginTypeOK, LoginTypeOK'
  PROVE  Noted' /\ unlocked \subseteq unlocked'
<1>1. ASSUME NEW l \in Logins, pc'[l] \notin {"idle", "done"}, lock'[LoginPhone[l]] # "on"
      PROVE  l \in unlocked'
  <2>1. LoginPhone[l] \in Phones /\ l \in Running(LoginPhone[l])
    BY <1>1, LoginAssumption DEF Running
  <2> QED
    BY <1>1, <2>1 DEF NotesLocks
<1> QED
  BY <1>1 DEF Noted, NotesLocks

LEMMA NotesUntouched ==
  ASSUME LoginPart, UNCHANGED lock, unlocked \subseteq unlocked',
         \A l \in Logins : pc'[l] \notin {"idle", "done"} => pc[l] \notin {"idle", "done"}
  PROVE  Noted'
BY DEF Noted, LoginPart, LoginInv

\* No login moves.
LEMMA LoginsStay ==
  ASSUME LoginPart, LoginTypeOK', Noted', unlocked \subseteq unlocked',
         UNCHANGED <<pc, res, exp, held>>
  PROVE  LoginPart'
BY DEF LoginPart, LoginInv, LockedOutStaysOut, Noted

\* A login moves on or is answered, and holds its token if the answer is OK.
LEMMA LoginMoves ==
  ASSUME LoginPart, NEW l \in Logins, LoginTypeOK', Noted', unlocked \subseteq unlocked',
         pc[l] # "done",
         \/ \E a \in Pc \ {"idle", "done"} :
              /\ Step(l, a) /\ UNCHANGED held
              /\ a # "check" => l \in unlocked'
              /\ a \in {"check", "select", "hash"} => exp'[l] = 0
              /\ a = "save" => exp'[l] > 0
         \/ \E a \in Answers \ {"OK"} : Answer(l, a) /\ UNCHANGED held
         \/ Answer(l, "OK") /\ held' = held \cup {l} /\ pc[l] = "save",
         \A k \in Logins : k # l => exp'[k] = exp[k]
  PROVE  LoginPart'
<1> USE DEF LoginPart
<1>0. /\ pc \in [Logins -> Pc] /\ res \in [Logins -> Answers \cup {"none"}]
      /\ \A k \in Logins : k # l => pc'[k] = pc[k] /\ res'[k] = res[k] /\ (k \in held' <=> k \in held)
  BY DEF LoginTypeOK, Step, Answer
<1>1. res[l] = "none" /\ l \notin held
  BY DEF LoginInv
<1>2. \A k \in Logins : k # l =>
        /\ pc'[k] \in {"select", "unknown", "hash", "wrong", "save"} => k \in unlocked'
        /\ pc'[k] \in {"idle", "check", "select", "hash"} => exp'[k] = 0
        /\ pc'[k] = "save" => exp'[k] > 0
        /\ pc'[k] # "done" => res'[k] = "none"
        /\ res'[k] = "OK" <=> k \in held'
  BY <1>0 DEF LoginInv
<1>3. /\ pc'[l] \in {"select", "unknown", "hash", "wrong", "save"} => l \in unlocked'
      /\ pc'[l] \in {"idle", "check", "select", "hash"} => exp'[l] = 0
      /\ pc'[l] = "save" => exp'[l] > 0
      /\ pc'[l] # "done" => res'[l] = "none"
      /\ res'[l] = "OK" <=> l \in held'
  BY <1>0, <1>1 DEF Step, Answer, Pc, Answers
<1>4. LoginInv'
  BY <1>2, <1>3 DEF LoginInv, Noted
<1>5. LockedOutStaysOut'
  <2>1. pc[l] = "save" => l \in unlocked
    BY DEF LoginInv
  <2> QED
    BY <2>1 DEF LockedOutStaysOut
<1> QED
  BY <1>4, <1>5
-----------------------------------------------------------------------------
(* Every step keeps the invariant *)

LEMMA NextInv == IInv /\ [Next]_vars => IInv'
<1>. (IInv <=> GuardPart /\ SessionPart /\ LoginPart)'
  BY InvParts, PTL
<1> SUFFICES ASSUME GuardPart, SessionPart, LoginPart, [Next]_vars
             PROVE  GuardPart' /\ SessionPart' /\ LoginPart'
  BY InvParts
<1> USE GuardAssumption, SessionsAssumption, LoginAssumption
<1>0. LoginTypeOK /\ LoginInv /\ SessionsTypeOK /\ SessionInv /\ GuardTypeOK
  BY DEF LoginPart, SessionPart, GuardPart
<1>1. ASSUME NEW l \in Logins, Start(l) PROVE GuardPart' /\ SessionPart' /\ LoginPart'
  <2>1. LoginTypeOK'
    BY <1>0, <1>1 DEF Start, LoginTypeOK, Step, Answer, Pc, Answers, NotesLocks, Running
  <2>2. Noted' /\ unlocked \subseteq unlocked'
    BY <1>0, <1>1, <2>1, NotesAll DEF Start
  <2>3. pc[l] = "idle" /\ exp'[l] = 0 /\ UNCHANGED <<exp, held>>
    BY <1>0, <1>1 DEF Start, LoginInv, sessVars, tokenVars
  <2>4. LoginPart'
    BY <1>1, <2>1, <2>2, <2>3, LoginMoves DEF Start, Pc, Answers
  <2> QED
    BY <1>1, <2>4, GuardStep, SessionsStep DEF Start
<1>2. ASSUME NEW l \in Logins, Check(l) PROVE GuardPart' /\ SessionPart' /\ LoginPart'
  <2>1. LoginTypeOK' /\ unlocked \subseteq unlocked'
    BY <1>0, <1>2 DEF Check, CheckFails, LoginTypeOK, Step, Answer, Pc, Answers
  <2>2. /\ pc[l] = "check" /\ exp'[l] = 0 /\ UNCHANGED <<exp, held, lock>>
        /\ ~IsLocked(LoginPhone[l]) => l \in unlocked
    BY <1>0, <1>2 DEF Check, LoginInv, IsLocked, guardVars, sessVars, tokenVars
  <2>3. Noted'
    BY <1>0, <1>2, <2>1, <2>2, NotesUntouched DEF Check, CheckFails, Step, Answer, LoginTypeOK
  <2>4. LoginPart'
    BY <1>2, <2>1, <2>2, <2>3, LoginMoves DEF Check, CheckFails, Pc, Answers
  <2> QED
    BY <1>2, <2>4, GuardStep, SessionsStep DEF Check
<1>3. ASSUME NEW l \in Logins, Select(l) PROVE GuardPart' /\ SessionPart' /\ LoginPart'
  <2>1. LoginTypeOK'
    BY <1>0, <1>3 DEF Select, LoginTypeOK, Step, Answer, Pc, Answers
  <2>2. /\ pc[l] = "select" /\ exp'[l] = 0 /\ l \in unlocked
        /\ UNCHANGED <<exp, held, lock, unlocked>>
    BY <1>0, <1>3 DEF Select, LoginInv, guardVars, sessVars, tokenVars
  <2>3. Noted'
    BY <1>0, <1>3, <2>2, NotesUntouched DEF Select, Step, Answer, LoginTypeOK
  <2>4. LoginPart'
    BY <1>3, <2>1, <2>2, <2>3, LoginMoves DEF Select, Pc, Answers
  <2> QED
    BY <1>3, <2>4, GuardStep, SessionsStep DEF Select
<1>4. ASSUME NEW l \in Logins, Hash(l) PROVE GuardPart' /\ SessionPart' /\ LoginPart'
  <2>1. LoginTypeOK'
    BY <1>0, <1>4 DEF Hash, LoginTypeOK, Step, Answer, Pc, Answers
  <2>2. /\ pc[l] = "hash" /\ exp[l] = 0 /\ l \in unlocked /\ l \notin held
        /\ UNCHANGED <<held, lock, unlocked>>
    BY <1>0, <1>4 DEF Hash, LoginInv, guardVars, tokenVars, Sign
  <2>3. Noted'
    BY <1>0, <1>4, <2>2, NotesUntouched DEF Hash, Step, Answer, LoginTypeOK
  <2>4. CASE Step(l, "save") /\ Sign(l)
    <3>1. exp'[l] > 0 /\ \A k \in Logins : k # l => exp'[k] = exp[k]
      BY <1>0, <2>4 DEF Sign, SessionsTypeOK
    <3>2. LoginPart'
      BY <2>1, <2>2, <2>3, <2>4, <3>1, LoginMoves DEF Pc
    <3>3. SessionPart'
      BY <1>4, <2>2, <2>4, TokenStep DEF Hash, Sign
    <3> QED
      BY <1>4, <3>2, <3>3, GuardStep DEF Hash
  <2>5. CASE (Step(l, "wrong") \/ Answer(l, "REFUSED")) /\ UNCHANGED tokenVars
    <3>1. LoginPart'
      BY <2>1, <2>2, <2>3, <2>5, LoginMoves DEF Pc, Answers, tokenVars
    <3> QED
      BY <1>4, <2>5, <3>1, GuardStep, SessionsStep DEF Hash, sessVars
  <2> QED
    BY <1>4, <2>4, <2>5 DEF Hash
<1>5. ASSUME NEW l \in Logins, Unknown(l) \/ Wrong(l)
      PROVE  GuardPart' /\ SessionPart' /\ LoginPart'
  <2>1. /\ pc[l] # "done" /\ \E a \in Answers \ {"OK"} : Answer(l, a)
        /\ NotesLocks /\ UNCHANGED <<sessVars, account, reset>>
        /\ OnFailure(LoginPhone[l]) \/ UNCHANGED guardVars
    BY <1>5 DEF Unknown, Wrong, Answers, OnFailure
  <2>2. LoginTypeOK'
    BY <1>0, <2>1 DEF LoginTypeOK, Answer, Pc, NotesLocks, Running
  <2>3. Noted' /\ unlocked \subseteq unlocked'
    BY <1>0, <2>1, <2>2, NotesAll
  <2>4. LoginPart'
    BY <2>1, <2>2, <2>3, LoginMoves DEF sessVars, tokenVars
  <2>5. GuardPart'
    BY <2>1, GuardStep
  <2> QED
    BY <2>1, <2>4, <2>5, SessionsStep
<1>6. ASSUME NEW l \in Logins, Save(l) PROVE GuardPart' /\ SessionPart' /\ LoginPart'
  <2>1. LoginTypeOK'
    BY <1>0, <1>6 DEF Save, Saved, NotSaved, LoginTypeOK, Answer, Pc, Answers
  <2>2. /\ pc[l] = "save" /\ exp[l] > 0 /\ l \notin held
        /\ UNCHANGED <<exp, now, lock, unlocked>>
    BY <1>0, <1>6 DEF Save, Saved, NotSaved, HandOut, LoginInv, guardVars
  <2>3. Noted'
    BY <1>0, <1>6, <2>2, NotesUntouched DEF Save, Saved, NotSaved, Answer, LoginTypeOK
  <2>4. LoginPart'
    BY <1>6, <2>1, <2>2, <2>3, LoginMoves DEF Save, Saved, NotSaved, HandOut, Answers
  <2>5. SessionPart'
    <3>1. SetSession(l) => sess'[l] = now + Ttl
      BY <1>0 DEF SetSession, SessionsTypeOK
    <3> QED
      BY <1>6, <2>2, <3>1, TokenStep DEF Save, Saved, NotSaved, HandOut, SetSession
  <2> QED
    BY <1>6, <2>4, <2>5, GuardStep DEF Save
<1>7. ASSUME NEW l \in Logins, Reset(l) PROVE GuardPart' /\ SessionPart' /\ LoginPart'
  <2>1. LoginTypeOK' /\ UNCHANGED <<pc, res, exp, held, lock, unlocked>>
    BY <1>0, <1>7 DEF Reset, OnSuccess, LoginTypeOK, guardVars, sessVars, tokenVars
  <2>2. Noted' /\ LoginPart'
    BY <2>1, NotesUntouched, LoginsStay
  <2> QED
    BY <1>7, <2>2, GuardStep, SessionsStep DEF Reset
<1>8. ASSUME NEW p \in Phones, Register(p) PROVE GuardPart' /\ SessionPart' /\ LoginPart'
  <2>1. LoginTypeOK' /\ UNCHANGED <<pc, res, exp, held, lock, unlocked>>
    BY <1>0, <1>8 DEF Register, LoginTypeOK, guardVars, sessVars, tokenVars
  <2>2. Noted' /\ LoginPart'
    BY <2>1, NotesUntouched, LoginsStay
  <2> QED
    BY <1>8, <2>2, GuardStep, SessionsStep DEF Register
<1>9. ASSUME GuardNext, UNCHANGED <<sessVars, account, pc, res, reset>>, NotesLocks
      PROVE  GuardPart' /\ SessionPart' /\ LoginPart'
  <2>1. GuardPart'
    BY <1>9, GuardStep DEF GuardNext, FailTtl
  <2>2. LoginTypeOK' /\ UNCHANGED <<exp, held>>
    BY <1>0, <1>9 DEF LoginTypeOK, NotesLocks, Running, sessVars, tokenVars
  <2>3. LoginPart'
    BY <1>0, <1>9, <2>2, NotesAll, LoginsStay
  <2> QED
    BY <1>9, <2>1, <2>3, SessionsStep
<1>10. ASSUME (SessionsNext /\ UNCHANGED <<guardVars, loginVars>>) \/ UNCHANGED vars
       PROVE  GuardPart' /\ SessionPart' /\ LoginPart'
  <2>1. UNCHANGED <<guardVars, loginVars>> /\ (SessionsNext \/ UNCHANGED sessVars)
    BY <1>10 DEF vars
  <2>2. UNCHANGED <<exp, held>>
    BY <2>1 DEF SessionsNext, Bring, Clear, Fill, Verify, Logout, Authenticate, Tick,
                sessVars, tokenVars
  <2>3. LoginTypeOK' /\ UNCHANGED <<pc, res, lock, unlocked>>
    BY <1>0, <2>1 DEF LoginTypeOK, loginVars, guardVars
  <2>4. LoginPart'
    BY <2>2, <2>3, NotesUntouched, LoginsStay
  <2>5. GuardPart'
    <3>1. UNCHANGED guardVars
      BY <2>1
    <3> QED
      BY <3>1 DEF GuardPart, GuardTypeOK, CountInv, guardVars
  <2> QED
    BY <2>1, <2>4, <2>5, SessionsStep
<1> QED
  BY <1>1, <1>2, <1>3, <1>4, <1>5, <1>6, <1>7, <1>8, <1>9, <1>10 DEF Next

\* The inductive invariant holds at every state of every login, logout and
\* authenticate, however they, expiries and failures interleave.
THEOREM Invariant == Spec => []IInv
BY InitInv, NextInv, PTL DEF Spec

\* MaxFail - 1 failures between two resets of the count go by without a lock,
\* and no more (kOnFailureScript).
THEOREM GuessesBounded == Spec => []GuessesAreBounded
<1>1. IInv => GuessesAreBounded
  BY DEF IInv
<1> QED
  BY <1>1, Invariant, PTL

\* Who is locked out from beginning to end gets no token (checkLocked).
THEOREM LockedOut == Spec => []LockedOutStaysOut
<1>1. IInv => LockedOutStaysOut
  BY DEF IInv
<1> QED
  BY <1>1, Invariant, PTL

\* What a logout revoked stays out (SessionStore::revoke and exists).
THEOREM RevokedOut == Spec => []RevokedStaysOut
<1>1. IInv => RevokedStaysOut
  BY DEF IInv
<1> QED
  BY <1>1, Invariant, PTL

\* A token is refused for a reason (SessionStore::save, Jwt::verify).
THEOREM Honored == Spec => []TokensAreHonored
<1>1. IInv => TokensAreHonored
  BY DEF IInv
<1> QED
  BY <1>1, Invariant, PTL

\* A phone is locked only after MaxFail failures of its own (kOnFailureScript).
THEOREM LocksEarned == Spec => LocksAreEarned
<1> DEFINE A == \A p \in Phones :
                  lock'[p] = "on" /\ lock[p] # "on" => lock[p] = "off" /\ misses[p] + 1 >= MaxFail
<1>1. ASSUME GuardPart, NEW p \in Phones, OnFailure(p) PROVE A
  <2> SUFFICES ASSUME NEW q \in Phones, lock'[q] = "on", lock[q] # "on"
               PROVE  lock[q] = "off" /\ misses[q] + 1 >= MaxFail
    OBVIOUS
  <2>1. q = p /\ LockedNow(p)
    BY <1>1 DEF OnFailure, AlreadyLocked, Counting, LockedNow, Locks, GuardPart, GuardTypeOK, guardVars
  <2>2. fail[p] <= misses[p] /\ fail[p] \in Nat /\ misses[p] \in Nat
    BY <1>1 DEF GuardPart, GuardTypeOK, CountInv
  <2> QED
    BY <2>1, <2>2, GuardAssumption DEF LockedNow, Locks, Reaches
<1>2. ASSUME GuardPart, [Next]_vars PROVE [A]_guardVars
  <2>1. \/ \E p \in Phones : OnFailure(p) \/ LockEnds(p)
        \/ UNCHANGED lock
    BY <1>2, LoginAssumption
       DEF Next, Start, Check, Select, Hash, Unknown, Wrong, Save, Reset, Register, GuardNext,
           FailTtl, OnFailure, OnSuccess, vars, guardVars
  <2>2. ASSUME NEW p \in Phones, LockEnds(p) PROVE A
    BY <1>2, <2>2 DEF LockEnds, GuardPart, GuardTypeOK
  <2> QED
    BY <1>1, <1>2, <2>1, <2>2
<1>3. IInv => GuardPart
  BY InvParts
<1> QED
  BY <1>2, <1>3, Invariant, PTL DEF Spec, LocksAreEarned
=============================================================================
