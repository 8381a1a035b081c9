------------------------------ MODULE Sessions -------------------------------
(***************************************************************************)
(* SessionStore and Jwt under UserService::logout and authenticate: tokens *)
(* that are signed for Ttl seconds, the keys sess:{jti} that make them     *)
(* revocable, and the calls that bring a token.                            *)
(*                                                                         *)
(* The token of a login is named by the login; signatures are perfect, so  *)
(* whatever else a caller brings is NoToken.  One clock, in seconds, tells *)
(* the server and Redis the time.                                          *)
(***************************************************************************)
EXTENDS Integers, FiniteSets

CONSTANTS
  Logins,    \* what a token is signed for
  Calls,     \* calls of logout and authenticate
  CallKind,  \* [Calls -> {"logout", "authenticate"}]
  NoToken,
  Ttl,       \* jwt_ttl_seconds, of the token and of the session
  MaxTime,   \* bound: the last second
  RedisFails \* whether a Redis command may fail, or its answer be lost

ASSUME SessionsAssumption ==
  /\ CallKind \in [Calls -> {"logout", "authenticate"}]
  /\ NoToken \notin Logins
  /\ Ttl \in Nat \ {0} /\ MaxTime \in Nat
  /\ RedisFails \in BOOLEAN

VARIABLES
  now,     \* the current second
  exp,     \* the exp of a token; 0 while it is not signed
  sess,    \* the second in which sess:{jti} expires; 0 when there is no such key
  held,    \* the tokens that were handed out
  table,   \* reverse, base64UrlDecode's table: is it complete?
  ready,   \* reverseInit
  callPc,  \* where a call is
  brought, \* its token
  callRes, \* what it was answered
  before,  \* ghost: tokens whose logout had said OK when the call began
  garbled, \* ghost: the calls that decoded with an incomplete table
  cut      \* ghost: the calls whose Redis command failed

tokenVars == <<now, exp, sess, held>>
callVars == <<table, ready, callPc, brought, callRes, before, garbled, cut>>
sessVars == <<tokenVars, callVars>>

SessionsInit ==
  /\ now = 0
  /\ exp = [l \in Logins |-> 0]
  /\ sess = [l \in Logins |-> 0]
  /\ held = {}
  /\ table = FALSE /\ ready = FALSE
  /\ callPc = [c \in Calls |-> "idle"]
  /\ brought = [c \in Calls |-> NoToken]
  /\ callRes = [c \in Calls |-> "none"]
  /\ before = [c \in Calls |-> {}]
  /\ garbled = {} /\ cut = {}

CallPc == {"idle", "clear", "fill", "verify", "redis", "done"}

SessionsTypeOK ==
  /\ now \in Nat
  /\ exp \in [Logins -> Nat] /\ sess \in [Logins -> Nat]
  /\ held \subseteq Logins
  /\ table \in BOOLEAN /\ ready \in BOOLEAN
  /\ callPc \in [Calls -> CallPc]
  /\ brought \in [Calls -> Logins \cup {NoToken}]
  /\ callRes \in [Calls -> {"none", "OK", "GONE", "INVALID"}]
  /\ before \in [Calls -> SUBSET Logins]
  /\ garbled \subseteq Calls /\ cut \subseteq Calls

-----------------------------------------------------------------------------
(* Jwt::sign and SessionStore::save, the end of a login *)

Sign(l) == exp' = [exp EXCEPT ![l] = now + Ttl] /\ UNCHANGED <<now, sess, held>>

\* SETEX.  Mutant: a session a second shorter than its token.
SetSessionShort(l) == sess' = [sess EXCEPT ![l] = now + Ttl - 1]
SetSession(l) == sess' = [sess EXCEPT ![l] = now + Ttl]

HandOut(l) == held' = held \cup {l} /\ UNCHANGED <<now, exp>>

-----------------------------------------------------------------------------
(* logout and authenticate *)

Goto(c, l) == callPc' = [callPc EXCEPT ![c] = l]

Reply(c, a) == Goto(c, "done") /\ callRes' = [callRes EXCEPT ![c] = a]

LoggedOut ==
  {brought[c] : c \in {d \in Calls : CallKind[d] = "logout" /\ callRes[d] = "OK"}}

\* Somebody brings a token that was handed out, or something that is none, and
\* its thread looks whether the table is there: if (!reverseInit), with no lock
\* and no atomic.
Bring(c) ==
  /\ callPc[c] = "idle"
  /\ \E t \in held \cup {NoToken} : brought' = [brought EXCEPT ![c] = t]
  /\ before' = [before EXCEPT ![c] = LoggedOut]
  /\ Goto(c, IF ready THEN "verify" ELSE "clear")
  /\ UNCHANGED <<tokenVars, table, ready, callRes, garbled, cut>>

Clear(c) ==
  /\ callPc[c] = "clear"
  /\ table' = FALSE
  /\ Goto(c, "fill")
  /\ UNCHANGED <<tokenVars, ready, brought, callRes, before, garbled, cut>>

Fill(c) ==
  /\ callPc[c] = "fill"
  /\ table' = TRUE /\ ready' = TRUE
  /\ Goto(c, "verify")
  /\ UNCHANGED <<tokenVars, brought, callRes, before, garbled, cut>>

Genuine(t) == t # NoToken /\ now < exp[t]

\* The rest of Jwt::verify.  With a table that is incomplete a letter may be
\* taken for one outside the alphabet or for another letter: then what is
\* decoded, or its signature, is refused; or the letters needed are there.
Verify(c) ==
  /\ callPc[c] = "verify"
  /\ \/ Genuine(brought[c]) /\ Goto(c, "redis") /\ UNCHANGED <<callRes, garbled>>
     \/ ~Genuine(brought[c]) /\ Reply(c, "INVALID") /\ UNCHANGED garbled
     \/ ~table /\ Reply(c, "INVALID") /\ garbled' = garbled \cup {c}
  /\ UNCHANGED <<tokenVars, table, ready, brought, before, cut>>

\* In its last second a key may be there or not.
There(t) == sess[t] >= now /\ sess[t] > 0
Gone(t) == sess[t] <= now

\* revoke: DEL, which tells whether there was a session.
Revoke(c) ==
  LET t == brought[c]
  IN /\ sess' = [sess EXCEPT ![t] = 0]
     /\ \/ There(t) /\ Reply(c, "OK")
        \/ Gone(t) /\ Reply(c, "GONE")
     /\ UNCHANGED cut

\* A revoke that failed is answered like that of a session that was gone.
RevokeFails(c) ==
  /\ RedisFails
  /\ sess' = [sess EXCEPT ![brought[c]] = 0] \/ UNCHANGED sess
  /\ Reply(c, "GONE") /\ cut' = cut \cup {c}

Logout(c) ==
  /\ callPc[c] = "redis" /\ CallKind[c] = "logout"
  /\ Revoke(c) \/ RevokeFails(c)
  /\ UNCHANGED <<now, exp, held, table, ready, brought, before, garbled>>

\* exists: EXISTS; when it fails the token is refused.
\* Mutant: it is let in, as by the guard of the logins.
ExistsFailsOpen(c) == RedisFails /\ Reply(c, "OK") /\ cut' = cut \cup {c}
ExistsFails(c) == RedisFails /\ Reply(c, "GONE") /\ cut' = cut \cup {c}

Authenticate(c) ==
  /\ callPc[c] = "redis" /\ CallKind[c] = "authenticate"
  /\ \/ There(brought[c]) /\ Reply(c, "OK") /\ UNCHANGED cut
     \/ Gone(brought[c]) /\ Reply(c, "GONE") /\ UNCHANGED cut
     \/ ExistsFails(c)
  /\ UNCHANGED <<tokenVars, table, ready, brought, before, garbled>>

\* The second ends, and with it the keys whose last second it was.
Tick ==
  /\ now < MaxTime
  /\ now' = now + 1
  /\ sess' = [l \in Logins |-> IF sess[l] <= now THEN 0 ELSE sess[l]]
  /\ UNCHANGED <<exp, held, callVars>>

SessionsNext ==
  \/ \E c \in Calls :
        Bring(c) \/ Clear(c) \/ Fill(c) \/ Verify(c) \/ Logout(c) \/ Authenticate(c)
  \/ Tick

-----------------------------------------------------------------------------
(* Properties *)

\* Once a logout has said OK its token is refused to every call that begins
\* after it, whatever Redis does and whatever is under way
\* (UserService.cc:268-269, SessionStore.cc:32-33).
RevokedStaysOut ==
  \A c \in Calls :
     CallKind[c] = "authenticate" /\ callRes[c] = "OK" => brought[c] \notin before[c]

Revokers(t) ==
  {c \in Calls : CallKind[c] = "logout" /\ brought[c] = t /\ callRes[c] \in {"OK", "GONE"}}

\* A token that was handed out is refused only for a reason: it has expired,
\* another call logged it out, the call's own command failed, or its decoding met the
\* unfinished table.  No session dies before its token (SessionStore.cc:15-16).
TokensAreHonored ==
  \A c \in Calls :
     callRes[c] \in {"GONE", "INVALID"} /\ brought[c] # NoToken =>
        \/ now >= exp[brought[c]]
        \/ Revokers(brought[c]) \ {c} # {}
        \/ c \in cut \cup garbled

\* verify is false if structure, algorithm, signature, issuer or exp is wrong
\* (Jwt.h): so a token that was handed out and has not expired passes.
ValidTokenVerifies ==
  \A c \in Calls :
     callRes[c] = "INVALID" /\ brought[c] # NoToken => now >= exp[brought[c]]

\* What makes it so: a token is handed out after its session was saved, that
\* session outlives the token unless it is revoked, and what a logout said is
\* gone never comes back.
SessionInv ==
  /\ \A l \in Logins :
        /\ exp[l] <= now + Ttl
        /\ sess[l] > 0 => exp[l] > 0 /\ sess[l] >= exp[l]
  /\ \A l \in held : exp[l] > 0 /\ (sess[l] = 0 => now >= exp[l] \/ Revokers(l) # {})
  /\ \A l \in LoggedOut : sess[l] = 0
  /\ \A c \in Calls :
        /\ brought[c] \in held \cup {NoToken}
        /\ callPc[c] # "done" => callRes[c] = "none" /\ c \notin cut \cup garbled
        /\ callPc[c] = "redis" \/ callRes[c] = "OK" => brought[c] # NoToken
        /\ before[c] \subseteq LoggedOut
=============================================================================
