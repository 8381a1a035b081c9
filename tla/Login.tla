-------------------------------- MODULE Login --------------------------------
(***************************************************************************)
(* UserService::login with LoginGuard in front of it and the tokens of     *)
(* Sessions behind it: the look at the lock, the SELECT of the account,    *)
(* the hash on a thread of its own, the count of the failure or the reset  *)
(* of the count, the token and its session.  A step is one command and the *)
(* callback that runs with its answer; anything may happen before the next *)
(* command is executed.                                                    *)
(***************************************************************************)
EXTENDS LoginGuard, Sessions

CONSTANTS
  LoginPhone, \* [Logins -> Phones]
  DbFails     \* whether a statement may fail

ASSUME LoginAssumption ==
  /\ LoginPhone \in [Logins -> Phones]
  /\ DbFails \in BOOLEAN

VARIABLES
  account, \* the row of a phone: "none", "active" or "disabled"
  pc,      \* where a login is
  res,     \* what it was answered
  reset,   \* its onSuccess: "none", "sent" or "done"
  unlocked \* ghost: logins that ran at a moment at which their phone was not
           \* locked, or whose look at the lock failed

loginVars == <<account, pc, res, reset, unlocked>>
vars == <<guardVars, sessVars, loginVars>>

Pc == {"idle", "check", "select", "unknown", "hash", "wrong", "save", "done"}
\* REFUSED stands for INVALID_PHONE, ACCOUNT_DISABLED, DB_ERROR, HASH_FAILED
\* and REDIS_ERROR, which count nothing, WRONG for WRONG_PASSWORD and
\* USER_NOT_FOUND, LOCKED for ACCOUNT_LOCKED.
Answers == {"OK", "LOCKED", "WRONG", "REFUSED"}

Init ==
  /\ GuardInit /\ SessionsInit
  /\ account \in [Phones -> {"none", "active", "disabled"}]
  /\ pc = [l \in Logins |-> "idle"]
  /\ res = [l \in Logins |-> "none"]
  /\ reset = [l \in Logins |-> "none"]
  /\ unlocked = {}

TypeOK ==
  /\ GuardTypeOK /\ SessionsTypeOK
  /\ account \in [Phones -> {"none", "active", "disabled"}]
  /\ pc \in [Logins -> Pc]
  /\ res \in [Logins -> Answers \cup {"none"}]
  /\ reset \in [Logins -> {"none", "sent", "done"}]
  /\ unlocked \subseteq Logins

-----------------------------------------------------------------------------
(* The way of a login *)

Step(l, label) == pc' = [pc EXCEPT ![l] = label] /\ UNCHANGED res

Answer(l, a) ==
  /\ pc' = [pc EXCEPT ![l] = "done"]
  /\ res' = [res EXCEPT ![l] = a]

\* The ghost that every step of a guard's key brings up to date.
Running(p) == {l \in Logins : LoginPhone[l] = p /\ pc'[l] \notin {"idle", "done"}}
NotesLocks ==
  unlocked' = unlocked \cup UNION {Running(p) : p \in {q \in Phones : lock'[q] # "on"}}

Start(l) ==
  /\ pc[l] = "idle"
  /\ Step(l, "check") \/ Answer(l, "REFUSED")
  /\ UNCHANGED <<guardVars, sessVars, account, reset>>
  /\ NotesLocks

\* checkLocked; when it fails the login passes.
CheckFails(l) == RedisFails /\ Step(l, "select") /\ unlocked' = unlocked \cup {l}

Check(l) ==
  /\ pc[l] = "check"
  /\ \/ /\ IF IsLocked(LoginPhone[l]) THEN Answer(l, "LOCKED") ELSE Step(l, "select")
        /\ UNCHANGED unlocked
     \/ CheckFails(l)
  /\ UNCHANGED <<guardVars, sessVars, account, reset>>

Select(l) ==
  /\ pc[l] = "select"
  /\ LET a == account[LoginPhone[l]]
     IN \/ a = "none" /\ Step(l, "unknown")
        \/ a = "disabled" /\ Answer(l, "REFUSED")
        \/ a = "active" /\ Step(l, "hash")
        \/ DbFails /\ Answer(l, "REFUSED")
  /\ UNCHANGED <<guardVars, sessVars, account, reset, unlocked>>

\* The detached thread, and its callback: it fails, or the password is wrong, or
\* it is right; then the reset of the count is sent, and not waited for, and
\* the token is signed.
Hash(l) ==
  /\ pc[l] = "hash"
  /\ \/ Answer(l, "REFUSED") /\ UNCHANGED <<tokenVars, reset>>
     \/ Step(l, "wrong") /\ UNCHANGED <<tokenVars, reset>>
     \/ Step(l, "save") /\ Sign(l) /\ reset' = [reset EXCEPT ![l] = "sent"]
  /\ UNCHANGED <<guardVars, callVars, account, unlocked>>

\* onFailure after the SELECT found nobody: its result is not looked at.
Unknown(l) ==
  /\ pc[l] = "unknown"
  /\ OnFailure(LoginPhone[l]) \/ (RedisFails /\ UNCHANGED guardVars)
  /\ Answer(l, "WRONG") /\ NotesLocks
  /\ UNCHANGED <<sessVars, account, reset>>

\* onFailure after a wrong password.  When the command fails the script may
\* have run or not, and the user hears of one wrong password.
Wrong(l) ==
  /\ pc[l] = "wrong"
  /\ LET p == LoginPhone[l]
     IN \/ Counting(p) /\ Answer(l, "WRONG")
        \/ (LockedNow(p) \/ AlreadyLocked(p)) /\ Answer(l, "LOCKED")
        \/ /\ RedisFails
           /\ OnFailure(p) \/ UNCHANGED guardVars
           /\ Answer(l, "WRONG")
  /\ NotesLocks
  /\ UNCHANGED <<sessVars, account, reset>>

\* The token is handed out when its session is saved, and not before.
Saved(l) == SetSession(l) /\ HandOut(l) /\ Answer(l, "OK")

NotSaved(l) ==
  /\ RedisFails
  /\ SetSession(l) \/ UNCHANGED sess
  /\ Answer(l, "REFUSED")
  /\ UNCHANGED <<now, exp, held>>

Save(l) ==
  /\ pc[l] = "save"
  /\ Saved(l) \/ NotSaved(l)
  /\ UNCHANGED <<guardVars, callVars, account, reset, unlocked>>

\* DEL of the count is executed, however late, or fails and is only logged.
Reset(l) ==
  /\ reset[l] = "sent"
  /\ reset' = [reset EXCEPT ![l] = "done"]
  /\ OnSuccess(LoginPhone[l]) \/ (RedisFails /\ UNCHANGED guardVars)
  /\ UNCHANGED <<sessVars, account, pc, res, unlocked>>

\* A registration inserts the row.
Register(p) ==
  /\ account[p] = "none"
  /\ account' = [account EXCEPT ![p] = "active"]
  /\ UNCHANGED <<guardVars, sessVars, pc, res, reset, unlocked>>

Next ==
  \/ \E l \in Logins :
        \/ Start(l) \/ Check(l) \/ Select(l) \/ Hash(l)
        \/ Unknown(l) \/ Wrong(l) \/ Save(l) \/ Reset(l)
  \/ \E p \in Phones : Register(p)
  \/ GuardNext /\ UNCHANGED <<sessVars, account, pc, res, reset>> /\ NotesLocks
  \/ SessionsNext /\ UNCHANGED <<guardVars, loginVars>>

Spec == Init /\ [][Next]_vars

-----------------------------------------------------------------------------
(* Properties *)

\* A login that runs from its start to its end under a lock gets no token,
\* right password or not (UserService.cc:184-189; the half second in which
\* the lock reads as 0 and a login whose look failed are exempt).
LockedOutStaysOut == \A l \in held : l \in unlocked

\* What keeps the parts together: who is past the look at the lock was let
\* past it, and a token is signed, saved and handed out as its login says.
LoginInv ==
  \A l \in Logins :
     /\ pc[l] \in {"select", "unknown", "hash", "wrong", "save"} => l \in unlocked
     /\ pc[l] \notin {"idle", "done"} /\ lock[LoginPhone[l]] # "on" => l \in unlocked
     /\ pc[l] \in {"idle", "check", "select", "hash"} => exp[l] = 0
     /\ pc[l] = "save" => exp[l] > 0
     /\ pc[l] # "done" => res[l] = "none"
     /\ res[l] = "OK" <=> l \in held

\* IInv is what every step of login, logout and authenticate preserves.
IInv ==
  /\ TypeOK
  /\ CountInv /\ GuessesAreBounded
  /\ SessionInv /\ RevokedStaysOut /\ TokensAreHonored
  /\ LoginInv /\ LockedOutStaysOut
=============================================================================
