---------------------------- MODULE Registration -----------------------------
(***************************************************************************)
(* UserService::registerUser with RegisterGuard in front of it and the     *)
(* codes of SmsCodes behind it: the quota of the address, the code, the    *)
(* look whether the phone has an account, the hash on a thread of its own, *)
(* the INSERT that the unique key uk_phone decides, and the count of       *)
(* accounts made.  A step is one command and the callback that runs with   *)
(* its answer; anything may happen before the next command is executed.    *)
(***************************************************************************)
EXTENDS SmsCodes

CONSTANTS
  Requests,   \* calls of registerUser
  PhoneOf,    \* [Requests -> Phones]
  Ips,
  IpOf,       \* [Requests -> Ips]
  RequireSms, \* require_sms_on_register
  MaxPerIp,   \* max_per_ip
  DbFails,    \* whether a statement may fail, or its answer be lost
  Nobody

ASSUME RegistrationAssumption ==
  /\ PhoneOf \in [Requests -> Phones]
  /\ IpOf \in [Requests -> Ips]
  /\ RequireSms \in BOOLEAN /\ DbFails \in BOOLEAN
  /\ MaxPerIp \in Nat \ {0}
  /\ Nobody \notin Requests

VARIABLES
  user,    \* the row of a phone: the request that inserted it, or Nobody
  ipCount, \* reg:ip, [Ips -> Nat]; 0 when there is no such key
  pc,      \* where a request is
  typed,   \* the code it carries, [Requests -> Codes]; NoCode is a wrong one
  res,     \* what it was answered
  mark,    \* its markSuccess: "none", "sent" or "done"
  redeemed \* ghost: pairs of a request and the code it redeemed

reqVars == <<user, ipCount, pc, typed, res, mark, redeemed>>
vars == <<smsVars, reqVars>>

Pc == {"idle", "check", "verify", "select", "hash", "insert", "done"}
\* CODE stands for CODE_EXPIRED, CODE_WRONG, CODE_TOO_MANY_ATTEMPTS and
\* CODE_INVALID, ERROR for DB_ERROR and HASH_FAILED, INVALID for INVALID_PHONE
\* and WEAK_PASSWORD.
Answers == {"OK", "REGISTER_IP_LIMITED", "INVALID", "CODE", "PHONE_REGISTERED", "ERROR"}

Init ==
  /\ SmsInit
  /\ user = [p \in Phones |-> Nobody]
  /\ ipCount = [i \in Ips |-> 0]
  /\ pc = [r \in Requests |-> "idle"]
  /\ typed = [r \in Requests |-> NoCode]
  /\ res = [r \in Requests |-> "none"]
  /\ mark = [r \in Requests |-> "none"]
  /\ redeemed = {}

TypeOK ==
  /\ SmsTypeOK
  /\ user \in [Phones -> Requests \cup {Nobody}]
  /\ ipCount \in [Ips -> Nat]
  /\ pc \in [Requests -> Pc]
  /\ typed \in [Requests -> Codes]
  /\ res \in [Requests -> Answers \cup {"none"}]
  /\ mark \in [Requests -> {"none", "sent", "done"}]
  /\ redeemed \subseteq Requests \X Sends

-----------------------------------------------------------------------------
(* The way of a request *)

Goto(r, l) == pc' = [pc EXCEPT ![r] = l] /\ UNCHANGED res

Answer(r, a) ==
  /\ pc' = [pc EXCEPT ![r] = "done"]
  /\ res' = [res EXCEPT ![r] = a]

\* The user types a code that reached the phone, or a wrong one.
Submit(r) ==
  /\ pc[r] = "idle"
  /\ \E c \in {s \in Sends : sendPc[s] = "sent" /\ SendPhone[s] = PhoneOf[r]}
                 \cup {NoCode} :
        typed' = [typed EXCEPT ![r] = c]
  /\ Goto(r, "check")
  /\ UNCHANGED <<smsVars, user, ipCount, mark, redeemed>>

\* RegisterGuard::check; a failure of Redis lets the request pass.  Behind it
\* any request may have a bad phone number or a short password.
Check(r) ==
  /\ pc[r] = "check"
  /\ \/ ipCount[IpOf[r]] >= MaxPerIp /\ Answer(r, "REGISTER_IP_LIMITED")
     \/ /\ ipCount[IpOf[r]] < MaxPerIp \/ RedisFails
        /\ \/ Answer(r, "INVALID")
           \/ Goto(r, IF RequireSms THEN "verify" ELSE "select")
  /\ UNCHANGED <<smsVars, user, ipCount, typed, mark, redeemed>>

Redeem(r) ==
  /\ CodeRight(PhoneOf[r], typed[r])
  /\ redeemed' = redeemed \cup {<<r, typed[r]>>}

\* verifyCode refuses; or its command fails, which refuses as well.
\* Mutant: a failure of Redis lets the request pass here too.
NotVerified(r) ==
  /\ LET p == PhoneOf[r]
     IN CodeMissing(p) \/ CodeVoid(p) \/ CodeWrong(p, typed[r])
  /\ Answer(r, "CODE")
VerifyFailedOpen(r) == RedisFails /\ UNCHANGED smsVars /\ Goto(r, "select")
VerifyFailed(r) == RedisFails /\ UNCHANGED smsVars /\ Answer(r, "CODE")

\* The answer of the script may be lost: the code is then redeemed in vain.
Verify(r) ==
  /\ pc[r] = "verify"
  /\ \/ Redeem(r) /\ Goto(r, "select")
     \/ RedisFails /\ Redeem(r) /\ Answer(r, "CODE")
     \/ (NotVerified(r) \/ VerifyFailed(r)) /\ UNCHANGED redeemed
  /\ UNCHANGED <<user, ipCount, typed, mark>>

Select(r) ==
  /\ pc[r] = "select"
  /\ \/ user[PhoneOf[r]] # Nobody /\ Answer(r, "PHONE_REGISTERED")
     \/ user[PhoneOf[r]] = Nobody /\ Goto(r, "hash")
     \/ DbFails /\ Answer(r, "ERROR")
  /\ UNCHANGED <<smsVars, user, ipCount, typed, mark, redeemed>>

\* genSalt and pbkdf2Hex, on a detached thread; either may fail.
\* Mutant: the account is counted before it is made.
HashAndMark(r) ==
  /\ pc[r] = "hash"
  /\ Goto(r, "insert") /\ mark' = [mark EXCEPT ![r] = "sent"]
  /\ UNCHANGED <<smsVars, user, ipCount, typed, redeemed>>
Hash(r) ==
  /\ pc[r] = "hash"
  /\ Goto(r, "insert") \/ Answer(r, "ERROR")
  /\ UNCHANGED <<smsVars, user, ipCount, typed, mark, redeemed>>

Inserted(r) ==
  /\ user[PhoneOf[r]] = Nobody
  /\ user' = [user EXCEPT ![PhoneOf[r]] = r]

\* The success callback: markSuccess is sent and not waited for.
OnInsert(r) ==
  /\ Inserted(r)
  /\ mark' = [mark EXCEPT ![r] = "sent"]
  /\ Answer(r, "OK")

\* The exception callback: isDuplicateEntry tells the unique key from a failure.
\* Mutant: an account that is there is taken for the one just made.
OnDuplicateOk(r) == user[PhoneOf[r]] # Nobody /\ Answer(r, "OK")
OnDuplicate(r) == user[PhoneOf[r]] # Nobody /\ Answer(r, "PHONE_REGISTERED")

OnInsertError(r) ==
  /\ DbFails
  /\ Inserted(r) \/ UNCHANGED user
  /\ Answer(r, "ERROR")

Insert(r) ==
  /\ pc[r] = "insert"
  /\ \/ OnInsert(r)
     \/ OnDuplicate(r) /\ UNCHANGED <<user, mark>>
     \/ OnInsertError(r) /\ UNCHANGED mark
  /\ UNCHANGED <<smsVars, ipCount, typed, redeemed>>

\* kMarkScript runs, or fails and is only logged.
Mark(r) ==
  /\ mark[r] = "sent"
  /\ mark' = [mark EXCEPT ![r] = "done"]
  /\ \/ ipCount' = [ipCount EXCEPT ![IpOf[r]] = @ + 1]
     \/ RedisFails /\ UNCHANGED ipCount
  /\ UNCHANGED <<smsVars, user, pc, typed, res, redeemed>>

\* The window that the first account opened is over.
WindowEnds(i) ==
  /\ ipCount[i] > 0
  /\ ipCount' = [ipCount EXCEPT ![i] = 0]
  /\ UNCHANGED <<smsVars, user, pc, typed, res, mark, redeemed>>

Next ==
  \/ SmsNext /\ UNCHANGED reqVars
  \/ \E r \in Requests :
        \/ Submit(r) \/ Check(r) \/ Verify(r) \/ Select(r)
        \/ Hash(r) \/ Insert(r) \/ Mark(r)
  \/ \E i \in Ips : WindowEnds(i)

Spec == Init /\ [][Next]_vars

-----------------------------------------------------------------------------
(* Properties *)

\* OK is said to nobody but the request whose INSERT made the account, so two
\* requests that both found the phone free are never both told OK (uk_phone,
\* UserService.cc:92-93).
OkOwnsAccount == \A r \in Requests : res[r] = "OK" => user[PhoneOf[r]] = r

\* A code serves one request, also when requests bring it at the same time
\* (SmsService.cc:39, "one code is not used twice").
CodeRedeemedOnce ==
  \A a, b \in redeemed : a[2] = b[2] => a = b

\* While codes are required no account exists without one redeemed for it: a
\* failing Redis opens the gate of the address, never the one of the code
\* (RegisterGuard.cc:41, UserService.cc:168).
NoAccountWithoutCode ==
  RequireSms => \A p \in Phones : user[p] # Nobody =>
                   \E c \in Sends : <<user[p], c>> \in redeemed /\ SendPhone[c] = p

AccountsFrom(i) == {p \in Phones : user[p] # Nobody /\ IpOf[user[p]] = i}

\* An address is refused only after MaxPerIp accounts were made from it: tries
\* that end in nothing, in whatever order, take nothing off its quota
\* (RegisterGuard.h:8-10).  And a phone is called registered only if it is.
RefusalsAreHonest ==
  \A r \in Requests :
     /\ res[r] = "REGISTER_IP_LIMITED" => Cardinality(AccountsFrom(IpOf[r])) >= MaxPerIp
     /\ res[r] = "PHONE_REGISTERED" => user[PhoneOf[r]] # Nobody

-----------------------------------------------------------------------------
(* The inductive invariant *)

HasCode(r) == \E c \in Sends : <<r, c>> \in redeemed /\ SendPhone[c] = PhoneOf[r]

\* A redeemed code was sent and is stored no more.
RedeemedInv ==
  \A x \in redeemed : sendPc[x[2]] # "idle" /\ \A q \in Phones : stored[q] # x[2]

\* A request that is under way was not counted, one that was counted made the
\* account, and with codes required none gets past the code without one.
RequestInv ==
  \A r \in Requests :
     /\ pc[r] # "done" => mark[r] = "none" /\ res[r] = "none"
     /\ mark[r] # "none" => user[PhoneOf[r]] = r
     /\ RequireSms /\ pc[r] \in {"select", "hash", "insert"} => HasCode(r)

AccountInv ==
  \A q \in Phones : user[q] # Nobody =>
     PhoneOf[user[q]] = q /\ (RequireSms => HasCode(user[q]))

\* reg:ip never counts more than the accounts that were marked.
Counted(i) == {q \in AccountsFrom(i) : mark[user[q]] = "done"}
QuotaInv == \A i \in Ips : ipCount[i] <= Cardinality(Counted(i))

\* IInv is what every step of the registration preserves.
IInv ==
  /\ TypeOK /\ KeysInv /\ TriesPerCode
  /\ RedeemedInv /\ CodeRedeemedOnce
  /\ RequestInv /\ AccountInv /\ OkOwnsAccount
  /\ QuotaInv /\ RefusalsAreHonest
=============================================================================
