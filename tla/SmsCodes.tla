------------------------------ MODULE SmsCodes -------------------------------
(***************************************************************************)
(* SmsService: a code is sent to a phone and typed back.  All of it lives  *)
(* in four Redis keys of the phone, which two Lua scripts read and write,  *)
(* each in one step: sms:code, sms:try, sms:cd (the pause between two      *)
(* codes) and sms:day (the codes of the day).                              *)
(*                                                                         *)
(* Codes are random: no two are equal and nobody guesses one, so the code  *)
(* that a request asks for is named by that request.  Time is the order    *)
(* in which keys expire.  TTL rounds to whole seconds, so sms:try ends up  *)
(* to half a second before or after the code it was made for: the last     *)
(* half second of a code, in which its TTL reads 0, is told apart.         *)
(***************************************************************************)
EXTENDS Integers, Sequences, FiniteSets

CONSTANTS
  Phones,
  Sends,       \* requests for a code; the code of s is called s
  SendPhone,   \* [Sends -> Phones]
  NoCode,
  MaxAttempts, \* max_verify_attempts
  DailyLimit,  \* daily_limit
  MaxDays,     \* bound: how often a day ends
  RedisFails   \* whether a Redis command may fail, or its answer be lost

ASSUME SmsAssumption ==
  /\ IsFiniteSet(Phones)
  /\ SendPhone \in [Sends -> Phones]
  /\ NoCode \notin Sends
  /\ MaxAttempts \in Nat \ {0}
  /\ DailyLimit \in Nat
  /\ MaxDays \in Nat
  /\ RedisFails \in BOOLEAN

VARIABLES
  stored,   \* sms:code, [Phones -> Sends \cup {NoCode}]
  tries,    \* sms:try, [Phones -> Nat]; 0 when there is no such key
  triesEnd, \* the code whose TTL sms:try was given
  late,     \* codes whose TTL has less than half a second left, or has run out
  cooldown, \* sms:cd, [Phones -> BOOLEAN]
  quota,    \* sms:day of the current day, [Phones -> Nat]
  days,     \* days that have ended
  live,     \* codes whose TTL has not run out, the oldest first
  sendPc,   \* [Sends -> {"idle", "stored", "sent", "refused", "failed"}]
  missed,   \* ghost: wrong tries made against a code, [Sends -> Nat]
  voided    \* ghost: the codes that were deleted for too many tries

keys == <<stored, tries, triesEnd, late, cooldown, quota, days, live>>
smsVars == <<keys, sendPc, missed, voided>>

SmsInit ==
  /\ stored = [p \in Phones |-> NoCode]
  /\ tries = [p \in Phones |-> 0]
  /\ triesEnd = [p \in Phones |-> NoCode]
  /\ late = {}
  /\ cooldown = [p \in Phones |-> FALSE]
  /\ quota = [p \in Phones |-> 0]
  /\ days = 0
  /\ live = [p \in Phones |-> <<>>]
  /\ sendPc = [s \in Sends |-> "idle"]
  /\ missed = [s \in Sends |-> 0]
  /\ voided = {}

Codes == Sends \cup {NoCode}

SmsTypeOK ==
  /\ stored \in [Phones -> Codes] /\ triesEnd \in [Phones -> Codes]
  /\ tries \in [Phones -> Nat] /\ quota \in [Phones -> Nat]
  /\ cooldown \in [Phones -> BOOLEAN]
  /\ days \in Nat /\ late \subseteq Sends
  /\ live \in [Phones -> Seq(Sends)]
  /\ sendPc \in [Sends -> {"idle", "stored", "sent", "refused", "failed"}]
  /\ missed \in [Sends -> Nat]
  /\ voided \subseteq Sends

-----------------------------------------------------------------------------
(* sendCode *)

\* kSendScript refuses: the pause is not over, or the day's codes are sent.
MayNotSend(p) == cooldown[p] \/ quota[p] >= DailyLimit

\* It accepts: the new code takes the place of the old one, sms:try stays.
Store(s) ==
  LET p == SendPhone[s]
  IN /\ ~MayNotSend(p)
     /\ stored' = [stored EXCEPT ![p] = s]
     /\ live' = [live EXCEPT ![p] = Append(@, s)]
     /\ cooldown' = [cooldown EXCEPT ![p] = TRUE]
     /\ quota' = [quota EXCEPT ![p] = @ + 1]
     /\ UNCHANGED <<tries, triesEnd, late, days, missed, voided>>

Ends(s, answer) == sendPc' = [sendPc EXCEPT ![s] = answer]

\* The script runs, or fails, or its answer is lost (the code is stored then).
SendCode(s) ==
  /\ sendPc[s] = "idle"
  /\ \/ Store(s) /\ Ends(s, "stored")
     \/ RedisFails /\ Store(s) /\ Ends(s, "failed")
     \/ /\ MayNotSend(SendPhone[s]) /\ Ends(s, "refused")
        /\ UNCHANGED <<keys, missed, voided>>
     \/ RedisFails /\ Ends(s, "failed") /\ UNCHANGED <<keys, missed, voided>>

\* The callback of the script hands the code to the sender, which logs it.
Deliver(s) ==
  /\ sendPc[s] = "stored"
  /\ Ends(s, "sent")
  /\ UNCHANGED <<keys, missed, voided>>

-----------------------------------------------------------------------------
(* verifyCode: the four ends of kVerifyScript *)

CodeMissing(p) == stored[p] = NoCode /\ UNCHANGED smsVars

CodeVoid(p) ==
  /\ stored[p] # NoCode /\ tries[p] >= MaxAttempts
  /\ stored' = [stored EXCEPT ![p] = NoCode]
  /\ voided' = voided \cup {stored[p]}
  /\ UNCHANGED <<tries, triesEnd, late, cooldown, quota, days, live, sendPc, missed>>

MayTry(p) == stored[p] # NoCode /\ tries[p] < MaxAttempts

\* The code and its tries are deleted with the comparison, in one step.
\* Mutant: they are left to expire.
CodeKept(p, c) == MayTry(p) /\ stored[p] = c /\ UNCHANGED smsVars
CodeRight(p, c) ==
  /\ MayTry(p) /\ stored[p] = c
  /\ stored' = [stored EXCEPT ![p] = NoCode]
  /\ tries' = [tries EXCEPT ![p] = 0]
  /\ triesEnd' = [triesEnd EXCEPT ![p] = NoCode]
  /\ UNCHANGED <<late, cooldown, quota, days, live, sendPc, missed, voided>>

\* INCR, then EXPIRE with the TTL that the code c still has.  In its last half
\* second that is 0, and EXPIRE deletes the count it was to keep.
Misses(p, c) ==
  /\ tries' = [tries EXCEPT ![p] = IF c \in late THEN 0 ELSE @ + 1]
  /\ triesEnd' = [triesEnd EXCEPT ![p] = IF c \in late THEN NoCode ELSE c]
  /\ missed' = [missed EXCEPT ![stored[p]] = @ + 1]
  /\ UNCHANGED <<stored, late, cooldown, quota, days, live, sendPc, voided>>

\* sms:try gets the TTL of the code, at every try.
\* Mutant: only the first try sets it, as the other scripts do.
CodeWrongOnce(p, c) ==
  /\ MayTry(p) /\ stored[p] # c
  /\ Misses(p, IF tries[p] = 0 THEN stored[p] ELSE triesEnd[p])
CodeWrong(p, c) == MayTry(p) /\ stored[p] # c /\ Misses(p, stored[p])

-----------------------------------------------------------------------------
(* Keys expire *)

\* The oldest code enters its last half second.  The next code of the phone is
\* stored a pause of a second or more later, so by then sms:try is gone if it was
\* given the end of an older one.
CodeEnding(p) ==
  /\ live[p] # <<>> /\ Head(live[p]) \notin late /\ triesEnd[p] \notin late
  /\ late' = late \cup {Head(live[p])}
  /\ UNCHANGED <<stored, tries, triesEnd, cooldown, quota, days, live, sendPc,
                 missed, voided>>

\* The TTL of sms:try runs out, at most half a second before or after the code's.
TriesTtl(p) ==
  /\ triesEnd[p] \in late
  /\ tries' = [tries EXCEPT ![p] = 0]
  /\ triesEnd' = [triesEnd EXCEPT ![p] = NoCode]
  /\ UNCHANGED <<stored, late, cooldown, quota, days, live, sendPc, missed, voided>>

\* The TTL of the oldest code runs out; a newer one may be in its place.
CodeTtl(p) ==
  /\ live[p] # <<>> /\ Head(live[p]) \in late
  /\ stored' = [stored EXCEPT ![p] = IF @ = Head(live[p]) THEN NoCode ELSE @]
  /\ live' = [live EXCEPT ![p] = Tail(@)]
  /\ UNCHANGED <<tries, triesEnd, late, cooldown, quota, days, sendPc, missed, voided>>

CooldownEnds(p) ==
  /\ cooldown[p]
  /\ cooldown' = [cooldown EXCEPT ![p] = FALSE]
  /\ UNCHANGED <<stored, tries, triesEnd, late, quota, days, live, sendPc, missed, voided>>

DayEnds ==
  /\ days < MaxDays
  /\ days' = days + 1
  /\ quota' = [p \in Phones |-> 0]
  /\ UNCHANGED <<stored, tries, triesEnd, late, cooldown, live, sendPc, missed, voided>>

SmsNext ==
  \/ \E s \in Sends : SendCode(s) \/ Deliver(s)
  \/ \E p \in Phones : CodeEnding(p) \/ TriesTtl(p) \/ CodeTtl(p) \/ CooldownEnds(p)
  \/ DayEnds

-----------------------------------------------------------------------------
(* Properties *)

\* What the scripts keep true of the keys: a code is stored for the phone it
\* was asked for, and until its last half second the tries made against it are
\* in sms:try, which was given its end.
KeysInv ==
  /\ \A q \in Phones :
        /\ tries[q] <= MaxAttempts
        /\ stored[q] # NoCode =>
             /\ SendPhone[stored[q]] = q /\ sendPc[stored[q]] # "idle"
             /\ stored[q] \in late \/ missed[stored[q]] <= tries[q]
             /\ stored[q] \in late \/ missed[stored[q]] = 0 \/ triesEnd[q] = stored[q]
  /\ \A s \in Sends : sendPc[s] = "idle" => missed[s] = 0

\* However codes, tries and expiries interleave, until its last half second a
\* code gets no more than max_verify_attempts wrong tries (kVerifyScript).
TriesPerCode == \A s \in Sends : s \in late \/ missed[s] <= MaxAttempts

\* maxVerifyAttempts is how often ONE code may be tried (SmsService.h:36): a
\* code that is made void for too many tries was tried that often.
VoidAfterTries == \A s \in voided : missed[s] >= MaxAttempts
=============================================================================
