------------------------- MODULE RegistrationProofs -------------------------
(***************************************************************************)
(* IInv is an inductive invariant of Registration, for any phones, codes,  *)
(* requests, addresses and limits, and with it the properties it contains. *)
(***************************************************************************)
EXTENDS Registration, FiniteSetTheorems, TLAPS

\* The parts of the invariant that speak of codes, and those of accounts.
CodePart == KeysInv /\ TriesPerCode /\ RedeemedInv /\ CodeRedeemedOnce
AccountPart == RequestInv /\ AccountInv /\ OkOwnsAccount

\* Redeemed codes are not taken back, so what has a code keeps it.
LEMMA CodesStay ==
  ASSUME NEW r, redeemed \subseteq redeemed', HasCode(r)
  PROVE  HasCode(r)'
BY DEF HasCode

\* The codes that requests redeem are left alone by all that does not touch
\* the keys.
LEMMA CodesUntouched ==
  ASSUME CodePart, UNCHANGED <<smsVars, redeemed>>
  PROVE  CodePart'
BY DEF CodePart, KeysInv, TriesPerCode, RedeemedInv, CodeRedeemedOnce, smsVars, keys

LEMMA SmsTypeUntouched ==
  ASSUME SmsTypeOK, UNCHANGED smsVars
  PROVE  SmsTypeOK'
BY DEF SmsTypeOK, smsVars, keys

LEMMA InitInv == Init => IInv
<1> SUFFICES ASSUME Init PROVE IInv
  OBVIOUS
<1> USE SmsAssumption, RegistrationAssumption DEF Init, SmsInit
<1>1. TypeOK
  BY DEF TypeOK, SmsTypeOK, Codes, Pc, Answers
<1>2. KeysInv /\ TriesPerCode
  BY DEF KeysInv, TriesPerCode
<1>3. RedeemedInv /\ CodeRedeemedOnce
  BY DEF RedeemedInv, CodeRedeemedOnce
<1>4. RequestInv /\ AccountInv /\ OkOwnsAccount
  BY DEF RequestInv, AccountInv, OkOwnsAccount
<1>5. QuotaInv
  <2>1. \A i \in Ips : Counted(i) = {}
    BY DEF Counted, AccountsFrom
  <2>2. \A i \in Ips : ipCount[i] = 0 /\ Cardinality(Counted(i)) = 0
    BY <2>1, FS_EmptySet
  <2> QED
    BY <2>2 DEF QuotaInv
<1>6. RefusalsAreHonest
  BY DEF RefusalsAreHonest
<1> QED
  BY <1>1, <1>2, <1>3, <1>4, <1>5, <1>6 DEF IInv
-----------------------------------------------------------------------------
(* The codes *)

LEMMA StoreCodes ==
  ASSUME IInv, NEW s \in Sends, sendPc[s] = "idle", Store(s),
         NEW a \in {"stored", "failed"}, Ends(s, a), UNCHANGED redeemed
  PROVE  SmsTypeOK' /\ CodePart'
<1> USE SmsAssumption, RegistrationAssumption
<1>0. SmsTypeOK /\ KeysInv /\ TriesPerCode /\ RedeemedInv /\ CodeRedeemedOnce
      /\ redeemed \subseteq Requests \X Sends
  BY DEF IInv, TypeOK
<1>1. SmsTypeOK'
  <2>1. SendPhone[s] \in Phones
    OBVIOUS
  <2>2. live[SendPhone[s]] \in Seq(Sends) /\ Append(live[SendPhone[s]], s) \in Seq(Sends)
    BY <1>0, <2>1 DEF SmsTypeOK
  <2> QED
    BY <1>0, <2>1, <2>2 DEF SmsTypeOK, Store, Ends, Codes
<1>2. KeysInv' /\ TriesPerCode'
  BY <1>0 DEF SmsTypeOK, Codes, KeysInv, TriesPerCode, Store, Ends
<1>3. RedeemedInv' /\ CodeRedeemedOnce'
  BY <1>0 DEF SmsTypeOK, Codes, RedeemedInv, CodeRedeemedOnce, Store, Ends
<1> QED
  BY <1>1, <1>2, <1>3 DEF CodePart

\* A send request that stores nothing only moves on.
LEMMA EndsCodes ==
  ASSUME IInv, NEW s \in Sends, NEW a \in {"sent", "refused", "failed"}, Ends(s, a),
         UNCHANGED <<keys, missed, voided, redeemed>>
  PROVE  SmsTypeOK' /\ CodePart'
<1>0. SmsTypeOK /\ KeysInv /\ TriesPerCode /\ RedeemedInv /\ CodeRedeemedOnce
  BY DEF IInv, TypeOK
<1> QED
  BY <1>0 DEF SmsTypeOK, CodePart, KeysInv, TriesPerCode, RedeemedInv,
              CodeRedeemedOnce, keys, Ends

\* A code that enters its last half second asks less of its tries.
LEMMA EndingCodes ==
  ASSUME IInv, NEW q \in Phones, CodeEnding(q), UNCHANGED redeemed
  PROVE  SmsTypeOK' /\ CodePart'
<1>0. SmsTypeOK /\ KeysInv /\ TriesPerCode /\ RedeemedInv /\ CodeRedeemedOnce
  BY DEF IInv, TypeOK
<1>1. late' \subseteq Sends /\ late \subseteq late'
  <2>1. Head(live[q]) \in Sends
    BY <1>0 DEF SmsTypeOK, CodeEnding
  <2> QED
    BY <1>0, <2>1 DEF SmsTypeOK, CodeEnding
<1> QED
  BY <1>0, <1>1 DEF SmsTypeOK, CodePart, KeysInv, TriesPerCode, RedeemedInv,
                    CodeRedeemedOnce, CodeEnding

\* When tries run out, the code whose end they have is in its last half second,
\* so one that is not was not tried yet.
LEMMA TriesTtlCodes ==
  ASSUME IInv, NEW q \in Phones, TriesTtl(q), UNCHANGED redeemed
  PROVE  SmsTypeOK' /\ CodePart'
<1> USE SmsAssumption
<1>0. SmsTypeOK /\ KeysInv /\ TriesPerCode /\ RedeemedInv /\ CodeRedeemedOnce
  BY DEF IInv, TypeOK
<1>1. SmsTypeOK'
  BY <1>0 DEF SmsTypeOK, Codes, TriesTtl
<1>2. KeysInv'
  BY <1>0 DEF SmsTypeOK, Codes, KeysInv, TriesTtl
<1>3. TriesPerCode' /\ RedeemedInv' /\ CodeRedeemedOnce'
  BY <1>0 DEF TriesPerCode, RedeemedInv, CodeRedeemedOnce, TriesTtl
<1> QED
  BY <1>1, <1>2, <1>3 DEF CodePart

LEMMA TtlCodes ==
  ASSUME IInv, NEW q \in Phones, CodeTtl(q), UNCHANGED redeemed
  PROVE  SmsTypeOK' /\ CodePart'
<1> USE SmsAssumption
<1>0. SmsTypeOK /\ KeysInv /\ TriesPerCode /\ RedeemedInv /\ CodeRedeemedOnce
  BY DEF IInv, TypeOK
<1>1. SmsTypeOK'
  <2>1. Tail(live[q]) \in Seq(Sends)
    BY <1>0 DEF SmsTypeOK, CodeTtl
  <2> QED
    BY <1>0, <2>1 DEF SmsTypeOK, Codes, CodeTtl
<1>2. \A p \in Phones : stored'[p] = stored[p] \/ stored'[p] = NoCode
  BY <1>0 DEF SmsTypeOK, CodeTtl
<1>3. KeysInv' /\ TriesPerCode'
  BY <1>0, <1>2 DEF KeysInv, TriesPerCode, CodeTtl
<1>4. RedeemedInv' /\ CodeRedeemedOnce'
  <2>1. \A x \in redeemed : x[2] \in Sends
    BY DEF IInv, TypeOK
  <2> QED
    BY <1>0, <1>2, <2>1, SmsAssumption DEF RedeemedInv, CodeRedeemedOnce, CodeTtl
<1> QED
  BY <1>1, <1>3, <1>4 DEF CodePart

LEMMA SmsCodesInv ==
  ASSUME IInv, SmsNext, UNCHANGED redeemed
  PROVE  SmsTypeOK' /\ CodePart'
<1>0. SmsTypeOK /\ KeysInv /\ TriesPerCode /\ RedeemedInv /\ CodeRedeemedOnce
  BY DEF IInv, TypeOK
<1>1. ASSUME NEW s \in Sends, SendCode(s) PROVE SmsTypeOK' /\ CodePart'
  <2>1. CASE Store(s) /\ (Ends(s, "stored") \/ Ends(s, "failed"))
    BY <1>1, <2>1, StoreCodes DEF SendCode
  <2>2. CASE (Ends(s, "refused") \/ Ends(s, "failed")) /\ UNCHANGED <<keys, missed, voided>>
    BY <2>2, EndsCodes
  <2> QED
    BY <1>1, <2>1, <2>2 DEF SendCode
<1>2. ASSUME NEW s \in Sends, Deliver(s) PROVE SmsTypeOK' /\ CodePart'
  BY <1>2, EndsCodes DEF Deliver
<1>3. ASSUME NEW q \in Phones, CodeEnding(q) \/ TriesTtl(q) \/ CodeTtl(q)
      PROVE  SmsTypeOK' /\ CodePart'
  BY <1>3, EndingCodes, TriesTtlCodes, TtlCodes
<1>4. ASSUME NEW q \in Phones, CooldownEnds(q) PROVE SmsTypeOK' /\ CodePart'
  BY <1>0, <1>4 DEF SmsTypeOK, CodePart, KeysInv, TriesPerCode, RedeemedInv,
                    CodeRedeemedOnce, CooldownEnds
<1>5. ASSUME DayEnds PROVE SmsTypeOK' /\ CodePart'
  BY <1>0, <1>5, SmsAssumption DEF SmsTypeOK, CodePart, KeysInv, TriesPerCode, RedeemedInv,
                    CodeRedeemedOnce, DayEnds
<1> QED
  BY <1>1, <1>2, <1>3, <1>4, <1>5 DEF SmsNext

\* The script redeems a code that was stored, so never one redeemed before.
LEMMA RedeemCodes ==
  ASSUME IInv, NEW r \in Requests, Redeem(r)
  PROVE  SmsTypeOK' /\ CodePart' /\ redeemed' \subseteq Requests \X Sends /\ HasCode(r)'
<1> USE SmsAssumption, RegistrationAssumption
<1> DEFINE q == PhoneOf[r]
           c == typed[r]
<1>0. SmsTypeOK /\ KeysInv /\ TriesPerCode /\ RedeemedInv /\ CodeRedeemedOnce
      /\ redeemed \subseteq Requests \X Sends
  BY DEF IInv, TypeOK
<1>1. q \in Phones /\ c \in Sends /\ stored[q] = c
  BY <1>0 DEF SmsTypeOK, Codes, Redeem, CodeRight, MayTry
<1>2. /\ stored' = [stored EXCEPT ![q] = NoCode]
      /\ tries' = [tries EXCEPT ![q] = 0]
      /\ triesEnd' = [triesEnd EXCEPT ![q] = NoCode]
      /\ UNCHANGED <<late, cooldown, quota, days, live, sendPc, missed, voided>>
      /\ redeemed' = redeemed \cup {<<r, c>>}
  BY DEF Redeem, CodeRight
<1>3. SendPhone[c] = q /\ sendPc[c] # "idle" /\ \A x \in redeemed : x[2] # c
  BY <1>0, <1>1 DEF KeysInv, RedeemedInv
<1>4. \A p \in Phones : stored[p] = c => p = q
  BY <1>0, <1>1 DEF KeysInv
<1> HIDE DEF q, c
<1>5. SmsTypeOK'
  BY <1>0, <1>1, <1>2 DEF SmsTypeOK, Codes
<1>6. KeysInv' /\ TriesPerCode'
  BY <1>0, <1>1, <1>2 DEF SmsTypeOK, Codes, KeysInv, TriesPerCode
<1>7. RedeemedInv'
  <2>1. ASSUME NEW x \in redeemed'
        PROVE  sendPc'[x[2]] # "idle" /\ \A p \in Phones : stored'[p] # x[2]
    <3>1. CASE x \in redeemed
      BY <1>0, <1>1, <1>2, <3>1 DEF SmsTypeOK, RedeemedInv
    <3>2. CASE x = <<r, c>>
      BY <1>0, <1>1, <1>2, <1>3, <1>4, <3>2 DEF SmsTypeOK
    <3> QED
      BY <1>2, <3>1, <3>2
  <2> QED
    BY <2>1 DEF RedeemedInv
<1>8. CodeRedeemedOnce'
  BY <1>0, <1>2, <1>3 DEF CodeRedeemedOnce
<1>9. redeemed' \subseteq Requests \X Sends
  BY <1>0, <1>1, <1>2
<1>10. HasCode(r)'
  BY <1>1, <1>2, <1>3 DEF HasCode, q
<1> QED
  BY <1>5, <1>6, <1>7, <1>8, <1>9, <1>10 DEF CodePart

LEMMA RefusalCodes ==
  ASSUME IInv, NEW r \in Requests, UNCHANGED redeemed,
         \/ CodeMissing(PhoneOf[r]) \/ CodeVoid(PhoneOf[r])
         \/ CodeWrong(PhoneOf[r], typed[r]) \/ UNCHANGED smsVars
  PROVE  SmsTypeOK' /\ CodePart'
<1> USE SmsAssumption, RegistrationAssumption
<1> DEFINE q == PhoneOf[r]
<1>0. SmsTypeOK /\ KeysInv /\ TriesPerCode /\ RedeemedInv /\ CodeRedeemedOnce
      /\ redeemed \subseteq Requests \X Sends /\ q \in Phones
  BY DEF IInv, TypeOK
<1>1. CASE UNCHANGED smsVars
  BY <1>0, <1>1, CodesUntouched, SmsTypeUntouched DEF CodePart
<1>2. CASE CodeVoid(q)
  <2> HIDE DEF q
  <2>1. SmsTypeOK'
    BY <1>0, <1>2 DEF SmsTypeOK, Codes, CodeVoid
  <2> QED
    BY <1>0, <1>2, <2>1 DEF SmsTypeOK, Codes, CodeVoid, CodePart, KeysInv, TriesPerCode,
                            RedeemedInv, CodeRedeemedOnce
<1>3. CASE CodeWrong(q, typed[r])
  <2>1. MayTry(q) /\ Misses(q, stored[q])
    BY <1>3 DEF CodeWrong
  <2> HIDE DEF q
  <2>2. /\ stored[q] \in Sends /\ tries[q] < MaxAttempts
        /\ stored[q] \in late \/ missed[stored[q]] <= tries[q]
    BY <1>0, <2>1 DEF SmsTypeOK, Codes, MayTry, KeysInv
  <2>3. SmsTypeOK'
    <3>1. tries[q] + 1 \in Nat /\ missed[stored[q]] + 1 \in Nat
      BY <1>0, <2>2 DEF SmsTypeOK
    <3>2. tries' \in [Phones -> Nat] /\ missed' \in [Sends -> Nat]
      BY <1>0, <2>1, <2>2, <3>1 DEF SmsTypeOK, Misses
    <3>3. triesEnd' \in [Phones -> Codes]
      BY <1>0, <2>1, <2>2 DEF SmsTypeOK, Codes, Misses
    <3> QED
      BY <1>0, <2>1, <3>2, <3>3 DEF SmsTypeOK, Misses
  <2>4. KeysInv' /\ TriesPerCode'
    <3> DEFINE s == stored[q]
    <3>1. /\ tries' = [tries EXCEPT ![q] = IF s \in late THEN 0 ELSE @ + 1]
          /\ triesEnd' = [triesEnd EXCEPT ![q] = IF s \in late THEN NoCode ELSE s]
          /\ missed' = [missed EXCEPT ![s] = @ + 1] /\ UNCHANGED <<stored, late, sendPc>>
      BY <2>1 DEF Misses
    <3>2. /\ SendPhone[s] = q /\ sendPc[s] # "idle"
          /\ \A p \in Phones : stored[p] = s => p = q
      BY <1>0, <2>2 DEF KeysInv
    <3> HIDE DEF s
    <3>3. TriesPerCode'
      BY <1>0, <2>2, <3>1 DEF SmsTypeOK, TriesPerCode, s
    <3>4. \A t \in Sends : sendPc'[t] = "idle" => missed'[t] = 0
      BY <1>0, <3>1, <3>2 DEF SmsTypeOK, KeysInv
    <3>5. ASSUME NEW p \in Phones
          PROVE  /\ tries'[p] <= MaxAttempts
                 /\ stored'[p] # NoCode =>
                      /\ SendPhone[stored'[p]] = p /\ sendPc'[stored'[p]] # "idle"
                      /\ stored'[p] \in late' \/ missed'[stored'[p]] <= tries'[p]
                      /\ \/ stored'[p] \in late' \/ missed'[stored'[p]] = 0
                         \/ triesEnd'[p] = stored'[p]
      <4>1. CASE p = q
        BY <1>0, <2>2, <3>1, <3>2, <4>1 DEF SmsTypeOK, s
      <4>2. CASE p # q
        BY <1>0, <3>1, <3>2, <4>2 DEF SmsTypeOK, KeysInv
      <4> QED
        BY <4>1, <4>2
    <3> QED
      BY <3>3, <3>4, <3>5 DEF KeysInv
  <2>5. RedeemedInv' /\ CodeRedeemedOnce'
    BY <1>0, <2>1 DEF Misses, RedeemedInv, CodeRedeemedOnce
  <2> QED
    BY <2>3, <2>4, <2>5 DEF CodePart
<1> QED
  BY <1>1, <1>2, <1>3 DEF CodeMissing
-----------------------------------------------------------------------------
(* Accounts and the quota of an address *)

\* Accounts are never deleted, so those of an address do not get fewer.
LEMMA AccountsGrow ==
  ASSUME \A q \in Phones : user[q] # Nobody => user'[q] = user[q], NEW i
  PROVE  Cardinality(AccountsFrom(i)) <= Cardinality(AccountsFrom(i)')
<1>1. AccountsFrom(i) \in SUBSET AccountsFrom(i)'
  BY DEF AccountsFrom
<1>2. IsFiniteSet(AccountsFrom(i)')
  <2>1. AccountsFrom(i)' \in SUBSET Phones
    BY DEF AccountsFrom
  <2> QED
    BY <2>1, FS_Subset, SmsAssumption
<1> QED
  BY <1>1, <1>2, FS_Subset

LEMMA CountedFinite ==
  ASSUME NEW i
  PROVE  /\ IsFiniteSet(AccountsFrom(i)) /\ IsFiniteSet(Counted(i))
         /\ Cardinality(AccountsFrom(i)) \in Nat /\ Cardinality(Counted(i)) \in Nat
         /\ Cardinality(Counted(i)) <= Cardinality(AccountsFrom(i))
<1>1. AccountsFrom(i) \in SUBSET Phones /\ Counted(i) \in SUBSET AccountsFrom(i)
  BY DEF AccountsFrom, Counted
<1>2. IsFiniteSet(AccountsFrom(i))
  BY <1>1, FS_Subset, SmsAssumption
<1> QED
  BY <1>1, <1>2, FS_Subset, FS_CardinalityType

\* Counted accounts do not get fewer either, and no key counts one more.
LEMMA QuotaStays ==
  ASSUME IInv, \A i \in Ips : ipCount'[i] <= ipCount[i], ipCount' \in [Ips -> Nat],
         \A q \in Phones : user[q] # Nobody => /\ user'[q] = user[q]
                                              /\ mark'[user[q]] = mark[user[q]]
  PROVE  QuotaInv'
<1> SUFFICES ASSUME NEW i \in Ips PROVE ipCount'[i] <= Cardinality(Counted(i)')
  BY DEF QuotaInv
<1>1. ipCount[i] <= Cardinality(Counted(i)) /\ ipCount[i] \in Nat /\ ipCount'[i] \in Nat
  BY DEF IInv, QuotaInv, TypeOK
<1>2. Counted(i) \in SUBSET Counted(i)' /\ Counted(i)' \in SUBSET Phones
  BY DEF Counted, AccountsFrom
<1>3. IsFiniteSet(Counted(i)')
  BY <1>2, FS_Subset, SmsAssumption
<1>4. /\ Cardinality(Counted(i)) <= Cardinality(Counted(i)')
      /\ Cardinality(Counted(i)) \in Nat /\ Cardinality(Counted(i)') \in Nat
  BY <1>2, <1>3, FS_Subset, FS_CardinalityType
<1> QED
  BY <1>1, <1>4

\* A refusal that was honest stays so.
LEMMA HonestStays ==
  ASSUME IInv, \A q \in Phones : user[q] # Nobody => user'[q] = user[q],
         \A x \in Requests :
            \/ res'[x] = res[x]
            \/ res'[x] \notin {"REGISTER_IP_LIMITED", "PHONE_REGISTERED"}
            \/ /\ res'[x] = "REGISTER_IP_LIMITED"
               /\ Cardinality(AccountsFrom(IpOf[x])) >= MaxPerIp
            \/ res'[x] = "PHONE_REGISTERED" /\ user[PhoneOf[x]] # Nobody
  PROVE  RefusalsAreHonest'
<1> SUFFICES ASSUME NEW x \in Requests
             PROVE  /\ res'[x] = "REGISTER_IP_LIMITED" =>
                          Cardinality(AccountsFrom(IpOf[x])') >= MaxPerIp
                    /\ res'[x] = "PHONE_REGISTERED" => user'[PhoneOf[x]] # Nobody
  BY DEF RefusalsAreHonest
<1>1. /\ res'[x] = "REGISTER_IP_LIMITED" => Cardinality(AccountsFrom(IpOf[x])) >= MaxPerIp
      /\ res'[x] = "PHONE_REGISTERED" => user[PhoneOf[x]] # Nobody
  BY DEF IInv, RefusalsAreHonest
<1>2. PhoneOf[x] \in Phones
  BY RegistrationAssumption
<1>3. /\ Cardinality(AccountsFrom(IpOf[x])) \in Nat
      /\ Cardinality(AccountsFrom(IpOf[x])') \in Nat
  <2>1. AccountsFrom(IpOf[x])' \in SUBSET Phones
    BY DEF AccountsFrom
  <2> QED
    BY <2>1, CountedFinite, FS_Subset, FS_CardinalityType, SmsAssumption
<1>4. MaxPerIp \in Nat
  BY RegistrationAssumption
<1>5. Cardinality(AccountsFrom(IpOf[x])) <= Cardinality(AccountsFrom(IpOf[x])')
  BY AccountsGrow
<1>6. CASE res'[x] = "REGISTER_IP_LIMITED"
  BY <1>1, <1>3, <1>4, <1>5, <1>6
<1>7. CASE res'[x] = "PHONE_REGISTERED"
  BY <1>1, <1>2, <1>7
<1> QED
  BY <1>6, <1>7

\* A request goes on: with codes required, past the code only with one.
LEMMA GotoAccounts ==
  ASSUME IInv, NEW r \in Requests, NEW l \in Pc \ {"idle", "done"}, Goto(r, l),
         pc[r] # "done", redeemed \subseteq redeemed', UNCHANGED <<user, ipCount, mark>>,
         RequireSms /\ l \in {"select", "hash", "insert"} => HasCode(r)'
  PROVE  AccountPart' /\ QuotaInv' /\ RefusalsAreHonest'
<1>0. TypeOK /\ RequestInv /\ AccountInv /\ OkOwnsAccount
  BY DEF IInv
<1>1. RequestInv'
  <2>1. ASSUME NEW x \in Requests, RequireSms, pc'[x] \in {"select", "hash", "insert"}
        PROVE  HasCode(x)'
    <3>1. CASE x = r
      BY <1>0, <2>1, <3>1 DEF Goto, TypeOK
    <3>2. CASE x # r
      BY <1>0, <2>1, <3>2, CodesStay DEF Goto, TypeOK, RequestInv
    <3> QED
      BY <3>1, <3>2
  <2> QED
    BY <1>0, <2>1 DEF RequestInv, Goto, TypeOK
<1>2. AccountInv' /\ OkOwnsAccount'
  BY <1>0, CodesStay DEF AccountInv, OkOwnsAccount, Goto
<1>3. QuotaInv' /\ RefusalsAreHonest'
  BY <1>0, QuotaStays, HonestStays DEF TypeOK, Goto
<1> QED
  BY <1>1, <1>2, <1>3 DEF AccountPart

\* A request ends, and is not told OK.
LEMMA AnswerAccounts ==
  ASSUME IInv, NEW r \in Requests, NEW a \in Answers \ {"OK"}, Answer(r, a),
         redeemed \subseteq redeemed', UNCHANGED <<user, ipCount, mark>>,
         a = "REGISTER_IP_LIMITED" => Cardinality(AccountsFrom(IpOf[r])) >= MaxPerIp,
         a = "PHONE_REGISTERED" => user[PhoneOf[r]] # Nobody
  PROVE  AccountPart' /\ QuotaInv' /\ RefusalsAreHonest'
<1>0. TypeOK /\ RequestInv /\ AccountInv /\ OkOwnsAccount
  BY DEF IInv
<1>1. RequestInv'
  <2>1. ASSUME NEW x \in Requests, RequireSms, pc'[x] \in {"select", "hash", "insert"}
        PROVE  HasCode(x)'
    BY <1>0, <2>1, CodesStay DEF Answer, TypeOK, RequestInv
  <2> QED
    BY <1>0, <2>1 DEF RequestInv, Answer, TypeOK
<1>2. AccountInv' /\ OkOwnsAccount'
  BY <1>0, CodesStay DEF AccountInv, OkOwnsAccount, Answer, TypeOK
<1>3. QuotaInv'
  BY <1>0, QuotaStays DEF TypeOK
<1>4. RefusalsAreHonest'
  <2>1. \A x \in Requests : res'[x] = res[x] \/ (x = r /\ res'[x] = a)
    BY <1>0 DEF Answer, TypeOK
  <2> QED
    BY <2>1, HonestStays
<1> QED
  BY <1>1, <1>2, <1>3, <1>4 DEF AccountPart

\* A request makes the account and ends: OK is said and the mark sent, or the
\* answer of the INSERT was lost.
LEMMA InsertedAccounts ==
  ASSUME IInv, NEW r \in Requests, NEW a \in {"OK", "ERROR"}, pc[r] = "insert",
         Inserted(r), Answer(r, a), mark' = [mark EXCEPT ![r] = "sent"] \/ UNCHANGED mark,
         UNCHANGED <<ipCount, redeemed>>
  PROVE  AccountPart' /\ QuotaInv' /\ RefusalsAreHonest' /\ user' \in [Phones -> Requests \cup {Nobody}]
<1> USE RegistrationAssumption
<1>0. TypeOK /\ RequestInv /\ AccountInv /\ OkOwnsAccount
  BY DEF IInv
<1>1. PhoneOf[r] \in Phones /\ user' = [user EXCEPT ![PhoneOf[r]] = r]
      /\ user[PhoneOf[r]] = Nobody /\ r # Nobody
  BY DEF Inserted
<1>2. /\ user' \in [Phones -> Requests \cup {Nobody}] /\ user'[PhoneOf[r]] = r
      /\ \A q \in Phones : q # PhoneOf[r] => user'[q] = user[q]
      /\ \A q \in Phones : user[q] # Nobody => user'[q] = user[q]
  BY <1>0, <1>1 DEF TypeOK
<1>3. \A x \in Requests : /\ x # r => mark'[x] = mark[x] /\ pc'[x] = pc[x] /\ res'[x] = res[x]
                          /\ pc'[r] = "done" /\ res'[r] = a
  BY <1>0 DEF TypeOK, Answer
<1>4. \A x \in Requests : HasCode(x) => HasCode(x)'
  BY CodesStay
<1>5. RequestInv'
  <2>1. ASSUME NEW x \in Requests
        PROVE  /\ pc'[x] # "done" => mark'[x] = "none" /\ res'[x] = "none"
               /\ mark'[x] # "none" => user'[PhoneOf[x]] = x
               /\ RequireSms /\ pc'[x] \in {"select", "hash", "insert"} => HasCode(x)'
    <3>1. CASE x = r
      BY <1>0, <1>2, <1>3, <3>1
    <3>2. CASE x # r
      <4>1. PhoneOf[x] \in Phones
        OBVIOUS
      <4>2. mark[x] # "none" => user'[PhoneOf[x]] = x
        BY <1>0, <1>2, <4>1 DEF RequestInv
      <4>3. RequireSms /\ pc[x] \in {"select", "hash", "insert"} => HasCode(x)'
        BY <1>0, <1>4 DEF RequestInv
      <4> QED
        BY <1>0, <1>3, <3>2, <4>2, <4>3 DEF RequestInv
    <3> QED
      BY <3>1, <3>2
  <2> QED
    BY <2>1 DEF RequestInv
<1>6. AccountInv'
  <2>1. ASSUME NEW q \in Phones, user'[q] # Nobody
        PROVE  PhoneOf[user'[q]] = q /\ (RequireSms => HasCode(user'[q]))
    <3>1. CASE q = PhoneOf[r]
      BY <1>0, <1>2, <3>1 DEF RequestInv
    <3>2. CASE q # PhoneOf[r]
      <4>1. user'[q] = user[q] /\ user[q] \in Requests
        BY <1>0, <1>2, <2>1, <3>2 DEF TypeOK
      <4> QED
        BY <1>0, <2>1, <4>1 DEF AccountInv
    <3> QED
      BY <3>1, <3>2
  <2> QED
    BY <2>1 DEF AccountInv, HasCode
<1>7. OkOwnsAccount'
  <2>1. ASSUME NEW x \in Requests, res'[x] = "OK" PROVE user'[PhoneOf[x]] = x
    <3>1. PhoneOf[x] \in Phones
      OBVIOUS
    <3> QED
      BY <1>0, <1>2, <1>3, <2>1, <3>1 DEF OkOwnsAccount
  <2> QED
    BY <2>1 DEF OkOwnsAccount
<1>8. QuotaInv'
  <2>1. \A q \in Phones : user[q] # r
    <3>1. ASSUME NEW q \in Phones, user[q] = r PROVE FALSE
      <4>1. PhoneOf[r] = q
        BY <1>0, <1>1, <3>1 DEF AccountInv
      <4> QED
        BY <1>1, <3>1, <4>1
    <3> QED
      BY <3>1
  <2>2. \A q \in Phones : user[q] # Nobody => mark'[user[q]] = mark[user[q]]
    BY <1>0, <1>3, <2>1 DEF TypeOK
  <2>3. ipCount' \in [Ips -> Nat] /\ \A i \in Ips : ipCount'[i] <= ipCount[i]
    BY <1>0 DEF TypeOK
  <2> QED
    BY <1>2, <2>2, <2>3, QuotaStays
<1>9. RefusalsAreHonest'
  BY <1>2, <1>3, HonestStays
<1> QED
  BY <1>2, <1>5, <1>6, <1>7, <1>8, <1>9 DEF AccountPart

\* The mark of an account that is there is counted once.
LEMMA MarkAccounts ==
  ASSUME IInv, NEW r \in Requests, Mark(r)
  PROVE  AccountPart' /\ QuotaInv' /\ RefusalsAreHonest' /\ ipCount' \in [Ips -> Nat]
<1> USE RegistrationAssumption
<1>0. TypeOK /\ RequestInv /\ AccountInv /\ OkOwnsAccount
  BY DEF IInv
<1>1. /\ mark[r] = "sent" /\ user[PhoneOf[r]] = r /\ r # Nobody /\ pc[r] = "done"
      /\ mark' = [mark EXCEPT ![r] = "done"] /\ UNCHANGED <<user, pc, res, redeemed>>
      /\ PhoneOf[r] \in Phones /\ IpOf[r] \in Ips
  BY <1>0 DEF Mark, RequestInv
<1>2. RequestInv' /\ AccountInv' /\ OkOwnsAccount'
  BY <1>0, <1>1, CodesStay DEF TypeOK, RequestInv, AccountInv, OkOwnsAccount
<1>3. RefusalsAreHonest'
  BY <1>1, HonestStays
<1>4. ipCount' \in [Ips -> Nat]
  BY <1>0, <1>1 DEF TypeOK, Mark
<1>5. QuotaInv'
  <2> SUFFICES ASSUME NEW i \in Ips PROVE ipCount'[i] <= Cardinality(Counted(i)')
    BY DEF QuotaInv
  <2> DEFINE more == IF i = IpOf[r] THEN {PhoneOf[r]} ELSE {}
  <2>1. Counted(i)' = Counted(i) \cup more
    BY <1>0, <1>1 DEF Counted, AccountsFrom, TypeOK, AccountInv
  <2>2. PhoneOf[r] \notin Counted(i)
    BY <1>1 DEF Counted
  <2>3. /\ ipCount[i] \in Nat /\ ipCount[i] <= Cardinality(Counted(i))
        /\ ipCount'[i] = ipCount[i] \/ (i = IpOf[r] /\ ipCount'[i] = ipCount[i] + 1)
    BY <1>0 DEF IInv, QuotaInv, TypeOK, Mark
  <2>4. IsFiniteSet(Counted(i)) /\ Cardinality(Counted(i)) \in Nat
    BY CountedFinite
  <2>5. CASE i = IpOf[r]
    <3>1. Cardinality(Counted(i)') = Cardinality(Counted(i)) + 1
      BY <2>1, <2>2, <2>4, <2>5, FS_AddElement
    <3> QED
      BY <2>3, <2>4, <3>1
  <2>6. CASE i # IpOf[r]
    <3>1. Counted(i)' = Counted(i)
      BY <2>1, <2>6
    <3> QED
      BY <2>3, <2>6, <3>1
  <2> QED
    BY <2>5, <2>6
<1> QED
  BY <1>2, <1>3, <1>4, <1>5 DEF AccountPart
-----------------------------------------------------------------------------
(* Every step preserves the invariant *)

\* The parts of the invariant, as the lemmas above deliver them.
LEMMA Parts ==
  ASSUME SmsTypeOK', CodePart', AccountPart', QuotaInv', RefusalsAreHonest',
         (/\ user \in [Phones -> Requests \cup {Nobody}]
          /\ ipCount \in [Ips -> Nat]
          /\ pc \in [Requests -> Pc]
          /\ typed \in [Requests -> Codes]
          /\ res \in [Requests -> Answers \cup {"none"}]
          /\ mark \in [Requests -> {"none", "sent", "done"}]
          /\ redeemed \subseteq Requests \X Sends)'
  PROVE  IInv'
BY DEF IInv, TypeOK, CodePart, AccountPart

LEMMA NextInv == IInv /\ [Next]_vars => IInv'
<1> SUFFICES ASSUME IInv, [Next]_vars PROVE IInv'
  OBVIOUS
<1> USE RegistrationAssumption
<1>0. TypeOK /\ SmsTypeOK /\ CodePart /\ AccountPart
  BY DEF IInv, TypeOK, CodePart, AccountPart
<1>1. CASE SmsNext /\ UNCHANGED reqVars
  <2>1. SmsTypeOK' /\ CodePart'
    BY <1>1, SmsCodesInv DEF reqVars
  <2>2. AccountPart'
    BY <1>0, <1>1, CodesStay DEF AccountPart, RequestInv, AccountInv, OkOwnsAccount, reqVars
  <2>3. QuotaInv' /\ RefusalsAreHonest'
    BY <1>0, <1>1, QuotaStays, HonestStays DEF reqVars, TypeOK
  <2> QED
    BY <1>0, <1>1, <2>1, <2>2, <2>3, Parts DEF TypeOK, reqVars
<1>2. ASSUME NEW r \in Requests, Submit(r) PROVE IInv'
  <2>1. SmsTypeOK' /\ CodePart'
    BY <1>0, <1>2, CodesUntouched, SmsTypeUntouched DEF Submit
  <2>2. AccountPart' /\ QuotaInv' /\ RefusalsAreHonest'
    BY <1>2, GotoAccounts DEF Submit, Pc
  <2>3. PICK c \in Codes : typed' = [typed EXCEPT ![r] = c]
    BY <1>2 DEF Submit, Codes
  <2> QED
    BY <1>0, <1>2, <2>1, <2>2, <2>3, Parts DEF TypeOK, Submit, Goto, Pc
<1>3. ASSUME NEW r \in Requests, Check(r) PROVE IInv'
  <2>1. SmsTypeOK' /\ CodePart'
    BY <1>0, <1>3, CodesUntouched, SmsTypeUntouched DEF Check
  <2>2. AccountPart' /\ QuotaInv' /\ RefusalsAreHonest'
    <3>1. CASE ipCount[IpOf[r]] >= MaxPerIp /\ Answer(r, "REGISTER_IP_LIMITED")
      <4>1. Cardinality(AccountsFrom(IpOf[r])) >= MaxPerIp
        <5>1. /\ ipCount[IpOf[r]] <= Cardinality(Counted(IpOf[r]))
              /\ ipCount[IpOf[r]] \in Nat /\ MaxPerIp \in Nat
          BY <1>0 DEF IInv, QuotaInv, TypeOK
        <5> QED
          BY <3>1, <5>1, CountedFinite
      <4> QED
        BY <1>3, <3>1, <4>1, AnswerAccounts DEF Check, Answers
    <3>2. CASE Answer(r, "INVALID")
      BY <1>3, <3>2, AnswerAccounts DEF Check, Answers
    <3>3. CASE Goto(r, IF RequireSms THEN "verify" ELSE "select")
      BY <1>3, <3>3, GotoAccounts DEF Check, Pc
    <3> QED
      BY <1>3, <3>1, <3>2, <3>3 DEF Check
  <2> QED
    BY <1>0, <1>3, <2>1, <2>2, Parts DEF TypeOK, Check, Goto, Answer, Pc, Answers
<1>4. ASSUME NEW r \in Requests, Verify(r) PROVE IInv'
  <2>1. /\ SmsTypeOK' /\ CodePart'
        /\ redeemed' \subseteq Requests \X Sends /\ redeemed \subseteq redeemed'
    <3>1. CASE Redeem(r)
      BY <3>1, RedeemCodes DEF Redeem
    <3>2. CASE (NotVerified(r) \/ VerifyFailed(r)) /\ UNCHANGED redeemed
      BY <1>0, <3>2, RefusalCodes DEF NotVerified, VerifyFailed, TypeOK
    <3> QED
      BY <1>4, <3>1, <3>2 DEF Verify
  <2>2. AccountPart' /\ QuotaInv' /\ RefusalsAreHonest'
    <3>1. CASE Redeem(r) /\ Goto(r, "select")
      BY <1>4, <2>1, <3>1, RedeemCodes, GotoAccounts DEF Verify, Pc
    <3>2. CASE Answer(r, "CODE")
      BY <1>4, <2>1, <3>2, AnswerAccounts DEF Verify, Answers
    <3> QED
      BY <1>4, <3>1, <3>2 DEF Verify, NotVerified, VerifyFailed
  <2>3. pc' \in [Requests -> Pc] /\ res' \in [Requests -> Answers \cup {"none"}]
    BY <1>0, <1>4 DEF TypeOK, Verify, NotVerified, VerifyFailed, Goto, Answer, Pc, Answers
  <2> QED
    BY <1>0, <1>4, <2>1, <2>2, <2>3, Parts DEF TypeOK, Verify
<1>5. ASSUME NEW r \in Requests, Select(r) PROVE IInv'
  <2>1. SmsTypeOK' /\ CodePart'
    BY <1>0, <1>5, CodesUntouched, SmsTypeUntouched DEF Select
  <2>2. RequireSms => HasCode(r)'
    BY <1>0, <1>5, CodesStay DEF AccountPart, RequestInv, Select
  <2>3. AccountPart' /\ QuotaInv' /\ RefusalsAreHonest'
    BY <1>5, <2>2, AnswerAccounts, GotoAccounts DEF Select, Pc, Answers
  <2> QED
    BY <1>0, <1>5, <2>1, <2>3, Parts DEF TypeOK, Select, Goto, Answer, Pc, Answers
<1>6. ASSUME NEW r \in Requests, Hash(r) PROVE IInv'
  <2>1. SmsTypeOK' /\ CodePart'
    BY <1>0, <1>6, CodesUntouched, SmsTypeUntouched DEF Hash
  <2>2. RequireSms => HasCode(r)'
    BY <1>0, <1>6, CodesStay DEF AccountPart, RequestInv, Hash
  <2>3. AccountPart' /\ QuotaInv' /\ RefusalsAreHonest'
    BY <1>6, <2>2, AnswerAccounts, GotoAccounts DEF Hash, Pc, Answers
  <2> QED
    BY <1>0, <1>6, <2>1, <2>3, Parts DEF TypeOK, Hash, Goto, Answer, Pc, Answers
<1>7. ASSUME NEW r \in Requests, Insert(r) PROVE IInv'
  <2>1. SmsTypeOK' /\ CodePart'
    BY <1>0, <1>7, CodesUntouched, SmsTypeUntouched DEF Insert
  <2>2. CASE OnInsert(r)
    <3>1. /\ AccountPart' /\ QuotaInv' /\ RefusalsAreHonest'
          /\ user' \in [Phones -> Requests \cup {Nobody}]
      BY <1>7, <2>2, InsertedAccounts DEF Insert, OnInsert
    <3> QED
      BY <1>0, <1>7, <2>1, <2>2, <3>1, Parts
         DEF TypeOK, Insert, OnInsert, Answer, Pc, Answers
  <2>3. CASE OnDuplicate(r) /\ UNCHANGED <<user, mark>>
    <3>1. AccountPart' /\ QuotaInv' /\ RefusalsAreHonest'
      BY <1>7, <2>3, AnswerAccounts DEF Insert, OnDuplicate, Answers
    <3> QED
      BY <1>0, <1>7, <2>1, <2>3, <3>1, Parts
         DEF TypeOK, Insert, OnDuplicate, Answer, Pc, Answers
  <2>4. CASE OnInsertError(r) /\ UNCHANGED mark
    <3>1. /\ AccountPart' /\ QuotaInv' /\ RefusalsAreHonest'
          /\ user' \in [Phones -> Requests \cup {Nobody}]
      <4>1. CASE Inserted(r)
        BY <1>7, <2>4, <4>1, InsertedAccounts DEF Insert, OnInsertError
      <4>2. CASE UNCHANGED user
        BY <1>0, <1>7, <2>4, <4>2, AnswerAccounts DEF Insert, OnInsertError, Answers, TypeOK
      <4> QED
        BY <2>4, <4>1, <4>2 DEF OnInsertError
    <3> QED
      BY <1>0, <1>7, <2>1, <2>4, <3>1, Parts
         DEF TypeOK, Insert, OnInsertError, Answer, Pc, Answers
  <2> QED
    BY <1>7, <2>2, <2>3, <2>4 DEF Insert
<1>8. ASSUME NEW r \in Requests, Mark(r) PROVE IInv'
  <2>1. SmsTypeOK' /\ CodePart'
    BY <1>0, <1>8, CodesUntouched, SmsTypeUntouched DEF Mark
  <2> QED
    BY <1>0, <1>8, <2>1, MarkAccounts, Parts DEF TypeOK, Mark
<1>9. ASSUME NEW i \in Ips, WindowEnds(i) PROVE IInv'
  <2>1. SmsTypeOK' /\ CodePart'
    BY <1>0, <1>9, CodesUntouched, SmsTypeUntouched DEF WindowEnds
  <2>2. AccountPart'
    BY <1>0, <1>9, CodesStay DEF AccountPart, RequestInv, AccountInv, OkOwnsAccount, WindowEnds
  <2>3. ipCount' \in [Ips -> Nat] /\ \A j \in Ips : ipCount'[j] <= ipCount[j]
    BY <1>0, <1>9 DEF TypeOK, WindowEnds
  <2>4. QuotaInv' /\ RefusalsAreHonest'
    BY <1>9, <2>3, QuotaStays, HonestStays DEF WindowEnds
  <2> QED
    BY <1>0, <1>9, <2>1, <2>2, <2>3, <2>4, Parts DEF TypeOK, WindowEnds
<1>10. CASE UNCHANGED vars
  <2>1. SmsTypeOK' /\ CodePart'
    BY <1>0, <1>10, CodesUntouched, SmsTypeUntouched DEF vars, reqVars
  <2>2. AccountPart'
    BY <1>0, <1>10, CodesStay DEF AccountPart, RequestInv, AccountInv, OkOwnsAccount, vars, reqVars
  <2>3. QuotaInv' /\ RefusalsAreHonest'
    BY <1>0, <1>10, QuotaStays, HonestStays DEF TypeOK, vars, reqVars
  <2> QED
    BY <1>0, <1>10, <2>1, <2>2, <2>3, Parts DEF TypeOK, vars, reqVars
<1> QED
  BY <1>1, <1>2, <1>3, <1>4, <1>5, <1>6, <1>7, <1>8, <1>9, <1>10 DEF Next

\* The inductive invariant holds at every state of every registration, however
\* requests, codes, expiries and failures interleave.
THEOREM Invariant == Spec => []IInv
BY InitInv, NextInv, PTL DEF Spec

\* Until its last half second no code gets more wrong tries than
\* max_verify_attempts, though its count ends with another key (kVerifyScript).
THEOREM TriesBounded == Spec => []TriesPerCode
<1>1. IInv => TriesPerCode
  BY DEF IInv
<1> QED
  BY <1>1, Invariant, PTL

\* A code is redeemed by one request (kVerifyScript deletes it as it compares).
THEOREM RedeemedOnce == Spec => []CodeRedeemedOnce
<1>1. IInv => CodeRedeemedOnce
  BY DEF IInv
<1> QED
  BY <1>1, Invariant, PTL

\* Whoever is told OK made the account of the phone (uk_phone).
THEOREM OkOwns == Spec => []OkOwnsAccount
<1>1. IInv => OkOwnsAccount
  BY DEF IInv
<1> QED
  BY <1>1, Invariant, PTL

\* With codes required every account was made with one that was sent to it.
THEOREM CodeForAccount == Spec => []NoAccountWithoutCode
<1>1. IInv => NoAccountWithoutCode
  BY DEF IInv, AccountInv, NoAccountWithoutCode, HasCode
<1> QED
  BY <1>1, Invariant, PTL

\* Refusals for the address or the phone are true (RegisterGuard, uk_phone).
THEOREM HonestRefusals == Spec => []RefusalsAreHonest
<1>1. IInv => RefusalsAreHonest
  BY DEF IInv
<1> QED
  BY <1>1, Invariant, PTL
=============================================================================
