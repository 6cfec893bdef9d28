------------------------------ MODULE OtpProofs ------------------------------
(***************************************************************************)
(* Proofs about Otp and PasswordReset, for any codes, any number of        *)
(* requests, any limit and any time to live; about Registration and        *)
(* Devices, for any calls; and about ActivityFeed and SettingsPages, for   *)
(* any length of the feed, any table and any size of a page.               *)
(***************************************************************************)
EXTENDS PasswordReset, Registration, Devices, ActivityFeed, SettingsPages, FiniteSetTheorems,
        NaturalsInduction, WellFoundedInduction, TLAPS

\* What holds however requests overlap: a request that got past its read holds an entry,
\* and one that found a wrong code read it below the limit.
RequestsSound ==
    \A r \in Requests :
        /\ Idle(r) \/ parsed[r] \in Entries
        /\ pc[r] = "wrong" => parsed[r].attempts < MaxAttempts

\* The key lives exactly as long as its time to live.
KeyAlive == entry # NoEntry => ttl > 0

BaseInv == TypeOK /\ RequestsSound /\ KeyAlive

LEMMA ConstantFacts ==
  /\ MaxAttempts \in Nat /\ MaxAttempts > 0 /\ Ttl \in Nat /\ Ttl > 0
  /\ NoEntry \notin Entries /\ Horizon \in Nat /\ Horizon > 0
BY OtpConstants DEF Entries, Horizon

LEMMA BaseInit == Init => BaseInv
BY ConstantFacts DEF Init, BaseInv, TypeOK, RequestsSound, KeyAlive, Idle

LEMMA BaseStep == BaseInv /\ [Next]_vars => BaseInv'
<1> SUFFICES ASSUME BaseInv, [Next]_vars PROVE BaseInv'
  OBVIOUS
<1> USE ConstantFacts DEF BaseInv, TypeOK, RequestsSound, KeyAlive, Idle, Set, Del, Return
<1>1. ASSUME NEW code \in Codes, CreateOtp(code) PROVE BaseInv'
  BY <1>1 DEF CreateOtp, Entries, Quiet
<1>2. ASSUME NEW r \in Requests, VerifyOtp(r) PROVE BaseInv'
  <2>1. ASSUME NEW otp \in Codes, Get(r, otp) PROVE BaseInv'
    BY <2>1 DEF Get, Alone, Entries
  <2>2. CASE DropLocked(r)
    BY <2>2 DEF DropLocked
  <2>3. pc[r] = "wrong" => Counted(r) \in Entries
    BY DEF Counted, Entries
  <2>4. CASE CountAttempt(r)
    BY <2>3, <2>4 DEF CountAttempt
  <2>5. CASE Accept(r)
    BY <2>5 DEF Accept
  <2>6. CASE CallFails(r)
    BY <2>3, <2>6 DEF CallFails
  <2> QED BY <1>2, <2>1, <2>2, <2>4, <2>5, <2>6 DEF VerifyOtp
<1>3. CASE DeleteOtp
  BY <1>3 DEF DeleteOtp, Quiet
<1>4. CASE Tick
  <2>1. CASE ttl > 1
    BY <1>4, <2>1 DEF Tick
  <2>2. CASE ~(ttl > 1)
    BY <1>4, <2>2 DEF Tick
  <2> QED BY <2>1, <2>2
<1>5. CASE UNCHANGED vars
  BY <1>5 DEF vars
<1> QED BY <1>1, <1>2, <1>3, <1>4, <1>5 DEF Next

\* The type invariant, with its bound on the attempts that are stored.
THEOREM TypeCorrect == Spec => []TypeOK
<1>1. BaseInv => TypeOK
  BY DEF BaseInv
<1> QED BY <1>1, BaseInit, BaseStep, PTL DEF Spec

-----------------------------------------------------------------------------
(* Requests one at a time.  A request under way then is the only one, and what it read *)
(* is what the key still holds: this is what the races take away.                      *)

OneRequest == \A r, q \in Requests : ~Idle(r) /\ ~Idle(q) => r = q

ReadIsCurrent == \A r \in Requests : ~Idle(r) => parsed[r] = entry

\* How long a code with these attempts can have lived.
Span(e) == (e.attempts + 1) * Ttl

SerialFacts ==
    /\ OneRequest /\ ReadIsCurrent
    /\ accepted <= 1 /\ (accepted = 1 => entry = NoEntry)
    /\ rejected <= MaxAttempts
    /\ entry # NoEntry => /\ rejected <= entry.attempts
                          /\ age + ttl <= Span(entry)

SerialInv == BaseInv /\ (serial => SerialFacts)

\* A fresh code has one time to live, one more attempt is worth another one.
LEMMA SpanOfEntries ==
  /\ \A e \in Entries : Span(e) \in Nat
  /\ \A code \in Codes : Span([otp |-> code, attempts |-> 0]) = Ttl
  /\ \A e \in Entries : Span([e EXCEPT !.attempts = @ + 1]) = Span(e) + Ttl
<1>1. ASSUME NEW a \in Nat PROVE (a + 1) * Ttl \in Nat /\ (a + 1 + 1) * Ttl = (a + 1) * Ttl + Ttl
  BY ConstantFacts
<1>2. ASSUME NEW e \in Entries
      PROVE  /\ Span(e) \in Nat
             /\ Span([e EXCEPT !.attempts = @ + 1]) = Span(e) + Ttl
  <2>1. e.attempts \in Nat /\ [e EXCEPT !.attempts = @ + 1].attempts = e.attempts + 1
    BY ConstantFacts DEF Entries
  <2> QED BY <1>1, <2>1 DEF Span
<1>3. ASSUME NEW code \in Codes PROVE Span([otp |-> code, attempts |-> 0]) = Ttl
  BY ConstantFacts DEF Span
<1> QED BY <1>2, <1>3

LEMMA SerialStep == SerialInv /\ [Next]_vars => SerialInv'
<1> SUFFICES ASSUME SerialInv, [Next]_vars, serial' PROVE SerialFacts'
  BY BaseStep DEF SerialInv
<1> USE ConstantFacts DEF SerialInv, BaseInv, SerialFacts, TypeOK, OneRequest, ReadIsCurrent,
        RequestsSound, KeyAlive, Idle, Set, Del, Return, Quiet
<1>1. ASSUME NEW code \in Codes, CreateOtp(code) PROVE SerialFacts'
  <2>1. entry' # NoEntry /\ entry'.attempts = 0 /\ ttl' = Ttl
    BY <1>1 DEF CreateOtp, Entries
  <2>2. Span(entry)' = Ttl
    BY <2>1 DEF Span
  <2>3. \A r \in Requests : pc'[r] = "idle"
    BY <1>1 DEF CreateOtp
  <2> QED BY <1>1, <2>1, <2>2, <2>3 DEF CreateOtp
<1>2. ASSUME NEW r \in Requests, VerifyOtp(r) PROVE SerialFacts'
  <2>1. ASSUME NEW otp \in Codes, Get(r, otp) PROVE SerialFacts'
    <3>1. serial /\ Alone(r)
      BY <2>1 DEF Get
    <3>2. Span(entry)' = Span(entry)
      BY <2>1 DEF Get, Span
    <3> QED BY <2>1, <3>1, <3>2 DEF Get, Alone
  <2>2. CASE DropLocked(r)
    BY <2>2 DEF DropLocked
  <2>3. ASSUME serial, pc[r] = "wrong"
        PROVE  /\ Counted(r) \in Entries /\ Counted(r).attempts = entry.attempts + 1
               /\ Span(Counted(r)) = Span(entry) + Ttl
               /\ entry \in Entries
    BY <2>3, SpanOfEntries DEF Counted, Entries
  <2>4. ASSUME serial, pc[r] = "wrong", Set(Counted(r)), Return(r),
               rejected' \in Nat, rejected' <= rejected + 1, UNCHANGED <<age, accepted>>
        PROVE  SerialFacts'
    <3>1. Span(entry)' = Span(entry) + Ttl
      BY <2>3, <2>4 DEF Span
    <3>2. age + Ttl <= Span(entry) + Ttl
      BY <2>3, <2>4, SpanOfEntries
    <3>3. accepted = 0 /\ rejected' <= entry.attempts + 1 /\ entry.attempts < MaxAttempts
      BY <2>3, <2>4 DEF Entries
    <3> QED BY <2>3, <2>4, <3>1, <3>2, <3>3 DEF Entries
  <2>5. CASE CountAttempt(r)
    BY <2>4, <2>5 DEF CountAttempt
  <2>6. CASE Accept(r)
    BY <2>6 DEF Accept
  <2>7. CASE CallFails(r)
    <3>1. CASE UNCHANGED <<entry, ttl>>
      <4>1. Span(entry)' = Span(entry)
        BY <3>1 DEF Span
      <4> QED BY <2>7, <3>1, <4>1 DEF CallFails
    <3>2. CASE pc[r] = "wrong" /\ Set(Counted(r))
      BY <2>4, <2>7, <3>2 DEF CallFails
    <3>3. CASE Del
      BY <2>7, <3>3 DEF CallFails
    <3> QED BY <2>7, <3>1, <3>2, <3>3 DEF CallFails
  <2> QED BY <1>2, <2>1, <2>2, <2>5, <2>6, <2>7 DEF VerifyOtp
<1>3. CASE DeleteOtp
  BY <1>3 DEF DeleteOtp
<1>4. CASE Tick
  <2>1. CASE ttl > 1
    <3>1. Span(entry)' = Span(entry) /\ age' + ttl' <= age + ttl
      BY <1>4, <2>1 DEF Tick, Span
    <3>2. UNCHANGED <<entry, serial, pc, parsed, rejected, accepted>>
      BY <1>4, <2>1 DEF Tick
    <3>3. entry # NoEntry => age' + ttl' <= Span(entry)
      <4>1. entry # NoEntry => Span(entry) \in Nat
        BY SpanOfEntries
      <4> QED BY <1>4, <2>1, <3>1, <3>2, <4>1 DEF Tick
    <3> QED BY <3>1, <3>2, <3>3
  <2>2. CASE ~(ttl > 1)
    BY <1>4, <2>2 DEF Tick
  <2> QED BY <2>1, <2>2
<1>5. CASE UNCHANGED vars
  <2>1. Span(entry)' = Span(entry)
    BY <1>5 DEF vars, Span
  <2> QED BY <1>5, <2>1 DEF vars
<1> QED BY <1>1, <1>2, <1>3, <1>4, <1>5 DEF Next

LEMMA SerialInit == Init => SerialInv
BY BaseInit, ConstantFacts
   DEF Init, SerialInv, SerialFacts, OneRequest, ReadIsCurrent, Idle

LEMMA SerialHolds == Spec => []SerialInv
BY SerialInit, SerialStep, PTL DEF Spec

\* One request at a time: a code is accepted once and then gone.
THEOREM SerialUsedOnce == Spec => []SerialCodeUsedOnce
<1>1. SerialInv => SerialCodeUsedOnce
  BY DEF SerialInv, SerialFacts, SerialCodeUsedOnce
<1> QED BY <1>1, SerialHolds, PTL

\* One request at a time: no more than MaxAttempts wrong guesses are answered.
THEOREM SerialLimited == Spec => []SerialGuessesLimited
<1>1. SerialInv => SerialGuessesLimited
  BY DEF SerialInv, SerialFacts, SerialGuessesLimited
<1> QED BY <1>1, SerialHolds, PTL

\* One request at a time: a code is gone (MaxAttempts + 1) * Ttl after its creation.
THEOREM SerialBounded == Spec => []SerialLifetimeBounded
<1>1. SerialInv => SerialLifetimeBounded
  BY DEF SerialInv, SerialFacts, SerialLifetimeBounded, Span
<1> QED BY <1>1, SerialHolds, PTL

\* The three together, as the runs check them.
THEOREM SerialSafe == Spec => []SerialCodeSafe
BY SerialUsedOnce, SerialLimited, SerialBounded, PTL DEF SerialCodeSafe

-----------------------------------------------------------------------------
(* The password.  Every step of the reset is a step of the codes, or leaves them alone. *)

LEMMA ResetSimulates == [ResetNext]_allVars => [Next]_vars
BY DEF ResetNext, Next, VerifyOtp, ForgotPassword, VerifyEndpoint, ResetPassword, Ask, Refused,
       CodeAccepted, WritePassword, WriteFails, allVars

\* AuthService uses OtpService as any caller may: what is proved of the codes holds here.
THEOREM ResetKeepsOtp == ResetSpec => Spec
BY ResetSimulates, PTL DEF ResetSpec, ResetInit, Spec

ResetInv ==
    /\ SerialInv
    /\ IsFiniteSet(hashing) /\ changes \in 0..2 /\ CodePaysOneChange

LEMMA ResetInitInv == ResetInit => ResetInv
<1>1. IsFiniteSet({}) /\ Cardinality({}) = 0
  BY FS_EmptySet
<1> QED BY <1>1, SerialInit, ConstantFacts DEF ResetInit, Init, ResetInv, CodePaysOneChange

\* A request that is accepted while requests run one at a time is the first for its code.
LEMMA FirstAccepted ==
  ASSUME SerialInv, serial, NEW r \in Requests, Accept(r)
  PROVE  accepted = 0 /\ accepted' = 1
BY ConstantFacts
   DEF SerialInv, SerialFacts, BaseInv, TypeOK, RequestsSound, ReadIsCurrent, Accept, Idle

LEMMA ResetStep == ResetInv /\ [ResetNext]_allVars => ResetInv'
<1> SUFFICES ASSUME ResetInv, [ResetNext]_allVars
             PROVE  IsFiniteSet(hashing)' /\ (changes \in 0..2)' /\ CodePaysOneChange'
  BY ResetSimulates, SerialStep DEF ResetInv
<1>1. Cardinality(hashing) \in Nat /\ IsFiniteSet(hashing) /\ changes \in 0..2 /\ accepted \in 0..2
  BY FS_CardinalityType DEF ResetInv, SerialInv, BaseInv, TypeOK
<1>2. ASSUME NEW code \in Codes, ForgotPassword(code)
      PROVE  IsFiniteSet(hashing)' /\ (changes \in 0..2)' /\ CodePaysOneChange'
  <2>1. changes' = 0 /\ accepted' = 0 /\ settled' = (hashing = {}) /\ hashing' = hashing
    BY <1>2 DEF ForgotPassword, CreateOtp
  <2>2. hashing = {} => Cardinality(hashing) = 0
    BY FS_EmptySet
  <2>3. settled' => Cardinality(hashing') = 0
    BY <2>1, <2>2
  <2> QED BY <1>1, <2>1, <2>3 DEF CodePaysOneChange
<1>3. ASSUME UNCHANGED <<hashing, changes, settled, accepted>>, serial' => serial
      PROVE  IsFiniteSet(hashing)' /\ (changes \in 0..2)' /\ CodePaysOneChange'
  BY <1>1, <1>3 DEF ResetInv, CodePaysOneChange
<1>4. ASSUME NEW r \in Requests, NEW otp \in Codes, VerifyEndpoint(r, otp) \/ ResetPassword(r, otp)
      PROVE  IsFiniteSet(hashing)' /\ (changes \in 0..2)' /\ CodePaysOneChange'
  BY <1>3, <1>4 DEF VerifyEndpoint, ResetPassword, Ask, Get
<1>5. ASSUME NEW r \in Requests, Refused(r)
      PROVE  IsFiniteSet(hashing)' /\ (changes \in 0..2)' /\ CodePaysOneChange'
  <2>1. UNCHANGED <<hashing, changes, settled>>
    BY <1>5 DEF Refused
  <2>2. UNCHANGED <<accepted, serial>>
    BY <1>5 DEF Refused, DropLocked, CountAttempt, CallFails
  <2> QED BY <1>3, <2>1, <2>2
<1>6. ASSUME NEW r \in Requests, CodeAccepted(r)
      PROVE  IsFiniteSet(hashing)' /\ (changes \in 0..2)' /\ CodePaysOneChange'
  <2>1. /\ Accept(r) /\ hashing' \in {hashing, hashing \cup {r}}
        /\ UNCHANGED <<changes, settled, serial>>
    BY <1>6 DEF CodeAccepted, Accept
  <2>2. /\ IsFiniteSet(hashing') /\ Cardinality(hashing') \in Nat
        /\ Cardinality(hashing') <= Cardinality(hashing) + 1
    <3>1. CASE hashing' = hashing
      BY <1>1, <3>1
    <3>2. CASE hashing' = hashing \cup {r}
      <4>1. /\ IsFiniteSet(hashing \cup {r})
            /\ Cardinality(hashing \cup {r}) = IF r \in hashing THEN Cardinality(hashing)
                                               ELSE Cardinality(hashing) + 1
        BY <1>1, FS_AddElement, Zenon
      <4> QED BY <1>1, <3>2, <4>1
    <3> QED BY <2>1, <3>1, <3>2
  <2>3. serial => accepted = 0 /\ accepted' = 1
    BY <2>1, FirstAccepted DEF ResetInv
  <2> QED BY <1>1, <2>1, <2>2, <2>3 DEF ResetInv, CodePaysOneChange
<1>7. ASSUME NEW r \in Requests, WritePassword(r) \/ WriteFails(r)
      PROVE  IsFiniteSet(hashing)' /\ (changes \in 0..2)' /\ CodePaysOneChange'
  <2>1. /\ r \in hashing /\ hashing' = hashing \ {r} /\ UNCHANGED <<vars, settled>>
        /\ changes' \in 0..2 /\ changes' <= changes + 1
    BY <1>1, <1>7 DEF WritePassword, WriteFails
  <2>2. IsFiniteSet(hashing') /\ Cardinality(hashing') = Cardinality(hashing) - 1
    BY <1>1, <2>1, FS_RemoveElement
  <2> QED BY <1>1, <2>1, <2>2 DEF vars, ResetInv, CodePaysOneChange
<1>8. CASE (DeleteOtp \/ Tick) /\ UNCHANGED resetVars
  BY <1>3, <1>8 DEF DeleteOtp, Tick, resetVars
<1>9. CASE UNCHANGED allVars
  BY <1>3, <1>9 DEF allVars, vars, resetVars
<1> QED BY <1>2, <1>4, <1>5, <1>6, <1>7, <1>8, <1>9 DEF ResetNext

\* AuthService.resetPassword: requests one at a time, a code pays for one change of the
\* password, counting those whose write is still to come.
THEOREM OneChangePerCode == ResetSpec => []CodePaysOneChange
<1>1. ResetInv => CodePaysOneChange
  BY DEF ResetInv
<1> QED BY <1>1, ResetInitInv, ResetStep, PTL DEF ResetSpec
-----------------------------------------------------------------------------
(* Registration *)

Stages == {"begin", "hashing", "inserted", "coded", "registered", "creating", "tokens", "refused",
           "failed"}

\* A registration past its insert has the account, one before it, or refused, has not; a mailed
\* code is one of a registration.
RegistrationInv ==
    /\ stage \in [Calls -> Stages]
    /\ outbox \subseteq Applicants
    /\ \A r \in Applicants :
        /\ stage[r] \in {"inserted", "coded", "registered"} => account = r
        /\ stage[r] = "registered" => r \in outbox
        /\ account = r => stage[r] \notin {"begin", "hashing", "creating", "tokens", "refused"}
    /\ verifyCode # NoAccount => account = verifyCode
    /\ outbox \subseteq {account}

LEMMA RegistrationInvInit == RegistrationInit => RegistrationInv
BY RegistrationConstants DEF RegistrationInit, RegistrationInv, Stages, Calls

LEMMA RegistrationStep ==
    RegistrationInv /\ [RegistrationNext]_registrationVars => RegistrationInv'
<1> SUFFICES ASSUME RegistrationInv, [RegistrationNext]_registrationVars PROVE RegistrationInv'
  OBVIOUS
<1> USE RegistrationConstants DEF RegistrationInv, Stages, Calls, Goes
<1>1. ASSUME NEW r \in Applicants, Register(r) PROVE RegistrationInv'
  <2>1. CASE FindEmail(r) BY <2>1 DEF FindEmail
  <2>2. CASE InsertUser(r)
    <3>1. CASE account = NoAccount BY <2>2, <3>1 DEF InsertUser
    <3>2. CASE account # NoAccount BY <2>2, <3>2 DEF InsertUser
    <3> QED BY <3>1, <3>2
  <2>3. CASE StoreCode(r) BY <2>3 DEF StoreCode
  <2>4. CASE QueueMail(r) BY <2>4 DEF QueueMail
  <2>5. CASE RegisterFails(r)
    <3>1. stage' = [stage EXCEPT ![r] = "failed"] /\ stage[r] \in {"hashing", "inserted", "coded"}
      BY <2>5 DEF RegisterFails
    <3>2. CASE UNCHANGED <<account, verifyCode, outbox>> BY <3>1, <3>2
    <3>3. CASE /\ stage[r] = "hashing" /\ account = NoAccount
               /\ account' = r /\ UNCHANGED <<verifyCode, outbox>>
      BY <3>1, <3>3
    <3>4. CASE stage[r] = "inserted" /\ verifyCode' = r /\ UNCHANGED <<account, outbox>>
      BY <3>1, <3>4
    <3>5. CASE stage[r] = "coded" /\ outbox' = outbox \cup {r} /\ UNCHANGED <<account, verifyCode>>
      BY <3>1, <3>5
    <3> QED BY <2>5, <3>2, <3>3, <3>4, <3>5 DEF RegisterFails
  <2> QED BY <1>1, <2>1, <2>2, <2>3, <2>4, <2>5 DEF Register
<1>2. ASSUME NEW o \in OauthLogins, OauthLogin(o) PROVE RegistrationInv'
  <2>1. ASSUME NEW role \in BOOLEAN, FindOrRefuse(o, role) PROVE RegistrationInv'
    BY <2>1 DEF FindOrRefuse
  <2>2. CASE CreateOauthUser(o)
    <3>1. CASE account = NoAccount BY <2>2, <3>1 DEF CreateOauthUser
    <3>2. CASE account # NoAccount BY <2>2, <3>2 DEF CreateOauthUser
    <3> QED BY <3>1, <3>2
  <2> QED BY <1>2, <2>1, <2>2 DEF OauthLogin
<1>3. CASE CodeGone BY <1>3 DEF CodeGone
<1>4. CASE SoftDelete BY <1>4 DEF SoftDelete
<1>5. CASE UNCHANGED registrationVars BY <1>5 DEF registrationVars
<1> QED BY <1>1, <1>2, <1>3, <1>4, <1>5 DEF RegistrationNext

\* Whatever calls of register and oauthLogin race for an address, the one that is told it is
\* registered owns the account, and no code of another is valid or mailed (AuthService).
THEOREM RegisteredAlwaysOwns == RegistrationSpec => []RegisteredOwnsAccount
<1>1. RegistrationInv => RegisteredOwnsAccount
  BY RegistrationConstants DEF RegistrationInv, RegisteredOwnsAccount, Stages, Calls
<1> QED
  BY <1>1, RegistrationInvInit, RegistrationStep, PTL DEF RegistrationSpec

-----------------------------------------------------------------------------
(* Devices *)

\* A call that no other overlapped is alone, and what it found still holds.
DeviceCallsInv ==
    /\ doing \in [DeviceCalls -> {"free", "create", "update", "remove"}]
    /\ held \in [DeviceCalls -> DeviceRows \cup {NoRow}]
    /\ \A c \in Busy \ mixed :
        /\ Busy = {c}
        /\ doing[c] = "create" => live = {}
        /\ doing[c] \in {"update", "remove"} => held[c] \in live
    /\ live \subseteq DeviceRows

DevicesInv ==
    /\ DeviceCallsInv
    /\ Resting /\ ~lastWord.overlapped =>
        /\ lastWord.said = "registered" => live # {}
        /\ lastWord.said = "forgotten" => live = {}
    /\ neat =>
        /\ mixed = {}
        /\ \A d, e \in live : d = e
        /\ Resting /\ lastWord.said = "removed" => live = {}

LEMMA DevicesInvInit == DevicesInit => DevicesInv
BY DEF DevicesInit, DevicesInv, DeviceCallsInv, Busy, Free, Resting

\* The start of a call that found what it found.
LEMMA StartsKeeps ==
    ASSUME DevicesInv, NEW c \in DeviceCalls, NEW next \in {"create", "update", "remove"},
           NEW row \in DeviceRows \cup {NoRow}, Starts(c, next, row),
           next = "create" => live = {}, next # "create" => row \in live,
           UNCHANGED <<live, gone, lastWord>>
    PROVE  DevicesInv'
<1>1. Busy' = Busy \cup {c} /\ c \notin Busy
  BY DEF Starts, DevicesInv, DeviceCallsInv, Busy, Free
<1>2. CASE Resting
  <2>1. Busy = {} /\ Busy' = {c}
    BY <1>1, <1>2 DEF Resting
  <2> QED BY <1>2, <2>1 DEF Starts, DevicesInv, DeviceCallsInv, Resting
<1>3. CASE ~Resting
  BY <1>1, <1>3 DEF Starts, DevicesInv, DeviceCallsInv, Resting
<1> QED BY <1>2, <1>3

\* The end of a call: what is left to show is about the rows it leaves.
LEMMA EndsKeeps ==
    ASSUME DevicesInv, NEW c \in Busy, NEW word, Ends(c, word), neat' = neat,
           live' \subseteq DeviceRows,
           \A d \in Busy \ mixed : d # c => live' = live,
           c \notin mixed /\ word = "registered" => live' # {},
           word # "forgotten",
           neat => \A d, e \in live' : d = e,
           neat /\ word = "removed" => live' = {}
    PROVE  DevicesInv'
<1>1. Busy' = Busy \ {c} /\ c \in DeviceCalls
  BY DEF Ends, DevicesInv, DeviceCallsInv, Busy, Free
<1>2. /\ doing' \in [DeviceCalls -> {"free", "create", "update", "remove"}]
      /\ held' \in [DeviceCalls -> DeviceRows \cup {NoRow}]
      /\ \A d \in DeviceCalls \ {c} : doing'[d] = doing[d] /\ held'[d] = held[d]
      /\ mixed' = mixed \ {c}
      /\ lastWord'.said = word /\ lastWord'.overlapped = (c \in mixed)
  BY <1>1 DEF Ends, DevicesInv, DeviceCallsInv
<1>3. DeviceCallsInv'
  <2> SUFFICES ASSUME NEW d \in Busy' \ mixed' PROVE FALSE
    BY <1>2 DEF DeviceCallsInv
  <2>1. d \in Busy \ mixed /\ d # c
    BY <1>1, <1>2
  <2> QED BY <2>1 DEF DevicesInv, DeviceCallsInv
<1> QED
  BY <1>1, <1>2, <1>3 DEF DevicesInv, Resting

LEMMA DevicesStep == DevicesInv /\ [DevicesNext]_deviceVars => DevicesInv'
<1> SUFFICES ASSUME DevicesInv, [DevicesNext]_deviceVars PROVE DevicesInv'
  OBVIOUS
<1>1. ASSUME NEW c \in DeviceCalls, FindDevice(c) PROVE DevicesInv'
  BY <1>1, StartsKeeps DEF FindDevice, DevicesInv, DeviceCallsInv
<1>2. ASSUME NEW c \in DeviceCalls, NEW d \in DeviceRows, FindForRemoval(c, d) PROVE DevicesInv'
  BY <1>2, StartsKeeps DEF FindForRemoval
<1>3. ASSUME NEW c \in DeviceCalls, UpdateDevice(c) PROVE DevicesInv'
  BY <1>3, EndsKeeps DEF UpdateDevice, DevicesInv, DeviceCallsInv, Busy, Free
<1>4. ASSUME NEW c \in DeviceCalls, CreateDevice(c) PROVE DevicesInv'
  <2>1. PICK d \in Unused : live' = live \cup {d}
    BY <1>4 DEF CreateDevice
  <2>2. c \in Busy /\ neat' = neat /\ Ends(c, "registered") /\ live' \subseteq DeviceRows
    BY <1>4, <2>1 DEF CreateDevice, Busy, Free, Unused, DevicesInv, DeviceCallsInv
  <2>3. \A e \in Busy \ mixed : e = c
    BY <2>2 DEF DevicesInv, DeviceCallsInv
  <2>4. neat => live = {}
    BY <1>4, <2>2 DEF CreateDevice, DevicesInv, DeviceCallsInv
  <2> QED BY <2>1, <2>2, <2>3, <2>4, EndsKeeps
<1>5. ASSUME NEW c \in DeviceCalls, RemoveDevice(c) PROVE DevicesInv'
  <2>1. c \in Busy /\ neat' = neat /\ Ends(c, "removed") /\ live' = live \ {held[c]}
    BY <1>5 DEF RemoveDevice, Busy, Free
  <2>2. \A e \in Busy \ mixed : e = c
    BY <2>1 DEF DevicesInv, DeviceCallsInv
  <2>3. neat => held[c] \in live
    BY <1>5, <2>1 DEF RemoveDevice, DevicesInv, DeviceCallsInv
  <2> QED BY <2>1, <2>2, <2>3, EndsKeeps DEF DevicesInv, DeviceCallsInv
<1>6. ASSUME NEW c \in DeviceCalls, DeviceCallFails(c) PROVE DevicesInv'
  BY <1>6, EndsKeeps DEF DeviceCallFails, DevicesInv, DeviceCallsInv, Busy, Free
<1>7. CASE RemoveDeviceByToken
  BY <1>7 DEF RemoveDeviceByToken, DevicesInv, DeviceCallsInv, Busy, Free, Resting
<1>8. CASE UNCHANGED deviceVars
  BY <1>8 DEF deviceVars, DevicesInv, DeviceCallsInv, Busy, Free, Resting
<1> QED
  BY <1>1, <1>2, <1>3, <1>4, <1>5, <1>6, <1>7, <1>8 DEF DevicesNext, RegisterOrUpdateDevice

\* The last word about a push token holds, for any number of calls and rows, where no other call
\* overlapped it; and calls one at a time keep a single row (UserDevicesService).
THEOREM LastWordAlwaysHolds == DevicesSpec => []LastWordHolds
<1>1. DevicesInv => LastWordHolds
  <2> SUFFICES ASSUME DevicesInv, neat PROVE Cardinality(live) <= 1
    BY DEF DevicesInv, LastWordHolds
  <2>1. CASE live = {}
    BY <2>1, FS_EmptySet
  <2>2. ASSUME NEW d \in live PROVE Cardinality(live) <= 1
    <3>1. live = {d}
      BY <2>2 DEF DevicesInv
    <3> QED BY <3>1, FS_Singleton
  <2> QED BY <2>1, <2>2
<1> QED
  BY <1>1, DevicesInvInit, DevicesStep, PTL DEF DevicesSpec

-----------------------------------------------------------------------------
(* ActivityFeed *)

\* What is too long is about to be trimmed, what has no time to live is about to get one, unless
\* the calls of an adder failed.
FeedInv ==
    /\ feed \in Seq(Nat) /\ pushes \in Nat /\ since \in Nat /\ strays \in Nat
    /\ adding \in [Adders -> {"push", "trim", "expire"}]
    /\ \A i \in 1..Len(feed) : feed[i] = pushes - i + 1
    /\ Len(feed) \in Few(MaxActivities, since)..since
    /\ strays = 0 =>
        /\ Len(feed) > MaxActivities => \E a \in Adders : adding[a] = "trim"
        /\ feed # <<>> => expires \/ \E a \in Adders : adding[a] # "push"

LEMMA FeedInvInit == FeedInit => FeedInv
BY ActivityFeedConstants DEF FeedInit, FeedInv, Few

LEMMA FeedStep == FeedInv /\ [FeedNext]_feedVars => FeedInv'
<1> SUFFICES ASSUME FeedInv, [FeedNext]_feedVars PROVE FeedInv'
  OBVIOUS
<1> USE ActivityFeedConstants DEF FeedInv, Few
<1>1. ASSUME NEW a \in Adders, Lpush(a) PROVE FeedInv'
  <2>1. /\ feed' \in Seq(Nat) /\ Len(feed') = Len(feed) + 1 /\ feed'[1] = pushes + 1
        /\ \A i \in 2..Len(feed') : feed'[i] = feed[i - 1]
    BY <1>1 DEF Lpush
  <2>2. ASSUME NEW i \in 1..Len(feed') PROVE feed'[i] = pushes' - i + 1
    <3>1. CASE i = 1 BY <1>1, <2>1, <3>1 DEF Lpush
    <3>2. CASE i # 1
      <4>1. i - 1 \in 1..Len(feed) /\ i \in 2..Len(feed') BY <2>1, <3>2
      <4>2. feed[i - 1] = pushes - (i - 1) + 1 BY <4>1
      <4> QED BY <1>1, <2>1, <4>1, <4>2 DEF Lpush
    <3> QED BY <3>1, <3>2
  <2>3. Len(feed') \in Few(MaxActivities, since')..since' /\ pushes' \in Nat /\ since' \in Nat
    BY <1>1, <2>1 DEF Lpush
  <2> QED BY <1>1, <2>1, <2>2, <2>3 DEF Lpush
<1>2. ASSUME NEW a \in Adders, Ltrim(a) PROVE FeedInv'
  <2>1. /\ feed' \in Seq(Nat) /\ Len(feed') = Few(MaxActivities, Len(feed))
        /\ \A i \in 1..Len(feed') : feed'[i] = feed[i]
        /\ feed' # <<>> => feed # <<>>
    BY <1>2 DEF Ltrim
  <2> QED BY <1>2, <2>1 DEF Ltrim
<1>3. ASSUME NEW a \in Adders, Expire(a) PROVE FeedInv'
  BY <1>3 DEF Expire
<1>4. ASSUME NEW a \in Adders, AddFails(a) PROVE FeedInv'
  BY <1>4 DEF AddFails
<1>5. CASE ClearActivityFeed \/ RunsOut
  <2>1. feed' = <<>> /\ since' = 0 /\ strays' = 0 /\ UNCHANGED <<adding, pushes>>
    BY <1>5 DEF ClearActivityFeed, RunsOut, Gone
  <2>2. feed' \in Seq(Nat) /\ Len(feed') = 0
    BY <2>1
  <2> QED BY <2>1, <2>2
<1>6. CASE UNCHANGED feedVars
  BY <1>6 DEF feedVars
<1> QED
  BY <1>1, <1>2, <1>3, <1>4, <1>5, <1>6 DEF FeedNext, AddActivityToFeed

\* The feed is the newest activities, newest first, for any number of adders and any length
\* (the activity feed of the Express example).
THEOREM FeedAlwaysNewest == FeedSpec => []FeedIsNewest
<1>1. FeedInv => FeedIsNewest
  BY ActivityFeedConstants DEF FeedInv, FeedIsNewest
<1> QED
  BY <1>1, FeedInvInit, FeedStep, PTL DEF FeedSpec
-----------------------------------------------------------------------------
(* SettingsPages *)

LEMMA LeastOf ==
    ASSUME NEW S \in SUBSET Nat, S # {}
    PROVE  Min(S) \in S /\ \A y \in S : Min(S) <= y
<1> DEFINE Below == OpToRel(<, Nat)
<1>1. IsWellFoundedOn(Below, Nat)
  BY NatLessThanWellFounded, Zenon
<1>2. \A x \in Nat, y \in Nat : x < y => <<x, y>> \in Below
  BY DEF OpToRel
<1> HIDE DEF Below
<1>3. PICK n \in S : \A m \in S : ~(<<m, n>> \in Below)
  BY <1>1, WFMin, Zenon
<1>4. ASSUME NEW m \in S PROVE n <= m
  <2>1. ~(m < n)
    BY <1>2, <1>3, Zenon
  <2> QED BY <2>1
<1> QED BY <1>4 DEF Min

LEMMA GreatestOf ==
    ASSUME NEW n \in Nat, NEW S \in SUBSET (0..n), S # {}
    PROVE  Max(S) \in S /\ \A y \in S : Max(S) >= y
<1> DEFINE Mirror == {n - x : x \in S}
<1>1. Mirror \in SUBSET Nat /\ Mirror # {}
  <2>1. \A x \in S : n - x \in Nat
    OBVIOUS
  <2> QED BY <2>1
<1>2. PICK x \in S : n - x = Min(Mirror)
  BY <1>1, LeastOf, Zenon
<1>3. \A y \in S : n - x <= n - y
  <2> HIDE DEF Mirror
  <2>1. \A z \in Mirror : Min(Mirror) <= z
    BY <1>1, LeastOf
  <2> QED BY <1>2, <2>1 DEF Mirror
<1>4. \A y \in S : x >= y
  BY <1>3
<1> QED BY <1>4 DEF Max

Before(S, p) == {q \in S : q < p}

LEMMA BeforeIsFinite ==
    ASSUME NEW S, IsFiniteSet(S), NEW p
    PROVE  IsFiniteSet(Before(S, p)) /\ Cardinality(Before(S, p)) \in Nat
BY FS_Subset, FS_CardinalityType DEF Before

LEMMA BeforeGrows ==
    ASSUME NEW T \in SUBSET Nat, IsFiniteSet(T), NEW S \in SUBSET T, NEW p \in Nat,
           NEW q \in Nat, p <= q
    PROVE  Cardinality(Before(S, p)) <= Cardinality(Before(T, q))
<1>1. Before(S, p) \subseteq Before(T, q)
  <2> SUFFICES ASSUME NEW x \in S, x < p PROVE x \in T /\ x < q
    BY DEF Before
  <2> QED OBVIOUS
<1> QED BY <1>1, BeforeIsFinite, FS_Subset

LEMMA BeforeIsLess ==
    ASSUME NEW S \in SUBSET Nat, IsFiniteSet(S), NEW p \in S
    PROVE  Cardinality(Before(S, p)) < Cardinality(S)
<1>1. Before(S, p) \subseteq S /\ p \notin Before(S, p)
  BY DEF Before
<1>2. Cardinality(Before(S, p)) <= Cardinality(S) /\ Cardinality(Before(S, p)) # Cardinality(S)
  BY <1>1, FS_Subset
<1> QED BY <1>2, BeforeIsFinite, FS_CardinalityType

\* The first rows of a set are the beginning of it.
LEMMA FirstsAreFirst ==
    ASSUME NEW S \in SUBSET Nat, IsFiniteSet(S), NEW n \in Nat, NEW p \in Firsts(S, n),
           NEW q \in S \ Firsts(S, n)
    PROVE  p < q
<1>1. Cardinality(Before(S, p)) < n /\ ~(Cardinality(Before(S, q)) < n) /\ p \in S
  BY DEF Firsts, Before
<1>2. q <= p => Cardinality(Before(S, q)) <= Cardinality(Before(S, p))
  BY <1>1, BeforeGrows
<1> QED BY <1>1, <1>2, BeforeIsFinite

\* There are as many as asked for unless they are all.
LEMMA FirstsAreEnough ==
    ASSUME NEW S \in SUBSET Nat, IsFiniteSet(S), NEW n \in Nat, S \ Firsts(S, n) # {}
    PROVE  Cardinality(Firsts(S, n)) >= n
<1> DEFINE m == Min(S \ Firsts(S, n))
<1>1. m \in S \ Firsts(S, n) /\ \A q \in S \ Firsts(S, n) : m <= q
  BY LeastOf
<1> HIDE DEF m
<1>2. Before(S, m) = Firsts(S, n)
  <2>1. \A p \in Before(S, m) : p \in Firsts(S, n)
    BY <1>1 DEF Before
  <2>2. \A p \in Firsts(S, n) : p \in S /\ p < m
    BY <1>1, FirstsAreFirst DEF Firsts
  <2> QED BY <2>1, <2>2 DEF Before
<1>3. ~(Cardinality(Before(S, m)) < n)
  BY <1>1 DEF Firsts, Before
<1> QED BY <1>2, <1>3, BeforeIsFinite

\* A page by number has each row with fewer than k + n before it, but those on the pages before.
LEMMA PageHasRow ==
    ASSUME NEW S \in SUBSET Nat, IsFiniteSet(S), NEW k \in Nat, NEW n \in Nat, NEW p \in S,
           Cardinality(Before(S, p)) < k + n, ~(Cardinality(Before(S, p)) < k)
    PROVE  p \in Firsts(S \ Firsts(S, k), n)
<1> DEFINE F == Firsts(S, k)
<1>1. p \in S \ F
  BY DEF Firsts, Before
<1>2. F \subseteq Before(S, p)
  BY <1>1, FirstsAreFirst DEF Before, Firsts
<1>3. Before(S \ F, p) = Before(S, p) \ F
  BY DEF Before
<1>4. Cardinality(F) >= k
  BY <1>1, FirstsAreEnough
<1>5. /\ IsFiniteSet(F) /\ Cardinality(F) \in Nat /\ Before(S, p) \cap F = F
      /\ Cardinality(Before(S, p)) \in Nat
  BY <1>2, BeforeIsFinite, FS_Subset, FS_CardinalityType
<1> HIDE DEF F
<1>6. Cardinality(Before(S, p) \ F) = Cardinality(Before(S, p)) - Cardinality(F)
  <2>1. IsFiniteSet(Before(S, p))
    BY BeforeIsFinite, Zenon
  <2>2. Cardinality(Before(S, p) \ F)
            = Cardinality(Before(S, p)) - Cardinality(Before(S, p) \cap F)
    BY <1>5, <2>1, FS_Difference, Zenon
  <2> QED BY <1>5, <2>2, Zenon
<1>7. Cardinality(Before(S \ F, p)) = Cardinality(Before(S, p) \ F)
  BY <1>3, Zenon
<1>8. Cardinality(Before(S \ F, p)) < n
  BY <1>4, <1>5, <1>6, <1>7
<1> QED BY <1>1, <1>8 DEF Firsts, Before, F

\* Math.ceil rounds up.
LEMMA CeilCovers ==
    ASSUME NEW c \in Nat, NEW n \in Nat \ {0}, NEW m \in Nat, (c + n - 1) \div n <= m
    PROVE  c <= m * n
OBVIOUS
\* The shape of a walk; the cursor's row is there or was deleted.
WalkShape ==
    /\ table \subseteq Places /\ spent \subseteq Places /\ seated \subseteq table
    /\ given \subseteq Places /\ skipped \subseteq Places
    /\ way \in {"none", "named", "last", "number"} /\ askWith \in Nat
    /\ halves \in {{}, {"docs"}, {"total"}}
    /\ way = "none" => given = {} /\ skipped = {} /\ askWith = 0 /\ halves = {} /\ ~done
    /\ way \in {"named", "last"} => halves = {} /\ askWith \in {0} \cup table \cup spent

\* What is not ahead of the cursor was given, or named.
ByCursorInv ==
    /\ way = "last" => IF done THEN seated \subseteq given
                       ELSE \A p \in seated : p <= askWith => p \in given
    /\ way = "named" =>
        /\ given \cap skipped = {}
        /\ IF done THEN seated \subseteq given \cup skipped
           ELSE /\ \A p \in seated : p <= askWith => p \in given \cup skipped
                /\ \A p \in given : p < askWith
                /\ \A p \in skipped : p <= askWith

CeilOfTable == (Cardinality(table) + Limit - 1) \div Limit

PagesRead == IF halves = {"docs"} THEN askWith + 1 ELSE askWith

\* The rows on the pages read were given, wherever later rows push them.
ByNumberInv ==
    way = "number" =>
        /\ \A p \in seated : Cardinality(Before(table, p)) < PagesRead * Limit => p \in given
        /\ halves = {"total"} => totalPages = CeilOfTable
        /\ done => seated \subseteq given

PagesInv == WalkShape /\ (~hurt => ByCursorInv /\ ByNumberInv)

LEMMA PagesInvInit == PagesInit => PagesInv
<1> SUFFICES ASSUME PagesInit PROVE PagesInv
  OBVIOUS
<1>1. WalkShape
  BY DEF PagesInit, WalkShape
<1>2. ByCursorInv /\ ByNumberInv
  BY DEF PagesInit, ByCursorInv, ByNumberInv
<1> QED BY <1>1, <1>2 DEF PagesInv

LEMMA TableIsFinite ==
    ASSUME NEW T \in SUBSET Places
    PROVE  IsFiniteSet(T) /\ T \in SUBSET Nat /\ Cardinality(T) \in Nat /\ 0 \notin T
BY SettingsPagesConstants, FS_Subset, FS_CardinalityType

LEMMA CreateRowKeeps ==
    ASSUME PagesInv, NEW p \in Places, CreateRow(p) PROVE PagesInv'
<1>1. /\ table' = table \cup {p}
      /\ hurt' = (hurt \/ halves = {"total"})
      /\ UNCHANGED <<spent, way, askWith, halves, totalPages, given, done, seated, skipped>>
  BY DEF CreateRow
<1>2. WalkShape'
  BY <1>1 DEF PagesInv, WalkShape
<1>3. ASSUME ~hurt' PROVE ByCursorInv' /\ ByNumberInv'
  <2>1. ByCursorInv'
    BY <1>1, <1>3 DEF PagesInv, ByCursorInv
  <2>2. /\ table' \in SUBSET Nat /\ IsFiniteSet(table') /\ table \subseteq table' /\ seated \subseteq Nat
        /\ Limit \in Nat /\ PagesRead \in Nat
    BY <1>1, <1>2, TableIsFinite, SettingsPagesConstants DEF WalkShape, PagesRead
  <2>3. ASSUME NEW q \in seated
        PROVE  /\ Cardinality(Before(table, q)) <= Cardinality(Before(table', q))
               /\ Cardinality(Before(table, q)) \in Nat
               /\ Cardinality(Before(table', q)) \in Nat
    <3>1. q \in Nat /\ q <= q
      BY <2>2
    <3>2. IsFiniteSet(table)
      BY TableIsFinite DEF PagesInv, WalkShape
    <3> QED BY <2>2, <3>1, <3>2, BeforeGrows, BeforeIsFinite
  <2>4. PagesRead' = PagesRead /\ halves # {"total"}
    BY <1>1, <1>3 DEF PagesRead
  <2>5. ASSUME way = "number" PROVE ByNumberInv'
    <3>1. ~hurt /\ seated' = seated /\ given' = given /\ done' = done
      BY <1>1, <1>3
    <3>2. /\ \A q \in seated : Cardinality(Before(table, q)) < PagesRead * Limit => q \in given
          /\ done => seated \subseteq given
      BY <2>5, <3>1 DEF PagesInv, ByNumberInv
    <3>3. PagesRead * Limit \in Nat /\ PagesRead' * Limit = PagesRead * Limit
      BY <2>2, <2>4
    <3>4. ASSUME NEW q \in seated', Cardinality(Before(table', q)) < PagesRead' * Limit
          PROVE  q \in given'
      BY <2>3, <3>1, <3>2, <3>3, <3>4
    <3> QED BY <1>1, <2>4, <3>1, <3>2, <3>4 DEF ByNumberInv
  <2>6. way # "number" => ByNumberInv'
    BY <1>1 DEF ByNumberInv
  <2> QED BY <2>1, <2>5, <2>6
<1> QED BY <1>2, <1>3 DEF PagesInv

LEMMA DeleteRowKeeps ==
    ASSUME PagesInv, NEW p \in Places, DeleteRow(p) PROVE PagesInv'
<1>1. /\ table' = table \ {p} /\ spent' = spent \cup {p} /\ seated' = seated \ {p}
      /\ hurt' = (hurt \/ (way = "number" /\ (askWith # 0 \/ halves # {})))
      /\ UNCHANGED <<way, askWith, halves, totalPages, given, done, skipped>>
  BY DEF DeleteRow
<1>2. WalkShape'
  BY <1>1 DEF PagesInv, WalkShape
<1>3. ASSUME ~hurt' PROVE ByCursorInv' /\ ByNumberInv'
  <2>1. ByCursorInv'
    BY <1>1, <1>3 DEF PagesInv, ByCursorInv
  <2>2. CASE way = "number"
    <3>1. askWith = 0 /\ halves = {} /\ ~hurt
      BY <1>1, <1>3, <2>2, Zenon
    <3>2. PagesRead' * Limit = 0 /\ halves' = {}
      BY <1>1, <3>1, SettingsPagesConstants DEF PagesRead
    <3>3. ASSUME NEW q \in seated' PROVE ~(Cardinality(Before(table', q)) < PagesRead' * Limit)
      BY <1>2, <3>2, TableIsFinite, BeforeIsFinite DEF WalkShape
    <3>4. done' => seated' \subseteq given'
      BY <1>1, <2>2, <3>1 DEF PagesInv, ByNumberInv
    <3>5. ByNumberInv'
      BY <3>2, <3>3, <3>4 DEF ByNumberInv
    <3> QED BY <2>1, <3>5
  <2>3. CASE way # "number"
    BY <1>1, <2>1, <2>3 DEF ByNumberInv
  <2> QED BY <2>2, <2>3
<1> QED BY <1>2, <1>3 DEF PagesInv

LEMMA BeginKeeps ==
    ASSUME PagesInv, NEW w \in {"named", "last", "number"}, Begin(w) PROVE PagesInv'
<1>1. way = "none" /\ way' = w
      /\ UNCHANGED <<table, spent, askWith, halves, totalPages, given, done, seated, skipped, hurt>>
  BY DEF Begin
<1>2. /\ given = {} /\ skipped = {} /\ askWith = 0 /\ halves = {} /\ ~done
      /\ \A p \in seated : p # 0 /\ p \in Nat /\ Cardinality(Before(table, p)) \in Nat
  BY <1>1, TableIsFinite, BeforeIsFinite DEF PagesInv, WalkShape
<1>3. PagesRead' * Limit = 0
  BY <1>1, <1>2, SettingsPagesConstants DEF PagesRead
<1>4. WalkShape'
  BY <1>1, <1>2 DEF PagesInv, WalkShape
<1>5. ByCursorInv'
  BY <1>1, <1>2 DEF ByCursorInv
<1>6. ByNumberInv'
  BY <1>1, <1>2, <1>3 DEF ByNumberInv
<1> QED BY <1>4, <1>5, <1>6 DEF PagesInv

\* The page after a cursor that is still there.
LEMMA AheadOfCursor ==
    ASSUME WalkShape, NEW docs, docs = Firsts(Beyond(askWith), Limit)
    PROVE  /\ Beyond(askWith) \subseteq table /\ docs \subseteq Beyond(askWith)
           /\ askWith \in {0} \cup table => \A p \in table : p \in Beyond(askWith) \/ p <= askWith
           /\ \A p \in Beyond(askWith) : p > askWith
           /\ Beyond(askWith) # docs =>
                LET nextItem == Min(Beyond(askWith) \ docs)
                IN  /\ nextItem \in Beyond(askWith) \ docs
                    /\ \A p \in Beyond(askWith) \ docs : nextItem <= p
                    /\ \A p \in docs : p < nextItem
                    /\ Max(docs) \in docs
                    /\ \A p \in Beyond(askWith) : p <= Max(docs) => p \in docs
<1> DEFINE ahead == Beyond(askWith)
<1>1. /\ ahead \subseteq table /\ docs \subseteq ahead
      /\ askWith \in {0} \cup table => \A p \in table : p \in ahead \/ p <= askWith
      /\ \A p \in ahead : p > askWith
  BY TableIsFinite DEF WalkShape, Beyond, Firsts
<1>2. ahead \in SUBSET Nat /\ IsFiniteSet(ahead) /\ Limit \in Nat \ {0}
  BY <1>1, TableIsFinite, FS_Subset, SettingsPagesConstants DEF WalkShape
<1> HIDE DEF ahead
<1>3. ASSUME ahead # docs
      PROVE  LET nextItem == Min(ahead \ docs)
             IN  /\ nextItem \in ahead \ docs
                 /\ \A p \in ahead \ docs : nextItem <= p
                 /\ \A p \in docs : p < nextItem
                 /\ Max(docs) \in docs
                 /\ \A p \in ahead : p <= Max(docs) => p \in docs
  <2> DEFINE nextItem == Min(ahead \ docs)
  <2>1. nextItem \in ahead \ docs /\ \A p \in ahead \ docs : nextItem <= p
    BY <1>1, <1>2, <1>3, LeastOf
  <2>2. \A p \in docs, q \in ahead \ docs : p < q
    BY <1>2, FirstsAreFirst DEF ahead
  <2>3. docs # {}
    <3>1. Cardinality(docs) >= Limit
      BY <1>1, <1>2, <1>3, FirstsAreEnough DEF ahead
    <3> QED BY <1>2, <3>1, FS_EmptySet
  <2>4. nextItem \in Nat /\ docs \in SUBSET (0..nextItem)
    <3>1. nextItem \in Nat
      BY <1>2, <2>1
    <3>2. ASSUME NEW p \in docs PROVE p \in 0..nextItem
      <4>1. p \in Nat /\ p < nextItem
        BY <1>1, <1>2, <2>1, <2>2
      <4> QED BY <3>1, <4>1
    <3> QED BY <3>1, <3>2
  <2>5. Max(docs) \in docs /\ \A p \in docs : Max(docs) >= p
    BY <2>3, <2>4, GreatestOf
  <2>6. ASSUME NEW p \in ahead, p <= Max(docs), p \notin docs PROVE FALSE
    <3>1. Max(docs) < p
      BY <2>2, <2>5, <2>6
    <3>2. Max(docs) \in Nat /\ p \in Nat
      BY <1>1, <1>2, <2>5
    <3> QED BY <2>6, <3>1, <3>2
  <2> QED BY <2>1, <2>2, <2>5, <2>6
<1> QED BY <1>1, <1>3 DEF ahead

LEMMA PageByCursorKeeps == ASSUME PagesInv, PageByCursor PROVE PagesInv'
<1> DEFINE ahead == Beyond(askWith)
           docs == Firsts(ahead, Limit)
           nextItem == Min(ahead \ docs)
<1>1. /\ way \in {"named", "last"} /\ ~done /\ halves = {}
      /\ given' = given \cup docs /\ done' = (ahead = docs)
      /\ seated' = IF askWith = 0 THEN table ELSE seated
      /\ hurt' = (hurt \/ askWith \in spent)
      /\ UNCHANGED <<table, spent, way, halves, totalPages>>
      /\ done' => UNCHANGED <<askWith, skipped>>
      /\ ~done' => /\ askWith' = IF way = "named" THEN nextItem ELSE Max(docs)
                   /\ skipped' = skipped \cup {nextItem}
  BY DEF PageByCursor, PagesInv, WalkShape
<1>2. /\ ahead \subseteq table /\ docs \subseteq ahead
      /\ askWith \in {0} \cup table => \A p \in table : p \in ahead \/ p <= askWith
      /\ \A p \in ahead : p > askWith
      /\ ahead # docs =>
            /\ nextItem \in ahead \ docs
            /\ \A p \in ahead \ docs : nextItem <= p
            /\ \A p \in docs : p < nextItem
            /\ Max(docs) \in docs
            /\ \A p \in ahead : p <= Max(docs) => p \in docs
  BY AheadOfCursor DEF PagesInv
<1> HIDE DEF ahead, docs, nextItem
<1>3. table \subseteq Places /\ table \subseteq Nat /\ 0 \notin table /\ seated \subseteq table
      /\ seated' \subseteq table /\ askWith \in Nat
  BY <1>1, TableIsFinite DEF PagesInv, WalkShape
<1>4. WalkShape'
  BY <1>1, <1>2, <1>3 DEF PagesInv, WalkShape
<1>5. ASSUME ~hurt' PROVE ByCursorInv'
  <2>1. ~hurt /\ askWith \in {0} \cup table /\ ByCursorInv
    BY <1>1, <1>5 DEF PagesInv, WalkShape
  <2>2. \A p \in seated' : p \in ahead \/ (p \in seated /\ p <= askWith)
    BY <1>1, <1>2, <1>3, <2>1
  <2>3. CASE way = "last"
    <3>1. \A p \in seated : p <= askWith => p \in given
      BY <1>1, <2>1, <2>3 DEF ByCursorInv
    <3>2. CASE ahead = docs
      BY <1>1, <2>2, <2>3, <3>1, <3>2 DEF ByCursorInv
    <3>3. CASE ahead # docs
      BY <1>1, <1>2, <2>2, <2>3, <3>1, <3>3 DEF ByCursorInv
    <3> QED BY <3>2, <3>3
  <2>4. CASE way = "named"
    <3>1. /\ \A p \in seated : p <= askWith => p \in given \cup skipped
          /\ \A p \in given : p < askWith
          /\ \A p \in skipped : p <= askWith
          /\ given \cap skipped = {}
      BY <1>1, <2>1, <2>4 DEF ByCursorInv
    <3>2. given \subseteq Nat /\ skipped \subseteq Nat
      BY TableIsFinite DEF PagesInv, WalkShape
    <3>3. CASE ahead = docs
      <4>1. given' = given \cup docs /\ skipped' = skipped /\ done'
        BY <1>1, <3>3
      <4>2. \A p \in docs : p \notin skipped
        BY <1>2, <1>3, <3>1, <3>2
      <4>3. given' \cap skipped' = {}
        BY <3>1, <4>1, <4>2
      <4>4. seated' \subseteq given' \cup skipped'
        BY <1>1, <2>2, <3>1, <3>3
      <4> QED BY <1>1, <2>4, <4>1, <4>3, <4>4 DEF ByCursorInv
    <3>4. CASE ahead # docs
      <4>0. nextItem \in Nat /\ docs \subseteq Nat /\ nextItem > askWith
            /\ askWith' = nextItem /\ skipped' = skipped \cup {nextItem} /\ nextItem \notin docs
        BY <1>1, <1>2, <1>3, <2>4, <3>4
      <4>1. given' \cap skipped' = {}
        BY <1>1, <1>2, <1>3, <3>1, <3>2, <4>0
      <4>2. \A p \in seated' : p <= askWith' => p \in given' \cup skipped'
        BY <1>1, <1>2, <1>3, <2>2, <3>1, <3>4, <4>0
      <4>3. \A p \in given' : p < askWith'
        BY <1>1, <1>2, <1>3, <3>1, <3>2, <3>4, <4>0
      <4>4. \A p \in skipped' : p <= askWith'
        BY <1>1, <1>3, <3>1, <3>2, <4>0
      <4> QED BY <1>1, <2>4, <3>4, <4>1, <4>2, <4>3, <4>4 DEF ByCursorInv
    <3> QED BY <3>3, <3>4
  <2> QED BY <1>1, <2>3, <2>4
<1> QED BY <1>1, <1>4, <1>5 DEF PagesInv, ByNumberInv

\* A page that was read has every row that was there all along and is on it, or was.
LEMMA PageHasSeated ==
    ASSUME PagesInv, ~hurt, way = "number", halves # {"docs"},
           NEW p \in (IF askWith = 0 /\ halves = {} THEN table ELSE seated),
           Cardinality(Before(table, p)) < (askWith + 1) * Limit
    PROVE  p \in given \cup Firsts(table \ Firsts(table, askWith * Limit), Limit)
<1>1. table \in SUBSET Nat /\ IsFiniteSet(table) /\ p \in table /\ askWith \in Nat /\ Limit \in Nat
  BY TableIsFinite, SettingsPagesConstants DEF PagesInv, WalkShape
<1>2. askWith * Limit \in Nat /\ (askWith + 1) * Limit = askWith * Limit + Limit
  BY <1>1
<1>3. CASE Cardinality(Before(table, p)) < askWith * Limit
  <2>1. askWith # 0
    BY <1>1, <1>3, BeforeIsFinite
  <2> QED BY <1>3, <2>1 DEF PagesInv, ByNumberInv, PagesRead
<1>4. CASE ~(Cardinality(Before(table, p)) < askWith * Limit)
  BY <1>1, <1>2, <1>4, PageHasRow
<1> QED BY <1>3, <1>4

\* Once as many pages were read as the table has, every row was on one of them.
LEMMA LastPage ==
    ASSUME PagesInv, NEW n \in Nat, n >= CeilOfTable, NEW p \in table
    PROVE  Cardinality(Before(table, p)) < n * Limit
<1>1. table \in SUBSET Nat /\ IsFiniteSet(table) /\ Cardinality(table) \in Nat
      /\ Limit \in Nat \ {0}
  BY TableIsFinite, SettingsPagesConstants DEF PagesInv, WalkShape
<1>2. CeilOfTable <= n
  BY <1>1 DEF CeilOfTable
<1>3. Cardinality(table) <= n * Limit
  BY <1>1, <1>2, CeilCovers DEF CeilOfTable
<1>4. Cardinality(Before(table, p)) < Cardinality(table) /\ Cardinality(Before(table, p)) \in Nat
  BY <1>1, BeforeIsLess, BeforeIsFinite
<1>5. n * Limit \in Nat
  BY <1>1
<1> QED BY <1>1, <1>3, <1>4, <1>5

LEMMA NumberStepKeeps ==
    ASSUME PagesInv, ReadDocs \/ ReadTotal PROVE PagesInv'
<1> DEFINE page == Firsts(table \ Firsts(table, askWith * Limit), Limit)
<1>1. /\ way = "number" /\ ~done
      /\ seated' = IF askWith = 0 /\ halves = {} THEN table ELSE seated
      /\ UNCHANGED <<table, spent, way, skipped, hurt>>
      /\ page \subseteq table
  BY DEF ReadDocs, ReadTotal, Reads, Firsts
<1>2. askWith \in Nat /\ table \subseteq Places /\ Limit \in Nat \ {0}
  BY SettingsPagesConstants DEF PagesInv, WalkShape
<1>3. /\ ReadDocs => given' = given \cup page /\ totalPages' = totalPages /\ halves # {"docs"}
      /\ ReadTotal => given' = given /\ totalPages' = CeilOfTable /\ halves # {"total"}
  BY DEF ReadDocs, ReadTotal, Reads, CeilOfTable
<1> HIDE DEF page
<1>4. \/ halves = {} /\ halves' \in {{"docs"}, {"total"}} /\ UNCHANGED <<askWith, done>>
      \/ halves # {} /\ halves' = {} /\ askWith' = askWith + 1 /\ done' = (askWith' >= totalPages')
  BY DEF ReadDocs, ReadTotal, Reads
<1>5. /\ halves = {} /\ ReadDocs => halves' = {"docs"}
      /\ halves = {} /\ ReadTotal => halves' = {"total"}
  BY DEF ReadDocs, ReadTotal, Reads
<1>6. WalkShape'
  <2>1. given' \subseteq Places /\ seated' \subseteq table
    BY <1>1, <1>2, <1>3 DEF PagesInv, WalkShape
  <2>2. halves' \in {{}, {"docs"}, {"total"}} /\ askWith' \in Nat
    BY <1>2, <1>4
  <2> QED BY <1>1, <2>1, <2>2 DEF PagesInv, WalkShape
<1>7. ASSUME ~hurt PROVE ByNumberInv'
  <2>1. /\ seated' \subseteq table
        /\ \A p \in seated' : Cardinality(Before(table, p)) \in Nat
        /\ Before(table, 0)' = Before(table, 0)
    BY <1>1, <1>2, TableIsFinite, BeforeIsFinite DEF PagesInv, WalkShape, Before
  <2>2. /\ halves' = {"docs"} => PagesRead' = askWith + 1
        /\ halves' = {"total"} => PagesRead' = askWith
        /\ halves' = {} => PagesRead' = askWith + 1
    BY <1>4 DEF PagesRead
  <2>3. ASSUME NEW p \in seated', Cardinality(Before(table, p)) < PagesRead' * Limit
        PROVE  p \in given'
    <3>1. CASE ReadDocs
      <4>1. PagesRead' = askWith + 1
        BY <1>4, <1>5, <2>2, <3>1
      <4>2. halves # {"docs"} /\ given' = given \cup page
        BY <1>3, <3>1
      <4> QED BY <1>1, <1>7, <2>3, <4>1, <4>2, PageHasSeated DEF page
    <3>2. CASE ReadTotal /\ halves = {}
      <4>1. PagesRead' = askWith /\ PagesRead = askWith
        BY <1>5, <2>2, <3>2 DEF PagesRead
      <4>2. askWith # 0
        BY <1>2, <2>1, <2>3, <4>1
      <4> QED BY <1>1, <1>3, <1>7, <2>3, <3>2, <4>1, <4>2 DEF PagesInv, ByNumberInv
    <3>3. CASE ReadTotal /\ halves # {}
      <4>1. halves = {"docs"} /\ PagesRead' = askWith + 1 /\ PagesRead = askWith + 1
        BY <1>3, <1>4, <2>2, <3>3 DEF PagesInv, WalkShape, PagesRead
      <4> QED BY <1>1, <1>3, <1>7, <2>3, <3>3, <4>1 DEF PagesInv, ByNumberInv
    <3> QED BY <3>1, <3>2, <3>3
  <2>4. halves' = {"total"} => totalPages' = CeilOfTable'
    <3>1. CeilOfTable' = CeilOfTable
      BY <1>1 DEF CeilOfTable
    <3> QED BY <1>3, <1>4, <1>5, <3>1
  <2>5. ASSUME done' PROVE seated' \subseteq given'
    <3>1. halves # {} /\ halves' = {} /\ askWith' = askWith + 1 /\ askWith + 1 >= totalPages'
      BY <1>1, <1>4, <2>5
    <3>2. totalPages' = CeilOfTable
      BY <1>1, <1>3, <1>7, <3>1 DEF PagesInv, WalkShape, ByNumberInv
    <3>3. \A p \in seated' : Cardinality(Before(table, p)) < (askWith + 1) * Limit
      BY <1>2, <2>1, <3>1, <3>2, LastPage
    <3> QED BY <2>2, <2>3, <3>1, <3>3
  <2>6. \A p : Before(table, p)' = Before(table, p)
    BY <1>1 DEF Before
  <2> QED BY <1>1, <2>3, <2>4, <2>5 DEF ByNumberInv, Before
<1>8. ByCursorInv'
  BY <1>1 DEF ByCursorInv
<1> QED BY <1>1, <1>6, <1>7, <1>8 DEF PagesInv

LEMMA PagesStep == PagesInv /\ [PagesNext]_pageVars => PagesInv'
<1> SUFFICES ASSUME PagesInv, [PagesNext]_pageVars PROVE PagesInv'
  OBVIOUS
<1>1. CASE UNCHANGED pageVars
  BY <1>1 DEF pageVars, PagesInv, WalkShape, ByCursorInv, ByNumberInv, PagesRead, CeilOfTable, Before
<1> QED
  BY <1>1, CreateRowKeeps, DeleteRowKeeps, BeginKeeps, PageByCursorKeeps, NumberStepKeeps
     DEF PagesNext

\* A walk over a table that changes meanwhile, of any size and with pages of any size, gives every
\* row that was there all along, but for the rows a page names as cursors (SettingsService).
THEOREM PagesAlwaysComplete == PagesSpec => []PagesComplete
<1>1. PagesInv => PagesComplete
  BY DEF PagesInv, WalkShape, ByCursorInv, ByNumberInv, PagesComplete
<1> QED
  BY <1>1, PagesInvInit, PagesStep, PTL DEF PagesSpec
=============================================================================
