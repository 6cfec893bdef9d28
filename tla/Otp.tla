--------------------------------- MODULE Otp ---------------------------------
(***************************************************************************)
(* OtpService: the one-time code of one address and purpose, a single      *)
(* Redis key with a time to live.  verifyOtp reads the key and, in a later *)
(* call, writes back what it read with one more attempt or deletes the     *)
(* key; requests overlap freely in between.                                *)
(***************************************************************************)
EXTENDS Integers

CONSTANTS
    Codes,          \* what generateOtp may draw
    Requests,       \* verifyOtp calls that may be in flight together
    MaxAttempts,
    Ttl,            \* OTP_TTL, in ticks
    NoEntry

ASSUME OtpConstants ==
    /\ MaxAttempts \in Nat \ {0} /\ Ttl \in Nat \ {0}
    /\ NoEntry \notin [otp : Codes, attempts : 0..MaxAttempts]

VARIABLES
    entry,          \* the JSON stored under the key; NoEntry: no key
    ttl,            \* ticks until Redis drops the key, 0 without a key
    pc,             \* where the verifyOtp call of a request is
    parsed,         \* what that call read
    age,            \* history: ticks since createOtp, counted up to Horizon
    rejected,       \* history: "Invalid OTP" answers since createOtp, up to MaxAttempts + 1
    accepted,       \* history: acceptances since createOtp, up to 2
    serial          \* history: since createOtp every request ran alone

vars == <<entry, ttl, pc, parsed, age, rejected, accepted, serial>>

\* Past this age no property tells ages apart.
Horizon == (MaxAttempts + 1) * Ttl + 1

Idle(r) == pc[r] = "idle"
Quiet == \A r \in Requests : Idle(r)
Alone(r) == \A q \in Requests \ {r} : Idle(q)

Return(r) == pc' = [pc EXCEPT ![r] = "idle"] /\ parsed' = [parsed EXCEPT ![r] = NoEntry]

Set(e) == entry' = e /\ ttl' = Ttl
Del == entry' = NoEntry /\ ttl' = 0

-----------------------------------------------------------------------------
(* createOtp *)

CreateOtp(code) ==
    /\ Set([otp |-> code, attempts |-> 0])
    /\ age' = 0 /\ rejected' = 0 /\ accepted' = 0
    /\ serial' = Quiet
    /\ UNCHANGED <<pc, parsed>>

-----------------------------------------------------------------------------
(* verifyOtp *)

\* The read, and the branch taken on it: no key (refused at once), locked, a wrong
\* code, the right one.
Get(r, otp) ==
    /\ Idle(r)
    /\ serial' = (serial /\ Alone(r))
    /\ IF entry = NoEntry
       THEN UNCHANGED <<pc, parsed>>
       ELSE /\ parsed' = [parsed EXCEPT ![r] = entry]
            /\ pc' = [pc EXCEPT ![r] =
                        IF entry.attempts >= MaxAttempts THEN "locked"
                        ELSE IF entry.otp # otp THEN "wrong" ELSE "match"]
    /\ UNCHANGED <<entry, ttl, age, rejected, accepted>>

\* Mutant: the lock is renewed, as a wrong code is, where the key should go.
MutLockRenews(r) ==
    /\ pc[r] = "locked"
    /\ Set(parsed[r])
    /\ Return(r)
    /\ UNCHANGED <<age, rejected, accepted, serial>>

\* "Too many failed attempts": the key is deleted.
DropLocked(r) ==
    /\ pc[r] = "locked"
    /\ Del
    /\ Return(r)
    /\ UNCHANGED <<age, rejected, accepted, serial>>

Counted(r) == [parsed[r] EXCEPT !.attempts = @ + 1]

\* Mutant: the attempt is not added before the value is written back.
MutForgetsAttempt(r) ==
    /\ pc[r] = "wrong"
    /\ Set(parsed[r])
    /\ Return(r)
    /\ rejected' = IF rejected > MaxAttempts THEN rejected ELSE rejected + 1
    /\ UNCHANGED <<age, accepted, serial>>

\* "Invalid OTP": the value read earlier goes back with one more attempt and a full
\* time to live, over whatever the key holds by now.
CountAttempt(r) ==
    /\ pc[r] = "wrong"
    /\ Set(Counted(r))
    /\ Return(r)
    /\ rejected' = IF rejected > MaxAttempts THEN rejected ELSE rejected + 1
    /\ UNCHANGED <<age, accepted, serial>>

\* Mutant: a code that matched is left in Redis.
MutAcceptKeeps(r) ==
    /\ pc[r] = "match"
    /\ UNCHANGED <<entry, ttl>>
    /\ Return(r)
    /\ accepted' = IF accepted = 2 THEN 2 ELSE accepted + 1
    /\ UNCHANGED <<age, rejected, serial>>

Accept(r) ==
    /\ pc[r] = "match"
    /\ Del
    /\ Return(r)
    /\ accepted' = IF accepted = 2 THEN 2 ELSE accepted + 1
    /\ UNCHANGED <<age, rejected, serial>>

\* The second Redis call rejects, applied or not; the caller gets an error.
CallFails(r) ==
    /\ ~Idle(r)
    /\ \/ UNCHANGED <<entry, ttl>>
       \/ IF pc[r] = "wrong" THEN Set(Counted(r)) ELSE Del
    /\ Return(r)
    /\ UNCHANGED <<age, rejected, accepted, serial>>

\* deleteOtp
DeleteOtp ==
    /\ Del
    /\ serial' = (serial /\ Quiet)
    /\ UNCHANGED <<pc, parsed, age, rejected, accepted>>

-----------------------------------------------------------------------------
\* Time passes; a key that runs out while a request is under way is disorder too.
Tick ==
    /\ age' = IF age = Horizon THEN age ELSE age + 1
    /\ IF ttl > 1
       THEN ttl' = ttl - 1 /\ UNCHANGED <<entry, serial>>
       ELSE Del /\ serial' = (serial /\ Quiet)
    /\ UNCHANGED <<pc, parsed, rejected, accepted>>

Init ==
    /\ entry = NoEntry /\ ttl = 0
    /\ pc = [r \in Requests |-> "idle"]
    /\ parsed = [r \in Requests |-> NoEntry]
    /\ age = 0 /\ rejected = 0 /\ accepted = 0
    /\ serial = TRUE

VerifyOtp(r) ==
    \/ \E otp \in Codes : Get(r, otp)
    \/ DropLocked(r) \/ CountAttempt(r) \/ Accept(r) \/ CallFails(r)

Next ==
    \/ \E code \in Codes : CreateOtp(code)
    \/ \E r \in Requests : VerifyOtp(r)
    \/ DeleteOtp
    \/ Tick

Spec == Init /\ [][Next]_vars

-----------------------------------------------------------------------------
(* Properties *)

Entries == [otp : Codes, attempts : 0..MaxAttempts]

\* The type invariant.  Its bound on attempts holds although requests write back stale
\* values: only a value read below the limit is ever counted up.
TypeOK ==
    /\ entry \in Entries \cup {NoEntry}
    /\ ttl \in 0..Ttl
    /\ pc \in [Requests -> {"idle", "locked", "wrong", "match"}]
    /\ parsed \in [Requests -> Entries \cup {NoEntry}]
    /\ age \in 0..Horizon
    /\ rejected \in 0..MaxAttempts + 1
    /\ accepted \in 0..2
    /\ serial \in BOOLEAN

\* Requests one at a time: a code is accepted once and is gone afterwards.  (Two that
\* overlap may both be accepted, and a wrong one may bring a used code back.)
SerialCodeUsedOnce ==
    serial => accepted <= 1 /\ (accepted = 1 => entry = NoEntry)

\* Requests one at a time: at most MaxAttempts guesses are answered "Invalid OTP" before
\* the next createOtp, also when Redis calls fail in between.
SerialGuessesLimited ==
    serial => rejected <= MaxAttempts /\ (entry # NoEntry => rejected <= entry.attempts)

\* Requests one at a time: each counted guess renews the time to live and nothing else
\* does, so a code is gone (MaxAttempts + 1) * OTP_TTL after it was created.
SerialLifetimeBounded ==
    serial /\ entry # NoEntry => age + ttl <= (entry.attempts + 1) * Ttl

\* What createOtp and verifyOtp promise of a code together, to requests one at a time: it is
\* accepted once, it is given up after MaxAttempts guesses, and it does not live for ever.
SerialCodeSafe == SerialCodeUsedOnce /\ SerialGuessesLimited /\ SerialLifetimeBounded

\* "This OTP is valid for 10 minutes" (email.service.ts:188): a code that old is gone,
\* even when every request ran alone.
ValidForOtpTtl ==
    serial /\ entry # NoEntry => age < Ttl
=============================================================================
