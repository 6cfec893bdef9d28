---------------------------- MODULE PasswordReset ----------------------------
(***************************************************************************)
(* AuthService over OtpService: forgotPassword creates the code of one     *)
(* address, and two endpoints spend it.  verify-otp does nothing else;     *)
(* reset-password goes on to hash the new password and to write it, in     *)
(* calls of their own, after the code is gone.                             *)
(***************************************************************************)
EXTENDS Otp, FiniteSets

VARIABLES
    use,            \* what a request in flight wants of its code: verify, or reset
    hashing,        \* resets whose code was accepted and whose password is not written yet
    changes,        \* history: passwords written since createOtp, up to 2
    settled         \* history: at createOtp no reset was on its way

resetVars == <<use, hashing, changes, settled>>
allVars == <<vars, resetVars>>

-----------------------------------------------------------------------------
\* The user is looked up, the code stored, then mailed; the mail may fail and the code stays.
ForgotPassword(code) ==
    /\ CreateOtp(code)
    /\ changes' = 0
    /\ settled' = (hashing = {})
    /\ UNCHANGED <<use, hashing>>

\* The endpoints verify-otp and reset-password: both begin with otpService.verifyOtp.
Ask(r, otp, purpose) ==
    /\ r \notin hashing
    /\ Get(r, otp)
    /\ use' = [use EXCEPT ![r] = IF pc'[r] = "idle" THEN "verify" ELSE purpose]
    /\ UNCHANGED <<hashing, changes, settled>>

VerifyEndpoint(r, otp) == Ask(r, otp, "verify")

\* Mutant: resetPassword does not wait for verifyOtp's answer.
MutNotAwaited(r, otp) ==
    /\ r \notin hashing
    /\ Get(r, otp)
    /\ use' = [use EXCEPT ![r] = "verify"]
    /\ hashing' = hashing \cup {r}
    /\ UNCHANGED <<changes, settled>>

ResetPassword(r, otp) == Ask(r, otp, "reset")

\* verifyOtp throws: both endpoints answer with the error.
Refused(r) ==
    /\ DropLocked(r) \/ CountAttempt(r) \/ CallFails(r)
    /\ use' = [use EXCEPT ![r] = "verify"]
    /\ UNCHANGED <<hashing, changes, settled>>

\* verifyOtp returns true: verify-otp answers, reset-password hashes.
CodeAccepted(r) ==
    /\ Accept(r)
    /\ hashing' = IF use[r] = "reset" THEN hashing \cup {r} ELSE hashing
    /\ use' = [use EXCEPT ![r] = "verify"]
    /\ UNCHANGED <<changes, settled>>

\* user.update, after bcrypt.
WritePassword(r) ==
    /\ r \in hashing
    /\ hashing' = hashing \ {r}
    /\ changes' = IF changes = 2 THEN 2 ELSE changes + 1
    /\ UNCHANGED <<vars, use, settled>>

\* The update rejects: the code is spent and the password is the old one.
WriteFails(r) ==
    /\ r \in hashing
    /\ hashing' = hashing \ {r}
    /\ UNCHANGED <<vars, use, changes, settled>>

-----------------------------------------------------------------------------
ResetInit ==
    /\ Init
    /\ use = [r \in Requests |-> "verify"]
    /\ hashing = {} /\ changes = 0 /\ settled = TRUE

ResetNext ==
    \/ \E code \in Codes : ForgotPassword(code)
    \/ \E r \in Requests :
        \/ \E otp \in Codes : VerifyEndpoint(r, otp) \/ ResetPassword(r, otp)
        \/ Refused(r) \/ CodeAccepted(r) \/ WritePassword(r) \/ WriteFails(r)
    \/ (DeleteOtp \/ Tick) /\ UNCHANGED resetVars

ResetSpec == ResetInit /\ [][ResetNext]_allVars

-----------------------------------------------------------------------------
ResetTypeOK ==
    /\ use \in [Requests -> {"verify", "reset"}]
    /\ hashing \subseteq Requests
    /\ changes \in 0..2 /\ settled \in BOOLEAN

\* Requests one at a time: a code pays for one change of the password and no more, counting
\* the changes still on their way; one spent at verify-otp, or by a reset whose write
\* failed, pays for none.
CodePaysOneChange ==
    serial /\ settled => changes + Cardinality(hashing) <= accepted
=============================================================================
