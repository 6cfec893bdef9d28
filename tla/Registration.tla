---------------------------- MODULE Registration ----------------------------
(***************************************************************************)
(* Two ways to an account under one address: register, which looks the     *)
(* address up, hashes, inserts, stores a code and queues the mail; and     *)
(* oauthLogin, which looks it up and inserts.  Nothing but the unique      *)
(* index on the address keeps two of them apart.                           *)
(***************************************************************************)
EXTENDS FiniteSets

CONSTANTS
    Applicants,     \* calls of register, each made once
    OauthLogins,    \* calls of oauthLogin, each made once
    NoAccount       \* also: no code

ASSUME RegistrationConstants ==
    /\ NoAccount \notin Applicants \cup OauthLogins /\ Applicants \cap OauthLogins = {}

VARIABLES
    account,        \* the call that inserted the row of the address
    isDeleted,      \* the row is soft-deleted; it still holds the address
    verifyCode,     \* the call whose code the key of the address and purpose holds
    outbox,         \* calls whose code the mail queue has
    stage           \* where each call is, or how it ended

registrationVars == <<account, isDeleted, verifyCode, outbox, stage>>

Calls == Applicants \cup OauthLogins
Goes(c, to) == stage' = [stage EXCEPT ![c] = to]

-----------------------------------------------------------------------------
(* register *)

\* "Email already registered" also when the row is a deleted one; else bcrypt.
FindEmail(r) ==
    /\ stage[r] = "begin"
    /\ Goes(r, IF account = NoAccount THEN "hashing" ELSE "refused")
    /\ UNCHANGED <<account, isDeleted, verifyCode, outbox>>

\* Mutant: the code is stored before the row is inserted.
MutCodeBeforeRow(r) ==
    /\ stage[r] = "hashing"
    /\ verifyCode' = r
    /\ IF account = NoAccount
       THEN account' = r /\ isDeleted' = FALSE /\ Goes(r, "inserted")
       ELSE Goes(r, "failed") /\ UNCHANGED <<account, isDeleted>>
    /\ UNCHANGED outbox

\* Whoever comes second fails on the unique index.
InsertUser(r) ==
    /\ stage[r] = "hashing"
    /\ IF account = NoAccount
       THEN account' = r /\ isDeleted' = FALSE /\ Goes(r, "inserted")
       ELSE Goes(r, "failed") /\ UNCHANGED <<account, isDeleted>>
    /\ UNCHANGED <<verifyCode, outbox>>

StoreCode(r) ==
    /\ stage[r] = "inserted"
    /\ verifyCode' = r
    /\ Goes(r, "coded")
    /\ UNCHANGED <<account, isDeleted, outbox>>

\* sendOtpEmail: a job in the mail queue; then the answer.
QueueMail(r) ==
    /\ stage[r] = "coded"
    /\ outbox' = outbox \cup {r}
    /\ Goes(r, "registered")
    /\ UNCHANGED <<account, isDeleted, verifyCode>>

\* A call rejects, applied or not: what is written stays, and no second attempt passes the
\* lookup once there is a row.
RegisterFails(r) ==
    /\ stage[r] \in {"hashing", "inserted", "coded"}
    /\ \/ UNCHANGED <<account, isDeleted, verifyCode, outbox>>
       \/ /\ stage[r] = "hashing" /\ account = NoAccount
          /\ account' = r /\ isDeleted' = FALSE /\ UNCHANGED <<verifyCode, outbox>>
       \/ stage[r] = "inserted" /\ verifyCode' = r /\ UNCHANGED <<account, isDeleted, outbox>>
       \/ /\ stage[r] = "coded" /\ outbox' = outbox \cup {r}
          /\ UNCHANGED <<account, isDeleted, verifyCode>>
    /\ Goes(r, "failed")

Register(r) ==
    FindEmail(r) \/ InsertUser(r) \/ StoreCode(r) \/ QueueMail(r) \/ RegisterFails(r)

-----------------------------------------------------------------------------
(* oauthLogin, once the provider's token is verified. *)

\* A row, however it came about, is logged in to unless it is deleted; without one a role is
\* needed.
FindOrRefuse(o, role) ==
    /\ stage[o] = "begin"
    /\ Goes(o, IF account # NoAccount THEN IF isDeleted THEN "refused" ELSE "tokens"
               ELSE IF role THEN "creating" ELSE "refused")
    /\ UNCHANGED <<account, isDeleted, verifyCode, outbox>>

CreateOauthUser(o) ==
    /\ stage[o] = "creating"
    /\ IF account = NoAccount
       THEN account' = o /\ isDeleted' = FALSE /\ Goes(o, "tokens")
       ELSE Goes(o, "failed") /\ UNCHANGED <<account, isDeleted>>
    /\ UNCHANGED <<verifyCode, outbox>>

OauthLogin(o) == (\E role \in BOOLEAN : FindOrRefuse(o, role)) \/ CreateOauthUser(o)

-----------------------------------------------------------------------------
\* The code is spent at verify-otp, locked after too many guesses, or runs out.
CodeGone ==
    /\ verifyCode # NoAccount /\ verifyCode' = NoAccount
    /\ UNCHANGED <<account, isDeleted, outbox, stage>>

\* The row is marked deleted (by hand: the service reads the mark and never sets it).
SoftDelete ==
    /\ account # NoAccount /\ isDeleted' = TRUE
    /\ UNCHANGED <<account, verifyCode, outbox, stage>>

RegistrationInit ==
    /\ account = NoAccount /\ isDeleted = FALSE /\ verifyCode = NoAccount /\ outbox = {}
    /\ stage = [c \in Calls |-> "begin"]

RegistrationNext ==
    \/ \E r \in Applicants : Register(r)
    \/ \E o \in OauthLogins : OauthLogin(o)
    \/ CodeGone \/ SoftDelete

RegistrationSpec == RegistrationInit /\ [][RegistrationNext]_registrationVars

-----------------------------------------------------------------------------
\* Whatever registrations and logins race for the address: who is told that he is registered
\* has the account under the name and password he gave, and his code is mailed; the code that
\* the address can be verified with is never that of a call that lost; and an account
\* inserted by register is without a mailed code only while the call runs or because it
\* failed halfway.
RegisteredOwnsAccount ==
    /\ \A r \in Applicants : stage[r] = "registered" => account = r /\ r \in outbox
    /\ verifyCode # NoAccount => account = verifyCode
    /\ outbox \subseteq {account}
    /\ account \in Applicants \ outbox => stage[account] \in {"inserted", "coded", "failed"}
=============================================================================
