--------------------------- MODULE StripeAccounts ---------------------------
(***************************************************************************)
(* StripeAccountService for one user: a connected account is created at    *)
(* Stripe, then stored, then completed by the return from onboarding,      *)
(* which writes the account's row and then the user's.  No index is        *)
(* unique.                                                                 *)
(***************************************************************************)
EXTENDS Naturals

CONSTANTS
    AccountRequests,
    MaxAccounts     \* bound: accounts at Stripe

ASSUME AccountsConstants == MaxAccounts \in Nat

VARIABLES
    accounts,       \* accounts at Stripe: ids are 1..accounts
    stored,         \* accounts with a row
    completed,      \* rows with isCompleted
    linked,         \* the user's stripeConnectedAccount, 0 for none
    onboarding,     \* the next call of a request, "idle" when there is none
    account         \* the account it works on

accountVars == <<accounts, stored, completed, linked, onboarding, account>>

AccountIds == 1..MaxAccounts

Turn(q, call, a) ==
    /\ onboarding' = [onboarding EXCEPT ![q] = call]
    /\ account' = [account EXCEPT ![q] = a]

-----------------------------------------------------------------------------
\* createConnectedStripeAccount: who has a row gets its link, and nothing is written; so does
\* refreshAccountConnect.
CreateConnectedAccount(q) ==
    /\ onboarding[q] = "idle" /\ stored = {}
    /\ Turn(q, "create", 0)
    /\ UNCHANGED <<accounts, stored, completed, linked>>

CreateAtStripe(q) ==
    /\ onboarding[q] = "create" /\ accounts < MaxAccounts
    /\ accounts' = accounts + 1
    /\ Turn(q, "save", accounts + 1)
    /\ UNCHANGED <<stored, completed, linked>>

SaveAccount(q) ==
    /\ onboarding[q] = "save"
    /\ stored' = stored \cup {account[q]}
    /\ Turn(q, "idle", 0)
    /\ UNCHANGED <<accounts, completed, linked>>

\* onConnectedStripeAccountSuccess, for an account that has a row.
AccountSuccess(q, a) ==
    /\ onboarding[q] = "idle" /\ a \in stored
    /\ Turn(q, "complete", a)
    /\ UNCHANGED <<accounts, stored, completed, linked>>

\* Mutant: the user is linked as the onboarding returns, beside the row.
MutLinksFirst(q) ==
    /\ onboarding[q] = "complete"
    /\ linked' = account[q]
    /\ Turn(q, "link", account[q])
    /\ UNCHANGED <<accounts, stored, completed>>

MarkCompleted(q) ==
    /\ onboarding[q] = "complete"
    /\ completed' = completed \cup {account[q]}
    /\ Turn(q, "link", account[q])
    /\ UNCHANGED <<accounts, stored, linked>>

LinkUser(q) ==
    /\ onboarding[q] = "link"
    /\ linked' = account[q]
    /\ Turn(q, "idle", 0)
    /\ UNCHANGED <<accounts, stored, completed>>

\* A call rejects, or the process dies: an account may stay at Stripe without a row, a
\* completed row without a linked user.
AccountCallFails(q) ==
    /\ onboarding[q] # "idle"
    /\ Turn(q, "idle", 0)
    /\ UNCHANGED <<accounts, stored, completed, linked>>

-----------------------------------------------------------------------------
AccountsInit ==
    /\ accounts = 0 /\ stored = {} /\ completed = {} /\ linked = 0
    /\ onboarding = [q \in AccountRequests |-> "idle"]
    /\ account = [q \in AccountRequests |-> 0]

AccountsNext ==
    \E q \in AccountRequests :
        \/ CreateConnectedAccount(q) \/ CreateAtStripe(q) \/ SaveAccount(q)
        \/ (\E a \in AccountIds : AccountSuccess(q, a))
        \/ MarkCompleted(q) \/ LinkUser(q) \/ AccountCallFails(q)

AccountsSpec == AccountsInit /\ [][AccountsNext]_accountVars

-----------------------------------------------------------------------------
AccountsTypeOK ==
    /\ accounts \in 0..MaxAccounts
    /\ stored \subseteq 1..accounts /\ completed \subseteq 1..accounts
    /\ linked \in 0..accounts
    /\ onboarding \in [AccountRequests -> {"idle", "create", "save", "complete", "link"}]
    /\ account \in [AccountRequests -> 0..accounts]

\* The account a user is paid to has a row that says its onboarding is complete, whatever
\* requests create, store and complete meanwhile and wherever one of them stops.
LinkedIsCompleted == linked # 0 => linked \in stored \cap completed
=============================================================================
