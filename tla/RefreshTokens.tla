---------------------------- MODULE RefreshTokens ----------------------------
(***************************************************************************)
(* The refresh tokens of one user: AuthService issues them at login,       *)
(* rotates them in refreshToken and revokes them at logout through a       *)
(* blacklist in Redis.  A token is a JWT over the user and the second it   *)
(* was signed in, nothing else, so that second stands for the token: two   *)
(* tokens signed within one second are the same string.                    *)
(***************************************************************************)
EXTENDS Integers

CONSTANTS
    Requests,       \* bound: POST /auth/refresh requests, each one used once
    Life,           \* expiresIn of a refresh token
    BlacklistTtl,   \* TOKEN_BLACKLIST_TTL
    MaxTime,        \* bound: the clock stops here
    MaxFaults,      \* bound: calls that reject
    NoToken

\* Both are seven days in the code.
ASSUME RefreshConstants ==
    /\ Life \in Nat \ {0} /\ BlacklistTtl \in Nat /\ MaxTime \in Nat /\ MaxFaults \in Nat
    /\ BlacklistTtl >= Life
    /\ NoToken \notin Int

VARIABLES
    now,
    issued,         \* tokens some response carried
    until,          \* when the blacklist entry of a token runs out; 0: never set
    deleted,        \* the user has been soft deleted
    signingIn,      \* a login has read the user's row and not yet signed tokens
    pc, token, next,  \* a refresh request: where it is, its token, the token it signed
    faults,
    dead            \* history: the requests that began with a revoked token or after
                    \* the user was deleted

vars == <<now, issued, until, deleted, signingIn, pc, token, next, faults, dead>>

Times == 0..MaxTime

Blacklisted(t) == now < until[t]

Goto(r, l) == pc' = [pc EXCEPT ![r] = l]

Fault == faults < MaxFaults /\ faults' = faults + 1

-----------------------------------------------------------------------------
(* Sessions begin and end *)

\* login and oauthLogin: the row is read first, the tokens are signed later, with no
\* second look at the row and none at the blacklist.
LoginFindUser ==
    /\ ~deleted /\ ~signingIn
    /\ signingIn' = TRUE
    /\ UNCHANGED <<now, issued, until, deleted, pc, token, next, faults, dead>>

LoginSign ==
    /\ signingIn
    /\ signingIn' = FALSE
    /\ issued' = issued \cup {now}
    /\ UNCHANGED <<now, until, deleted, pc, token, next, faults, dead>>

\* Mutant: the blacklist entry runs out with the access token, not with the refresh token.
MutShortTtl(t) == until' = [until EXCEPT ![t] = now + 1]

BlacklistToken(t) == until' = [until EXCEPT ![t] = now + BlacklistTtl]

\* logout verifies nothing: any token the client still holds.
Logout(t) ==
    /\ t \in issued
    /\ BlacklistToken(t)
    /\ UNCHANGED <<now, issued, deleted, signingIn, pc, token, next, faults, dead>>

\* isDeleted is set on the row by something outside the service (no endpoint of src does):
\* login and refreshToken read it, and nobody revokes the tokens.
DeleteUser ==
    /\ ~deleted
    /\ deleted' = TRUE
    /\ UNCHANGED <<now, issued, until, signingIn, pc, token, next, faults, dead>>

-----------------------------------------------------------------------------
(* refreshToken *)

\* Mutant: the lookup only refuses a token that is not blacklisted any more.
MutLookupInverted(r, t) ==
    /\ pc[r] = "free" /\ t \in issued
    /\ token' = [token EXCEPT ![r] = t]
    /\ dead' = IF until[t] # 0 \/ deleted THEN dead \cup {r} ELSE dead
    /\ Goto(r, IF until[t] # 0 /\ ~Blacklisted(t) THEN "refused" ELSE "verify")
    /\ UNCHANGED <<now, issued, until, deleted, signingIn, next, faults>>

\* The blacklist lookup comes first.
CheckBlacklist(r, t) ==
    /\ pc[r] = "free" /\ t \in issued
    /\ token' = [token EXCEPT ![r] = t]
    /\ dead' = IF until[t] # 0 \/ deleted THEN dead \cup {r} ELSE dead
    /\ Goto(r, IF Blacklisted(t) THEN "refused" ELSE "verify")
    /\ UNCHANGED <<now, issued, until, deleted, signingIn, next, faults>>

Verify(r) ==
    /\ pc[r] = "verify"
    /\ Goto(r, IF now < token[r] + Life THEN "load" ELSE "refused")
    /\ UNCHANGED <<now, issued, until, deleted, signingIn, token, next, faults, dead>>

LoadUser(r) ==
    /\ pc[r] = "load"
    /\ Goto(r, IF deleted THEN "refused" ELSE "sign")
    /\ UNCHANGED <<now, issued, until, deleted, signingIn, token, next, faults, dead>>

GenerateTokens(r) ==
    /\ pc[r] = "sign"
    /\ next' = [next EXCEPT ![r] = now]
    /\ Goto(r, "retire")
    /\ UNCHANGED <<now, issued, until, deleted, signingIn, token, faults, dead>>

\* The old token goes on the blacklist and the new one to the client.
Retire(r) ==
    /\ pc[r] = "retire"
    /\ BlacklistToken(token[r])
    /\ issued' = issued \cup {next[r]}
    /\ Goto(r, "ok")
    /\ UNCHANGED <<now, deleted, signingIn, token, next, faults, dead>>

\* A rejected call is answered 401 (500 for the lookup); the SET may have been applied.
RefreshFails(r) ==
    /\ pc[r] \in {"verify", "load", "sign", "retire"}
    /\ Fault
    /\ \/ UNCHANGED until
       \/ pc[r] = "retire" /\ BlacklistToken(token[r])
    /\ Goto(r, "refused")
    /\ UNCHANGED <<now, issued, deleted, signingIn, token, next, dead>>

Tick ==
    /\ now < MaxTime
    /\ now' = now + 1
    /\ UNCHANGED <<issued, until, deleted, signingIn, pc, token, next, faults, dead>>

-----------------------------------------------------------------------------
Init ==
    /\ now = 0 /\ issued = {} /\ deleted = FALSE /\ signingIn = FALSE /\ faults = 0 /\ dead = {}
    /\ until = [t \in Times |-> 0]
    /\ pc = [r \in Requests |-> "free"]
    /\ token = [r \in Requests |-> NoToken]
    /\ next = [r \in Requests |-> NoToken]

RefreshToken(r) ==
    \/ \E t \in Times : CheckBlacklist(r, t)
    \/ Verify(r) \/ LoadUser(r) \/ GenerateTokens(r) \/ Retire(r) \/ RefreshFails(r)

Next ==
    \/ LoginFindUser \/ LoginSign \/ DeleteUser \/ Tick
    \/ \E t \in Times : Logout(t)
    \/ \E r \in Requests : RefreshToken(r)

Spec == Init /\ [][Next]_vars

-----------------------------------------------------------------------------
(* Properties *)

Pcs == {"free", "verify", "load", "sign", "retire", "ok", "refused"}

\* The type invariant of the token state.
TypeOK ==
    /\ now \in Times /\ issued \subseteq Times
    /\ deleted \in BOOLEAN /\ signingIn \in BOOLEAN
    /\ until \in [Times -> 0..MaxTime + BlacklistTtl]
    /\ pc \in [Requests -> Pcs]
    /\ token \in [Requests -> Times \cup {NoToken}]
    /\ next \in [Requests -> Times \cup {NoToken}]
    /\ faults \in 0..MaxFaults
    /\ dead \subseteq Requests

\* A token once revoked, by a logout or by a rotation, stays refused: its blacklist entry
\* never runs out before the token itself expires, also when it was set late.
RevokedStaysRevoked ==
    \A t \in Times : until[t] # 0 => Blacklisted(t) \/ now >= t + Life

\* So a refresh that begins after its token was revoked, or after the user was deleted,
\* is never answered with new tokens, though the blacklist, the expiry and the row are
\* looked at one after the other.
LateRefreshRefused ==
    \A r \in dead : pc[r] \in {"verify", "refused"} \/ (pc[r] = "load" /\ deleted)

\* Both together: once a token is revoked nothing is got for it any more, not later and not by
\* a request that races with the revocation's own life.
RevokedIsDead == RevokedStaysRevoked /\ LateRefreshRefused

\* "@returns New access token and refresh token" (auth.controller.ts:131): the token a
\* refresh hands out is another one than it revokes.
RefreshReturnsNewToken ==
    \A r \in Requests : pc[r] = "ok" => next[r] # token[r]
=============================================================================
