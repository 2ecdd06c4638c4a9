---------------------------- MODULE RefreshTokens ----------------------------
(***************************************************************************)
(* One user and the devices signed in as that user (auth.service.ts): a    *)
(* refresh presents the token the device holds and gets the next one,      *)
(* which replaces it.  Answers get lost, processes die and requests        *)
(* interleave at each await; an admin may deactivate the account.          *)
(*                                                                         *)
(* A token is known by when it was issued.  Passwords, signatures and      *)
(* hashes are left out: a login succeeds or does not, and a token that is  *)
(* presented is one that was issued.                                       *)
(***************************************************************************)
EXTENDS Integers, FiniteSets

CONSTANTS
    Devices,
    Refreshes,       \* requests of any device to refresh
    MaxIssued        \* the bound on the tokens issued

ASSUME TokenBound == MaxIssued \in Nat

VARIABLES
    isActive,        \* User.isActive
    token,           \* token[n], in the order of issue: whose it is and whether it is "live",
                     \* "revoked" or "expired" (and dropped by the TTL)
    holds,           \* the token each device presents, 0 for none
    refresh,         \* where each refresh stands, its device, and the tokens it presents and issues
    disturbed        \* history: the devices that lost an answer or asked twice at a time, or
                     \* whose token expired under a refresh

tokenVars == <<isActive, token, holds, refresh, disturbed>>

Issued == DOMAIN token
LastIssued == Cardinality(Issued)

TokensInit ==
    /\ isActive = TRUE
    /\ token = [n \in {} |-> [of |-> "", state |-> "live"]]
    /\ holds = [d \in Devices |-> 0]
    /\ refresh = [r \in Refreshes |-> [at |-> "idle", device |-> {}, presents |-> 0, issues |-> 0]]
    /\ disturbed = {}

\* issueTokenPair.
Issue(d) ==
    /\ LastIssued < MaxIssued
    /\ token' = [n \in Issued \cup {LastIssued + 1} |->
                    IF n \in Issued THEN token[n] ELSE [of |-> d, state |-> "live"]]

Running(r) == refresh[r].at \in {"find", "user", "issue", "revoke", "reply"}
RunningFor(d) == {r \in Refreshes : Running(r) /\ refresh[r].device = {d}}

Become(n, state) == token' = [token EXCEPT ![n].state = state]
MoveOn(r, place) == refresh' = [refresh EXCEPT ![r].at = place]

\* A sign-in on a device that holds no token, of an account that is active.
Login(d) ==
    /\ isActive /\ holds[d] = 0
    /\ Issue(d)
    /\ holds' = [holds EXCEPT ![d] = LastIssued + 1]
    /\ UNCHANGED <<isActive, refresh, disturbed>>

PresentToken(r, d) ==
    /\ refresh[r].at = "idle" /\ holds[d] # 0
    /\ refresh' = [refresh EXCEPT ![r] = [@ EXCEPT !.at = "find", !.device = {d}, !.presents = holds[d]]]
    /\ disturbed' = IF RunningFor(d) = {} THEN disturbed ELSE disturbed \cup {d}
    /\ UNCHANGED <<isActive, token, holds>>

\* The stored token is not there, revoked or expired: the device has to sign in again.
RefuseToken(r) ==
    /\ refresh[r].at = "find"
    /\ token[refresh[r].presents].state # "live"
    /\ MoveOn(r, "done")
    /\ holds' = [d \in Devices |->
                    IF refresh[r].device = {d} /\ holds[d] = refresh[r].presents THEN 0 ELSE holds[d]]
    /\ UNCHANGED <<isActive, token, disturbed>>

FindToken(r) ==
    /\ refresh[r].at = "find"
    /\ token[refresh[r].presents].state = "live"
    /\ MoveOn(r, "user")
    /\ UNCHANGED <<isActive, token, holds, disturbed>>

\* "Account is no longer active".
FindUser(r) ==
    /\ refresh[r].at = "user"
    /\ MoveOn(r, IF isActive THEN "issue" ELSE "done")
    /\ UNCHANGED <<isActive, token, holds, disturbed>>

IssueNext(r) ==
    /\ refresh[r].at = "issue"
    /\ \E d \in refresh[r].device : Issue(d)
    /\ refresh' = [refresh EXCEPT ![r].at = "revoke", ![r].issues = LastIssued + 1]
    /\ UNCHANGED <<isActive, holds, disturbed>>

\* Mutants (definitions named "...Mutant") are the code with one plausible mistake in
\* it, next to the definition they replace when a property is put to the test.
RevokeIssuedMutant(r) ==
    /\ refresh[r].at = "revoke"
    /\ Become(refresh[r].issues, "revoked")
    /\ MoveOn(r, "reply")
    /\ UNCHANGED <<isActive, holds, disturbed>>

\* stored.save(), of the document found before: it fails if the row has expired since.
RevokePresented(r) ==
    /\ refresh[r].at = "revoke"
    /\ IF token[refresh[r].presents].state = "expired"
       THEN /\ MoveOn(r, "failed")
            /\ disturbed' = disturbed \cup refresh[r].device
            /\ UNCHANGED token
       ELSE /\ MoveOn(r, "reply")
            /\ Become(refresh[r].presents, "revoked")
            /\ UNCHANGED disturbed
    /\ UNCHANGED <<isActive, holds>>

\* The device stores the new token.
Reply(r) ==
    /\ refresh[r].at = "reply"
    /\ holds' = [d \in Devices |-> IF refresh[r].device = {d} THEN refresh[r].issues ELSE holds[d]]
    /\ MoveOn(r, "done")
    /\ UNCHANGED <<isActive, token, disturbed>>

\* The answer is lost, or the process dies anywhere in the refresh.
LoseRefresh(r) ==
    /\ Running(r)
    /\ MoveOn(r, "lost")
    /\ disturbed' = disturbed \cup refresh[r].device
    /\ UNCHANGED <<isActive, token, holds>>

\* Only a live token is revoked; the device forgets it in any case.
Logout(d) ==
    /\ holds[d] # 0
    /\ IF token[holds[d]].state = "live" THEN Become(holds[d], "revoked") ELSE UNCHANGED token
    /\ holds' = [holds EXCEPT ![d] = 0]
    /\ disturbed' = IF RunningFor(d) = {} THEN disturbed ELSE disturbed \cup {d}
    /\ UNCHANGED <<isActive, refresh>>

\* The token's own expiry, and the TTL index.
ExpireToken(n) ==
    /\ token[n].state # "expired"
    /\ Become(n, "expired")
    /\ UNCHANGED <<isActive, holds, refresh, disturbed>>

SetUserStatus ==
    /\ isActive' = ~isActive
    /\ UNCHANGED <<token, holds, refresh, disturbed>>

TokensNext ==
    \/ \E d \in Devices : Login(d) \/ Logout(d) \/ \E r \in Refreshes : PresentToken(r, d)
    \/ \E r \in Refreshes :
        \/ RefuseToken(r) \/ FindToken(r) \/ FindUser(r) \/ IssueNext(r)
        \/ RevokePresented(r) \/ Reply(r) \/ LoseRefresh(r)
    \/ \E n \in Issued : ExpireToken(n)
    \/ SetUserStatus

TokensSpec == TokensInit /\ [][TokensNext]_tokenVars

-----------------------------------------------------------------------------

\* "The presented refresh token is single-use" (auth.service.ts, refresh), and the one that
\* replaces it works: between its requests a device holds its only live token, and none
\* once it is signed out - unless two of its requests ran at a time, an answer was lost,
\* or a token expired under a request: the token is looked up and revoked in two steps.
OneLiveTokenPerDevice ==
    \A d \in Devices \ disturbed :
        RunningFor(d) = {} =>
            LET live == {n \in Issued : token[n].of = d /\ token[n].state = "live"}
            IN  live \subseteq {holds[d]}
                /\ (holds[d] # 0 => token[holds[d]].state # "revoked")

\* And of the devices that were disturbed, whatever overlaps, is lost or expires between the
\* steps: a refresh leaves at most one live token behind that the device does not hold, and
\* the device is only left with a revoked one by a refresh whose answer it never got - no
\* order in which two of its answers arrive locks it out.
RefreshesLeaveOneBehindAtMost ==
    \A d \in Devices :
        RunningFor(d) = {} =>
            LET live == {n \in Issued : token[n].of = d /\ token[n].state = "live"}
                asked == {r \in Refreshes : refresh[r].device = {d}}
            IN  /\ Cardinality(live \ {holds[d]}) <= Cardinality({r \in asked : refresh[r].issues # 0})
                /\ holds[d] # 0 /\ token[holds[d]].state = "revoked" =>
                       \E r \in asked : refresh[r].at = "lost" /\ refresh[r].presents = holds[d]

=============================================================================
