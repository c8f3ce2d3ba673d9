--------------------------- MODULE TeamCredential ---------------------------
(***************************************************************************)
(* The Linear grant of one Team, as several processes use it: the token    *)
(* provider (linear-oauth.mjs), the credential store with its promotion of *)
(* a predecessor's secret (linear-credential-store.mjs), the setup of a    *)
(* saved Team that renews it in the browser (linear-setup-command.mjs) and *)
(* the cleanup that removes it (local-setup-cleanup.mjs).                  *)
(*                                                                         *)
(* Linear honors a refresh token until it is exchanged; whether the        *)
(* exchange rotates it is a constant.  A token set is the pair of an       *)
(* access and a refresh token, both named by the number of the exchange    *)
(* they come from.                                                         *)
(***************************************************************************)
EXTENDS Naturals

CONSTANTS
    Gateways,       \* processes that hold the gateway lock: gateway, foreground runner
    Doctors,        \* doctor runs: with the team operation lock if they get it
    Readers,        \* MCP planning tools: neither lock, no refresh
    Setups,         \* setups of the Team
    Cleaners,       \* uninstall or reset
    Rotates,        \* an exchange replaces the refresh token
    MaxTokens,      \* bound: token sets issued
    MaxFaults,      \* bound: crashes and lost answers
    Nothing         \* no token set, no client

Clients == Gateways \cup Doctors \cup Readers \cup Setups \cup Cleaners

VARIABLES
    secret,     \* the Team's token set in the credential store
    prior,      \* a predecessor's, to be promoted
    lock,       \* who has the credential promotion lock
    pc,         \* client -> where it is
    cached,     \* client -> cachedTokenSet (and pendingTokenSet) of its provider
    observed,   \* client -> observedStoredTokenSet
    checked,    \* client -> cleanupChecked of its store
    full,       \* client -> it may refresh and promote
    attempt,    \* client -> the attempt of a setup
    honored,    \* the refresh tokens Linear takes
    expired,    \* the access tokens that have expired
    issued,     \* how many token sets Linear has issued
    faults,
    dropped     \* history: why a new refresh token was not stored

provider == <<cached, observed, checked, full, attempt>>
linear == <<honored, expired, issued>>
history == <<faults, dropped>>
vars == <<secret, prior, lock, pc, provider, linear, history>>

ASSUME RoleAssumption ==
    /\ Gateways \cap (Doctors \cup Readers \cup Setups \cup Cleaners) = {}
    /\ Doctors \cap (Readers \cup Setups \cup Cleaners) = {}
    /\ Readers \cap (Setups \cup Cleaners) = {}
    /\ Setups \cap Cleaners = {}
ASSUME BoundAssumption ==
    MaxTokens \in Nat /\ MaxFaults \in Nat /\ Rotates \in BOOLEAN

Numbers == 0..MaxTokens
TokenSets == [access : Numbers, refresh : Numbers]

ASSUME NothingAssumption == Nothing \notin TokenSets /\ Nothing \notin Clients

\* With the credential lock, and without.
Locked == {"read", "promoted", "replace", "delete", "wipe", "wiped"}
Points == {"off", "ready", "failed", "refresh", "browser", "verify", "pending", "commit"} \cup Locked
Reasons == {"crash", "answer", "busy", "setup"}

TypeOK ==
    /\ secret \in TokenSets \cup {Nothing} /\ prior \in TokenSets \cup {Nothing}
    /\ lock \in Clients \cup {Nothing}
    /\ pc \in [Clients -> Points]
    /\ cached \in [Clients -> TokenSets \cup {Nothing}]
    /\ observed \in [Clients -> TokenSets \cup {Nothing}]
    /\ checked \in [Clients -> BOOLEAN] /\ full \in [Clients -> BOOLEAN]
    /\ attempt \in [Clients -> 1..3]
    /\ honored \subseteq Numbers /\ expired \subseteq Numbers /\ issued \in Numbers
    /\ faults \in 0..MaxFaults /\ dropped \subseteq Reasons

First == [access |-> 0, refresh |-> 0]

\* The Team has a grant, of this version or (also) of a predecessor.
Init ==
    /\ secret \in {First, Nothing} /\ prior \in {First, Nothing}
    /\ secret = Nothing => prior = First
    /\ lock = Nothing
    /\ pc = [c \in Clients |-> "off"]
    /\ cached = [c \in Clients |-> Nothing] /\ observed = [c \in Clients |-> Nothing]
    /\ checked = [c \in Clients |-> FALSE] /\ full = [c \in Clients |-> FALSE]
    /\ attempt = [c \in Clients |-> 1]
    /\ honored = {0} /\ expired = {} /\ issued = 0
    /\ faults = 0 /\ dropped = {}

-----------------------------------------------------------------------------
At(c, l) == pc[c] = l
Goto(c, l) == pc' = [pc EXCEPT ![c] = l]

\* tokenSetHasUsableAccessToken
Usable(ts) == ts # Nothing /\ ts.access \notin expired

\* allowBrowserAuth and deferTokenPersistence of a setup of a complete Team.
Browser(c) == c \in Setups /\ attempt[c] > 1

\* The cross-process locks a client holds for as long as it runs.
Locks(c) ==
    CASE c \in Gateways -> {"gateway"}
      [] c \in Doctors -> {"operation"}
      [] c \in Setups -> {"setup"}
      [] c \in Cleaners -> {"gateway", "operation", "setup"}
      [] OTHER -> {}

Running(c) == ~At(c, "off")
Free(c) == \A d \in Clients \ {c} : Running(d) /\ (d \in Doctors => full[d]) => Locks(c) \cap Locks(d) = {}

\* A new provider: of a process, or of an attempt of a setup.
Forget(c) ==
    /\ cached' = [cached EXCEPT ![c] = Nothing]
    /\ observed' = [observed EXCEPT ![c] = Nothing]

\* The process ends, and with it its provider and its store.
Leave(c) ==
    /\ Goto(c, "off") /\ Forget(c)
    /\ checked' = [checked EXCEPT ![c] = FALSE]
    /\ full' = [full EXCEPT ![c] = FALSE]
    /\ attempt' = [attempt EXCEPT ![c] = 1]

\* Fault: the attempts of a setup are not counted.
NextAttemptAlways(c) == attempt' = [attempt EXCEPT ![c] = @ + 1]

\* A setup goes on with the provider of its next attempt.
NextAttempt(c) == attempt[c] < 3 /\ attempt' = [attempt EXCEPT ![c] = @ + 1]

\* acquireExclusiveFileLock fails at once when another live process has the
\* lock; the lock of a dead one is taken over.
Locking(c, l) == lock = Nothing /\ lock' = c /\ Goto(c, l)
Unlocking(c, l) == lock' = Nothing /\ Goto(c, l)

-----------------------------------------------------------------------------
\* A process starts with its locks or not at all; a doctor without its lock
\* only reads.
Start(c) ==
    /\ At(c, "off")
    /\ Free(c) \/ c \in Doctors
    /\ full' = [full EXCEPT ![c] = Free(c)]
    /\ Goto(c, "ready")
    /\ UNCHANGED <<secret, prior, lock, cached, observed, checked, attempt, linear, history>>

\* Between two calls a process may end.
Stop(c) ==
    /\ pc[c] \in {"ready", "failed"}
    /\ Leave(c)
    /\ UNCHANGED <<secret, prior, lock, linear, history>>

\* resolveToken: without a usable cached token the store is read.
Resolve(c) ==
    /\ At(c, "ready") /\ c \notin Cleaners /\ ~Usable(cached[c])
    /\ Locking(c, "read")
    /\ UNCHANGED <<secret, prior, provider, linear, history>>

\* Fault: inFlightToken keeps the failed call, and answers every later one.
FailedForGood(c) == "failed"

\* A call that failed: a setup has another attempt, the others another call.
Failed(c) == IF c \in Setups THEN "failed" ELSE "ready"

\* A call is over; only a setup has a use for what it observed (clear).
Over(c) == observed' = [observed EXCEPT ![c] = IF c \in Setups THEN @ ELSE Nothing]

\* With what the store returned a call ends, or goes on to Linear or to the
\* person.
After(c, ts) ==
    CASE Usable(ts) -> IF c \in Setups THEN "verify" ELSE "ready"
      [] ts # Nothing /\ ~Usable(ts) /\ full[c] /\ c \notin Readers -> "refresh"
      [] ts = Nothing /\ Browser(c) -> "browser"
      [] OTHER -> Failed(c)

\* It is remembered, and used when it is fresh.
Found(c, ts) ==
    /\ observed' = [observed EXCEPT ![c] = IF After(c, ts) = "ready" THEN Nothing ELSE ts]
    /\ cached' = [cached EXCEPT ![c] = IF Usable(ts) THEN ts ELSE @]

\* promoteLegacyOnRead
Promotes(c) == c \in Doctors => full[c]

\* Fault: a predecessor's copy is never cleaned away.
CleanDuplicatesNever(c) == UNCHANGED prior

\* cleanSafeLegacyDuplicates, once per store.
CleanDuplicates(c) ==
    prior' = IF Promotes(c) /\ ~checked[c] /\ prior = secret THEN Nothing ELSE prior

\* readTokenSet
ReadTokenSet(c) ==
    /\ At(c, "read")
    /\ secret # Nothing \/ prior = Nothing \/ ~Promotes(c)
    /\ IF secret # Nothing
         THEN CleanDuplicates(c) /\ checked' = [checked EXCEPT ![c] = @ \/ Promotes(c)]
         ELSE UNCHANGED <<prior, checked>>
    /\ Found(c, secret)
    /\ Unlocking(c, After(c, secret))
    /\ UNCHANGED <<secret, full, attempt, linear, history>>

\* migrateLegacyCredentialForRead: the predecessor's secret is written to its
\* new place ...
Promote(c) ==
    /\ At(c, "read") /\ secret = Nothing /\ prior # Nothing /\ Promotes(c)
    /\ secret' = prior
    /\ Goto(c, "promoted")
    /\ UNCHANGED <<prior, lock, provider, linear, history>>

\* ... and deleted at the old one.
Promoted(c) ==
    /\ At(c, "promoted")
    /\ prior' = Nothing
    /\ checked' = [checked EXCEPT ![c] = TRUE]
    /\ Found(c, secret)
    /\ Unlocking(c, After(c, secret))
    /\ UNCHANGED <<secret, full, attempt, linear, history>>

-----------------------------------------------------------------------------
Issue(rotated) ==
    /\ issued < MaxTokens
    /\ issued' = issued + 1
    /\ honored' = rotated
    /\ UNCHANGED expired

Exchanged(c) == [access |-> issued + 1, refresh |-> IF Rotates THEN issued + 1 ELSE observed[c].refresh]

\* refreshOAuthToken: the new token set is used at once, and stored at once
\* unless the persistence is deferred.
RefreshOAuthToken(c) ==
    /\ At(c, "refresh") /\ observed[c].refresh \in honored
    /\ Issue((honored \ {observed[c].refresh}) \cup {Exchanged(c).refresh})
    /\ cached' = [cached EXCEPT ![c] = Exchanged(c)]
    /\ Goto(c, IF Browser(c) THEN "pending" ELSE "commit")
    /\ UNCHANGED <<secret, prior, lock, observed, checked, full, attempt, history>>

\* The request timed out after Linear had answered it.
AnswerLost(c) ==
    /\ faults < MaxFaults /\ faults' = faults + 1
    /\ At(c, "refresh") /\ observed[c].refresh \in honored
    /\ Issue((honored \ {observed[c].refresh}) \cup {Exchanged(c).refresh})
    /\ dropped' = dropped \cup {"answer"}
    /\ Goto(c, Failed(c)) /\ Over(c)
    /\ UNCHANGED <<secret, prior, lock, cached, checked, full, attempt>>

\* Linear refused, or was not reached.
RefreshFailed(c) ==
    /\ At(c, "refresh")
    /\ Goto(c, Failed(c)) /\ Over(c)
    /\ IF observed[c].refresh \in honored THEN faults < MaxFaults /\ faults' = faults + 1 ELSE UNCHANGED faults
    /\ UNCHANGED <<secret, prior, lock, cached, checked, full, attempt, linear, dropped>>

\* authorizeWithBrowser: the person grants anew, or does not.
Authorize(c) ==
    /\ At(c, "browser")
    /\ Issue(honored \cup {issued + 1})
    /\ cached' = [cached EXCEPT ![c] = [access |-> issued + 1, refresh |-> issued + 1]]
    /\ Goto(c, "pending")
    /\ UNCHANGED <<secret, prior, lock, observed, checked, full, attempt, history>>

NotAuthorized(c) ==
    /\ At(c, "browser")
    /\ Leave(c)
    /\ UNCHANGED <<secret, prior, lock, linear, history>>

\* createLinearOAuthWaitEscape: the person has the browser reopened.
Reopen(c) ==
    /\ At(c, "browser")
    /\ NextAttempt(c) /\ Goto(c, "ready") /\ Forget(c)
    /\ UNCHANGED <<secret, prior, lock, checked, full, linear, history>>

-----------------------------------------------------------------------------
\* A refresh token that Linear has issued for the stored one is only here.
Successor(c) ==
    /\ pc[c] \in {"commit", "pending", "replace"}
    /\ observed[c] # Nothing /\ cached[c] # Nothing

Dropping(c, reason) == dropped' = IF Successor(c) THEN dropped \cup {reason} ELSE dropped

\* commitResolvedTokenSet begins.
Commit(c) ==
    /\ At(c, "commit")
    /\ Locking(c, "replace")
    /\ UNCHANGED <<secret, prior, provider, linear, history>>

\* The lock is with another process: the call fails, the cached token stays.
CommitBusy(c) ==
    /\ At(c, "commit") /\ lock # Nothing
    /\ IF c \in Setups
         THEN Leave(c)
         ELSE Goto(c, "ready") /\ Over(c) /\ UNCHANGED <<cached, checked, full, attempt>>
    /\ Dropping(c, "busy")
    /\ UNCHANGED <<secret, prior, lock, linear, faults>>

\* Fault: the stored token set is replaced whatever it is.
MatchesAnything(c) == TRUE

\* Compare and replace, or write if absent.
Matches(c) == secret = observed[c] /\ (secret = Nothing => prior = Nothing)

\* What the provider makes of the answer: the token is stored, and a setup has
\* it verified if that is not done ...
Written(c) ==
    IF Browser(c) THEN Leave(c)
    ELSE /\ Goto(c, IF c \in Setups THEN "verify" ELSE "ready")
         /\ observed' = [observed EXCEPT ![c] = IF c \in Setups THEN cached[c] ELSE Nothing]
         /\ UNCHANGED <<cached, checked, full, attempt>>

\* ... or it is thrown away.
Conflict(c) ==
    IF c \in Setups THEN Leave(c)
    ELSE Goto(c, "ready") /\ Forget(c) /\ UNCHANGED <<checked, full, attempt>>

\* replaceTokenSetIfEqual and writeTokenSetIfAbsentOrEqual.  The latter
\* promotes a predecessor's secret before it reports the conflict.
Replace(c) ==
    /\ At(c, "replace") /\ lock' = Nothing
    /\ \/ /\ Matches(c)
          /\ secret' = cached[c] /\ UNCHANGED prior
          /\ Written(c)
       \/ /\ ~Matches(c)
          /\ IF observed[c] = Nothing /\ secret = Nothing
               THEN secret' = prior /\ prior' = Nothing
               ELSE UNCHANGED <<secret, prior>>
          /\ Conflict(c)
    /\ UNCHANGED <<linear, history>>

-----------------------------------------------------------------------------
\* verifyWorkspaceGrantForSelection, for a setup: the token is what was asked
\* for; a pending one is now stored.
Verified(c) ==
    /\ c \in Setups /\ pc[c] \in {"verify", "pending"}
    /\ IF At(c, "pending") THEN Goto(c, "commit") /\ UNCHANGED provider ELSE Leave(c)
    /\ UNCHANGED <<secret, prior, lock, linear, history>>

\* It is not, or Linear fails, or the lock is taken when the stored one is to
\* be cleared: the setup ends, and what is pending is gone.
GiveUp(c) ==
    /\ c \in Setups /\ pc[c] \in {"verify", "pending"}
    /\ Leave(c)
    /\ Dropping(c, "setup")
    /\ UNCHANGED <<secret, prior, lock, linear, faults>>

\* The stored authorization is missing, refused or of the wrong workspace:
\* clear() and another attempt, with the browser.  A stored one of the wrong
\* workspace is cleared in the last attempt as well.  The provider forgets
\* before the store is asked to delete what was observed.
Clear(c) ==
    /\ c \in Setups
    /\ \/ pc[c] \in {"failed", "verify"} /\ attempt[c] < 3
       \/ pc[c] \in {"verify", "pending"} /\ observed[c] # Nothing
    /\ cached' = [cached EXCEPT ![c] = Nothing]
    /\ Dropping(c, "setup")
    /\ IF observed[c] = Nothing
         THEN NextAttempt(c) /\ Goto(c, "ready") /\ UNCHANGED lock
         ELSE Locking(c, "delete") /\ UNCHANGED attempt
    /\ UNCHANGED <<secret, prior, observed, checked, full, linear, faults>>

\* deleteTokenSetIfEqual; the next attempt has a new provider, and after the
\* last one the setup ends (workspace_authorization_retries_exhausted).
DeleteTokenSetIfEqual(c) ==
    /\ At(c, "delete")
    /\ secret' = IF secret = observed[c] THEN Nothing ELSE secret
    /\ lock' = Nothing
    /\ \/ /\ NextAttempt(c) /\ Goto(c, "ready") /\ Forget(c)
          /\ UNCHANGED <<checked, full>>
       \/ attempt[c] = 3 /\ Leave(c)
    /\ UNCHANGED <<prior, linear, history>>

-----------------------------------------------------------------------------
\* deleteTokenSet of the cleanup: the secret, then the predecessor's.
DeleteTokenSet(c) ==
    /\ At(c, "ready") /\ c \in Cleaners
    /\ Locking(c, "wipe")
    /\ UNCHANGED <<secret, prior, provider, linear, history>>

Wipe(c) ==
    /\ At(c, "wipe")
    /\ secret' = Nothing
    /\ Goto(c, "wiped")
    /\ UNCHANGED <<prior, lock, provider, linear, history>>

Wiped(c) ==
    /\ At(c, "wiped")
    /\ prior' = Nothing
    /\ Leave(c) /\ lock' = Nothing
    /\ UNCHANGED <<secret, linear, history>>

-----------------------------------------------------------------------------
Crash(c) ==
    /\ faults < MaxFaults /\ faults' = faults + 1
    /\ Running(c)
    /\ Leave(c)
    /\ lock' = IF lock = c THEN Nothing ELSE lock
    /\ Dropping(c, "crash")
    /\ UNCHANGED <<secret, prior, linear>>

Expire(a) ==
    /\ a \in 0..issued /\ a \notin expired
    /\ expired' = expired \cup {a}
    /\ UNCHANGED <<secret, prior, lock, pc, provider, honored, issued, history>>

Call(c) ==
    \/ Resolve(c) \/ ReadTokenSet(c) \/ Promote(c) \/ Promoted(c)
    \/ RefreshOAuthToken(c) \/ RefreshFailed(c)
    \/ Commit(c) \/ CommitBusy(c) \/ Replace(c)

Setup(c) ==
    \/ Authorize(c) \/ NotAuthorized(c) \/ Reopen(c)
    \/ Verified(c) \/ GiveUp(c) \/ Clear(c) \/ DeleteTokenSetIfEqual(c)

Cleanup(c) == DeleteTokenSet(c) \/ Wipe(c) \/ Wiped(c)

Next ==
    \/ \E c \in Clients :
          Start(c) \/ Stop(c) \/ Call(c) \/ Setup(c) \/ Cleanup(c) \/ AnswerLost(c) \/ Crash(c)
    \/ \E a \in Numbers : Expire(a)

Spec == Init /\ [][Next]_vars

\* Calls and setups that have begun go on, and a gateway's reading of the
\* store does not collide with another one for ever.
FairSpec ==
    /\ Spec
    /\ \A c \in Clients : WF_vars(Call(c)) /\ WF_vars(Setup(c)) /\ WF_vars(Wipe(c) \/ Wiped(c))
    /\ \A g \in Gateways : SF_vars(Resolve(g))

-----------------------------------------------------------------------------
\* What the next reader of the store gets.
Stored == IF secret # Nothing THEN secret ELSE prior

Dead(ts) == ts # Nothing /\ ts.refresh \notin honored

InHand == \E c \in Clients : Successor(c) /\ observed[c] = Stored

\* A refresh token that Linear has taken in exchange is replaced in the store:
\* as long as no process dies, no answer is lost, no setup ends with a deferred
\* token and the lock is free, the stored grant is one that works, or whoever
\* has its successor is about to store it.
GrantIsKept == Dead(Stored) => InHand \/ dropped # {}

\* "Linear OAuth credential is being updated; retry after it finishes": that
\* the lock was taken costs nobody the grant.
BusyIsHarmless == Dead(Stored) => InHand \/ dropped \ {"busy"} # {}

\* A refresh never puts an older token set over a newer one, such as one that
\* a person has just granted.
NewerStays ==
    [][secret # Nothing /\ secret' # Nothing => secret'.access >= secret.access]_vars

\* A grant that was removed, by a cleanup or a setup, comes back only through
\* the browser, whatever refresh was under way.
OnlyPeopleGrant ==
    [][Stored = Nothing /\ Stored' # Nothing =>
          \E s \in Setups : attempt[s] > 1 /\ At(s, "replace") /\ observed[s] = Nothing]_vars

\* A gateway gets a token it can use, as long as the Team has a grant and none
\* was dropped.
GatewayIsServed ==
    \A g \in Gateways :
        (Running(g) /\ ~Usable(cached[g]))
            ~> (Usable(cached[g]) \/ ~Running(g) \/ Stored = Nothing
                \/ dropped # {} \/ issued = MaxTokens)
=============================================================================
