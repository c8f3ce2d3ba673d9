----------------------- MODULE TeamCredentialProofs -----------------------
(***************************************************************************)
(* What TeamCredential guarantees for any processes, rotating or not, and  *)
(* any bounds on tokens and faults.                                        *)
(***************************************************************************)
EXTENDS TeamCredential, TLAPS

\* Clients between a stored token set and its successor, and those that have it.
Exchanging == {"refresh", "browser", "pending", "commit", "replace"}
Holding == {"pending", "commit", "replace"}

\* The credential promotion lock is with whoever is in the store.
LockKept == \A c \in Clients : (pc[c] \in Locked => lock = c) /\ (lock = c
       => pc[c] \in Locked)

\* A predecessor's secret is left only while the Team's is none or the same,
\* and nobody exchanges either.
PriorIsOld ==
    /\ prior # Nothing => prior = First /\ secret \in {Nothing, First} /\ 0 \in honored
    /\ \A c \in Clients : pc[c] \in Exchanging \/ checked[c] => prior = Nothing
    /\ \A c \in Clients : pc[c] = "promoted" => secret # Nothing

\* A refresh has read what it exchanges; without that only the browser helps.
Known ==
    \A c \in Clients :
        /\ pc[c] = "refresh" => observed[c] # Nothing
        /\ pc[c] = "browser" => Browser(c) /\ observed[c] = Nothing
        /\ pc[c] \in Holding => cached[c] # Nothing /\ (observed[c] = Nothing => Browser(c))

\* Tokens are numbered as they are issued, in pairs if Linear rotates them.
Genuine(ts) ==
    ts # Nothing => ts.access <= issued /\ ts.refresh <= issued /\ (Rotates
           => ts.access = ts.refresh)

Numbered ==
    /\ Genuine(secret) /\ Genuine(prior)
    /\ \A c \in Clients : Genuine(cached[c]) /\ Genuine(observed[c])

\* A token set that is to be stored works, and is newer than the stored one.
Newer ==
    \A c \in Clients : pc[c] \in Holding =>
        /\ cached[c].refresh \in honored
        /\ observed[c] # Nothing => cached[c].access > observed[c].access

\* Nobody else has a rotated token before it is stored.
Private ==
    Rotates => \A c \in Clients : pc[c] \in Holding =>
        /\ secret # Nothing => secret.refresh # cached[c].refresh
        /\ \A d \in Clients : observed[d] # Nothing
               => observed[d].refresh # cached[c].refresh
        /\ \A d \in Clients \ {c} : pc[d] \in Holding
               => cached[d].refresh # cached[c].refresh

IInv == TypeOK /\ LockKept /\ PriorIsOld /\ Known /\ Numbered /\ Newer /\ Private
       /\ GrantIsKept

-----------------------------------------------------------------------------
\* Where a call goes with what it read.
LEMMA AfterRead ==
    ASSUME NEW c \in Clients, NEW ts
    PROVE  /\ After(c, ts) \in {"verify", "ready", "refresh", "browser", "failed"}
           /\ After(c, ts) = "refresh" => ts # Nothing /\ full[c] /\ c \notin Readers
           /\ After(c, ts) = "browser" => ts = Nothing /\ Browser(c)
BY DEF After, Failed

\* What a process that ends leaves behind is typed.
LEMMA Leaving ==
    ASSUME TypeOK, NEW c \in Clients, Leave(c)
    PROVE  /\ pc' \in [Clients -> Points] /\ attempt' \in [Clients -> 1..3]
           /\ cached' \in [Clients -> TokenSets \cup {Nothing}]
           /\ observed' \in [Clients -> TokenSets \cup {Nothing}]
           /\ checked' \in [Clients -> BOOLEAN] /\ full' \in [Clients -> BOOLEAN]
BY DEF TypeOK, Leave, Forget, Goto, Points

\* Every step keeps the shape of the state.
LEMMA Typing == TypeOK /\ Known /\ [Next]_vars => TypeOK'
<1> SUFFICES ASSUME TypeOK, Known, [Next]_vars PROVE TypeOK'
  OBVIOUS
<1> USE BoundAssumption, NothingAssumption
    DEF TypeOK, Known, Points, Locked, Reasons, Numbers, TokenSets, Holding, Goto, At,
        provider, linear, history
<1>0. ASSUME NEW c \in Clients,
             Start(c) \/ Stop(c) \/ Call(c) \/ Setup(c) \/ Cleanup(c) \/ AnswerLost(c)
                    \/ Crash(c)
      PROVE  TypeOK'
  <2>1. CASE Start(c)
    <3>1. Free(c) \in BOOLEAN
      BY DEF Free
    <3>2. full' \in [Clients -> BOOLEAN]
      BY <2>1, <3>1 DEF Start
    <3> QED
      BY <2>1, <3>2 DEF Start
  <2>2. CASE Stop(c)
    BY <2>2 DEF Stop, Leave, Forget
  <2>3. CASE Resolve(c)
    BY <2>3 DEF Resolve, Locking
  <2>4. CASE ReadTokenSet(c)
    BY <2>4, AfterRead DEF ReadTokenSet, CleanDuplicates, Found, Unlocking
  <2>5. CASE Promote(c)
    BY <2>5 DEF Promote
  <2>6. CASE Promoted(c)
    BY <2>6, AfterRead DEF Promoted, Found, Unlocking
  <2>7. CASE RefreshOAuthToken(c)
    <3>1. Exchanged(c) \in TokenSets /\ issued' \in Numbers
      BY <2>7 DEF RefreshOAuthToken, Issue, Exchanged
    <3>2. honored' \subseteq Numbers
      BY <2>7, <3>1 DEF RefreshOAuthToken, Issue
    <3> HIDE DEF Numbers, TokenSets
    <3> QED
      BY <2>7, <3>1, <3>2 DEF RefreshOAuthToken, Issue
  <2>8. CASE RefreshFailed(c)
    BY <2>8 DEF RefreshFailed, Failed, Over
  <2>9. CASE AnswerLost(c)
    <3>1. Exchanged(c) \in TokenSets /\ issued' \in Numbers
      BY <2>9 DEF AnswerLost, Issue, Exchanged
    <3>2. honored' \subseteq Numbers
      BY <2>9, <3>1 DEF AnswerLost, Issue
    <3> HIDE DEF Numbers, TokenSets
    <3> QED
      BY <2>9, <3>1, <3>2 DEF AnswerLost, Issue, Failed, Over
  <2>10. CASE Commit(c)
    BY <2>10 DEF Commit, Locking
  <2>11. CASE CommitBusy(c)
    <3>1. dropped' \subseteq Reasons
      BY <2>11 DEF CommitBusy, Dropping
    <3>2. CASE c \in Setups
      BY <2>11, <3>1, <3>2, Leaving DEF CommitBusy
    <3>3. CASE c \notin Setups
      BY <2>11, <3>1, <3>3 DEF CommitBusy, Over
    <3> QED
      BY <3>2, <3>3
  <2>12. CASE Replace(c)
    <3>1. cached[c] \in TokenSets
      BY <2>12 DEF Replace
    <3>2. CASE Written(c) /\ secret' = cached[c] /\ UNCHANGED prior
      <4>1. CASE Browser(c)
        BY <2>12, <3>1, <3>2, <4>1, Leaving DEF Replace, Written
      <4>2. CASE ~Browser(c)
        BY <2>12, <3>1, <3>2, <4>2 DEF Replace, Written
      <4> QED
        BY <4>1, <4>2
    <3>3. CASE Conflict(c) /\ secret' \in {secret, prior} /\ prior' \in {prior, Nothing}
      <4>1. CASE c \in Setups
        BY <2>12, <3>3, <4>1, Leaving DEF Replace, Conflict
      <4>2. CASE c \notin Setups
        BY <2>12, <3>3, <4>2 DEF Replace, Conflict, Forget
      <4> QED
        BY <4>1, <4>2
    <3> QED
      BY <2>12, <3>2, <3>3 DEF Replace
  <2>13. CASE Authorize(c)
    BY <2>13 DEF Authorize, Issue
  <2>14. CASE NotAuthorized(c)
    BY <2>14 DEF NotAuthorized, Leave, Forget
  <2>15. CASE Reopen(c)
    BY <2>15 DEF Reopen, NextAttempt, Forget
  <2>16. CASE Verified(c)
    <3>1. CASE At(c, "pending")
      BY <2>16, <3>1 DEF Verified
    <3>2. CASE ~At(c, "pending")
      BY <2>16, <3>2, Leaving DEF Verified
    <3> QED
      BY <3>1, <3>2
  <2>17. CASE GiveUp(c)
    BY <2>17 DEF GiveUp, Leave, Forget, Dropping, Successor
  <2>18. CASE Clear(c)
    BY <2>18 DEF Clear, NextAttempt, Locking, Dropping, Successor
  <2>19. CASE DeleteTokenSetIfEqual(c)
    <3>1. CASE NextAttempt(c) /\ Goto(c, "ready") /\ Forget(c) /\ UNCHANGED <<checked, full>>
      BY <2>19, <3>1 DEF DeleteTokenSetIfEqual, NextAttempt, Forget
    <3>2. CASE Leave(c)
      BY <2>19, <3>2, Leaving DEF DeleteTokenSetIfEqual
    <3> QED
      BY <2>19, <3>1, <3>2 DEF DeleteTokenSetIfEqual
  <2>20. CASE DeleteTokenSet(c)
    BY <2>20 DEF DeleteTokenSet, Locking
  <2>21. CASE Wipe(c)
    BY <2>21 DEF Wipe
  <2>22. CASE Wiped(c)
    BY <2>22 DEF Wiped, Leave, Forget
  <2>23. CASE Crash(c)
    BY <2>23 DEF Crash, Leave, Forget, Dropping, Successor
  <2> QED
    BY <1>0, <2>1, <2>2, <2>3, <2>4, <2>5, <2>6, <2>7, <2>8, <2>9, <2>10, <2>11, <2>12,
           <2>13, <2>14, <2>15, <2>16, <2>17, <2>18, <2>19, <2>20, <2>21, <2>22,
           <2>23 DEF Call, Setup, Cleanup
<1>1. CASE \E a \in Numbers : Expire(a)
  BY <1>1 DEF Expire
<1>2. CASE UNCHANGED vars
  BY <1>2 DEF vars
<1> QED
  BY <1>0, <1>1, <1>2 DEF Next

\* A refresh brings a token set of the next number, with a refresh token of its
\* own if Linear rotates them.
LEMMA ExchangedIs ==
    ASSUME TypeOK, Known, Numbered, NEW c \in Clients, At(c, "refresh"), issued < MaxTokens
    PROVE  /\ Exchanged(c) \in TokenSets /\ Exchanged(c) # Nothing
           /\ Exchanged(c).access = issued + 1 /\ Exchanged(c).refresh <= issued + 1
           /\ Exchanged(c).refresh = IF Rotates THEN issued + 1 ELSE observed[c].refresh
BY BoundAssumption, NothingAssumption
   DEF TypeOK, Known, Numbered, Genuine, At, Exchanged, Numbers, TokenSets

\* And so does the person.
LEMMA AuthorizedIs ==
    ASSUME TypeOK, issued < MaxTokens
    PROVE  LET ts == [access |-> issued + 1, refresh |-> issued + 1] IN
           ts \in TokenSets /\ ts # Nothing
BY BoundAssumption, NothingAssumption DEF TypeOK, Numbers, TokenSets

\* acquireExclusiveFileLock: in the store with the lock, and only so.
LEMMA LockStep == TypeOK /\ LockKept /\ [Next]_vars => LockKept'
<1> SUFFICES ASSUME TypeOK, LockKept, [Next]_vars PROVE LockKept'
  OBVIOUS
<1> USE NothingAssumption DEF TypeOK, LockKept, Locked, Goto, At, provider, linear, history
<1>0. ASSUME NEW c \in Clients,
             Start(c) \/ Stop(c) \/ Call(c) \/ Setup(c) \/ Cleanup(c) \/ AnswerLost(c)
                    \/ Crash(c)
      PROVE  LockKept'
  <2>1. CASE Start(c) \/ Stop(c) \/ Crash(c)
    BY <2>1 DEF Start, Stop, Leave, Forget, Crash, Dropping, Successor
  <2>2. CASE Resolve(c) \/ ReadTokenSet(c) \/ Promote(c) \/ Promoted(c)
    BY <2>2, AfterRead DEF Resolve, Locking, ReadTokenSet, CleanDuplicates, Found,
           Unlocking, Promote, Promoted
  <2>3. CASE RefreshOAuthToken(c) \/ RefreshFailed(c) \/ AnswerLost(c)
    BY <2>3 DEF RefreshOAuthToken, Issue, Exchanged, RefreshFailed, Failed, Over, AnswerLost
  <2>4. CASE Commit(c) \/ CommitBusy(c) \/ Replace(c)
    BY <2>4 DEF Commit, Locking, CommitBusy, Leave, Forget, Over, Dropping, Successor,
           Replace, Matches, Written, Conflict
  <2>5. CASE Authorize(c) \/ NotAuthorized(c) \/ Reopen(c) \/ Verified(c) \/ GiveUp(c)
    BY <2>5 DEF Authorize, Issue, NotAuthorized, Leave, Forget, Reopen, NextAttempt,
           Verified, GiveUp, Dropping, Successor
  <2>6. CASE Clear(c) \/ DeleteTokenSetIfEqual(c)
    BY <2>6 DEF Clear, NextAttempt, Locking, Dropping, Successor, DeleteTokenSetIfEqual,
           Forget, Leave
  <2>7. CASE DeleteTokenSet(c) \/ Wipe(c) \/ Wiped(c)
    BY <2>7 DEF DeleteTokenSet, Locking, Wipe, Wiped, Leave, Forget
  <2> QED
    BY <1>0, <2>1, <2>2, <2>3, <2>4, <2>5, <2>6, <2>7 DEF Call, Setup, Cleanup
<1>1. CASE \E a \in Numbers : Expire(a)
  BY <1>1 DEF Expire
<1>2. CASE UNCHANGED vars
  BY <1>2 DEF vars
<1> QED
  BY <1>0, <1>1, <1>2 DEF Next

\* cleanSafeLegacyDuplicates runs before a stored token set is exchanged.
LEMMA PriorStep == TypeOK /\ LockKept /\ PriorIsOld /\ [Next]_vars => PriorIsOld'
<1> SUFFICES ASSUME TypeOK, LockKept, PriorIsOld, [Next]_vars PROVE PriorIsOld'
  OBVIOUS
<1> USE NothingAssumption DEF TypeOK, LockKept, PriorIsOld, Locked, Exchanging, Promotes,
       Goto, At, provider, linear, history
<1>0. ASSUME NEW c \in Clients,
             Start(c) \/ Stop(c) \/ Call(c) \/ Setup(c) \/ Cleanup(c) \/ AnswerLost(c)
                    \/ Crash(c)
      PROVE  PriorIsOld'
  <2>1. CASE Start(c) \/ Stop(c) \/ Crash(c)
    BY <2>1 DEF Start, Stop, Leave, Forget, Crash, Dropping, Successor
  <2>2. CASE Resolve(c) \/ Promote(c) \/ Promoted(c)
    BY <2>2, AfterRead DEF Resolve, Locking, Promote, Promoted, Found, Unlocking
  <2>8. CASE ReadTokenSet(c)
    <3>1. CASE secret = Nothing
      <4>1. After(c, secret) \in Exchanging => prior = Nothing
        BY <2>8, <3>1, AfterRead, RoleAssumption DEF ReadTokenSet, Browser
      <4> QED
        BY <2>8, <3>1, <4>1, AfterRead DEF ReadTokenSet, Found, Unlocking
    <3>2. CASE secret # Nothing /\ Promotes(c)
      <4>1. prior' = Nothing
        BY <2>8, <3>2 DEF ReadTokenSet, CleanDuplicates
      <4> QED
        BY <2>8, <3>2, <4>1, AfterRead DEF ReadTokenSet, Found, Unlocking
    <3>3. CASE secret # Nothing /\ ~Promotes(c)
      <4>1. After(c, secret) \notin Exchanging
        BY <3>3, AfterRead
      <4>2. prior' = prior /\ checked' = [checked EXCEPT ![c] = checked[c]]
        BY <2>8, <3>3 DEF ReadTokenSet, CleanDuplicates
      <4> QED
        BY <2>8, <3>3, <4>1, <4>2 DEF ReadTokenSet, Found, Unlocking
    <3> QED
      BY <3>1, <3>2, <3>3
  <2>3. CASE RefreshOAuthToken(c) \/ RefreshFailed(c) \/ AnswerLost(c)
    BY <2>3 DEF RefreshOAuthToken, Issue, Exchanged, RefreshFailed, Failed, Over, AnswerLost
  <2>4. CASE Commit(c) \/ CommitBusy(c) \/ Replace(c)
    BY <2>4 DEF Commit, Locking, CommitBusy, Leave, Forget, Over, Dropping, Successor,
           Replace, Matches, Written, Conflict
  <2>5. CASE Authorize(c) \/ NotAuthorized(c) \/ Reopen(c) \/ Verified(c) \/ GiveUp(c)
    BY <2>5 DEF Authorize, Issue, NotAuthorized, Leave, Forget, Reopen, NextAttempt,
           Verified, GiveUp, Dropping, Successor
  <2>6. CASE Clear(c) \/ DeleteTokenSetIfEqual(c)
    BY <2>6 DEF Clear, NextAttempt, Locking, Dropping, Successor, DeleteTokenSetIfEqual,
           Forget, Leave
  <2>7. CASE DeleteTokenSet(c) \/ Wipe(c) \/ Wiped(c)
    BY <2>7 DEF DeleteTokenSet, Locking, Wipe, Wiped, Leave, Forget
  <2> QED
    BY <1>0, <2>1, <2>2, <2>3, <2>4, <2>5, <2>6, <2>7, <2>8 DEF Call, Setup, Cleanup
<1>1. CASE \E a \in Numbers : Expire(a)
  BY <1>1 DEF Expire
<1>2. CASE UNCHANGED vars
  BY <1>2 DEF vars
<1> QED
  BY <1>0, <1>1, <1>2 DEF Next

\* A provider exchanges what it read, and sends the person to the browser only
\* in a setup.
LEMMA KnownStep == TypeOK /\ PriorIsOld /\ Known /\ Numbered /\ [Next]_vars => Known'
<1> SUFFICES ASSUME TypeOK, PriorIsOld, Known, Numbered, [Next]_vars PROVE Known'
  OBVIOUS
<1> USE NothingAssumption DEF TypeOK, PriorIsOld, Known, Exchanging, Holding, Browser,
       Goto, At, provider, linear, history
<1>0. ASSUME NEW c \in Clients,
             Start(c) \/ Stop(c) \/ Call(c) \/ Setup(c) \/ Cleanup(c) \/ AnswerLost(c)
                    \/ Crash(c)
      PROVE  Known'
  <2>1. CASE Start(c) \/ Stop(c) \/ Crash(c)
    BY <2>1 DEF Start, Stop, Leave, Forget, Crash, Dropping, Successor
  <2>2. CASE Resolve(c) \/ ReadTokenSet(c) \/ Promote(c) \/ Promoted(c)
    BY <2>2, AfterRead DEF Resolve, Locking, ReadTokenSet, CleanDuplicates, Found,
           Unlocking, Promote, Promoted
  <2>3. CASE RefreshOAuthToken(c) \/ RefreshFailed(c) \/ AnswerLost(c)
    <3>1. CASE RefreshOAuthToken(c)
      BY <3>1, ExchangedIs DEF RefreshOAuthToken, Issue
    <3>2. CASE RefreshFailed(c) \/ AnswerLost(c)
      BY <3>2 DEF RefreshFailed, AnswerLost, Failed, Over
    <3> QED
      BY <2>3, <3>1, <3>2
  <2>4. CASE Commit(c) \/ CommitBusy(c) \/ Replace(c)
    BY <2>4 DEF Commit, Locking, CommitBusy, Leave, Forget, Over, Dropping, Successor,
           Replace, Matches, Written, Conflict
  <2>5. CASE Authorize(c) \/ NotAuthorized(c) \/ Reopen(c) \/ Verified(c) \/ GiveUp(c)
    <3>1. CASE Authorize(c)
      BY <3>1, AuthorizedIs DEF Authorize, Issue
    <3>2. CASE NotAuthorized(c) \/ Reopen(c)
      BY <3>2 DEF NotAuthorized, Leave, Forget, Reopen, NextAttempt
    <3>3. CASE Verified(c)
      BY <3>3 DEF Verified, Leave, Forget
    <3>4. CASE GiveUp(c)
      BY <3>4 DEF GiveUp, Leave, Forget
    <3> QED
      BY <2>5, <3>1, <3>2, <3>3, <3>4
  <2>6. CASE Clear(c) \/ DeleteTokenSetIfEqual(c)
    BY <2>6 DEF Clear, NextAttempt, Locking, Dropping, Successor, DeleteTokenSetIfEqual,
           Forget, Leave
  <2>7. CASE DeleteTokenSet(c) \/ Wipe(c) \/ Wiped(c)
    BY <2>7 DEF DeleteTokenSet, Locking, Wipe, Wiped, Leave, Forget
  <2> QED
    BY <1>0, <2>1, <2>2, <2>3, <2>4, <2>5, <2>6, <2>7 DEF Call, Setup, Cleanup
<1>1. CASE \E a \in Numbers : Expire(a)
  BY <1>1 DEF Expire
<1>2. CASE UNCHANGED vars
  BY <1>2 DEF vars
<1> QED
  BY <1>0, <1>1, <1>2 DEF Next

\* Linear never issues a token twice.
LEMMA NumberStep == TypeOK /\ Known /\ Numbered /\ [Next]_vars => Numbered'
<1> SUFFICES ASSUME TypeOK, Known, Numbered, [Next]_vars PROVE Numbered'
  OBVIOUS
<1> USE NothingAssumption, BoundAssumption DEF TypeOK, Known, Numbered, Genuine, Holding,
       Numbers, TokenSets, Goto, At, provider, linear, history
<1>0. ASSUME NEW c \in Clients,
             Start(c) \/ Stop(c) \/ Call(c) \/ Setup(c) \/ Cleanup(c) \/ AnswerLost(c)
                    \/ Crash(c)
      PROVE  Numbered'
  <2>1. CASE Start(c) \/ Stop(c) \/ Crash(c)
    BY <2>1 DEF Start, Stop, Leave, Forget, Crash, Dropping, Successor
  <2>2. CASE Resolve(c) \/ ReadTokenSet(c) \/ Promote(c) \/ Promoted(c)
    BY <2>2, AfterRead DEF Resolve, Locking, ReadTokenSet, CleanDuplicates, Found,
           Unlocking, Promote, Promoted
  <2>3. CASE RefreshOAuthToken(c) \/ RefreshFailed(c) \/ AnswerLost(c)
    <3>1. CASE RefreshOAuthToken(c)
      <4>1. issued' = issued + 1 /\ observed' = observed
             /\ cached' = [cached EXCEPT ![c] = Exchanged(c)]
        BY <3>1 DEF RefreshOAuthToken, Issue
      <4>2. /\ Exchanged(c).access <= issued' /\ Exchanged(c).refresh <= issued'
            /\ Rotates => Exchanged(c).access = Exchanged(c).refresh
        BY <3>1, <4>1, ExchangedIs DEF RefreshOAuthToken, Issue
      <4> QED
        BY <3>1, <4>1, <4>2 DEF RefreshOAuthToken
    <3>2. CASE RefreshFailed(c)
      BY <3>2 DEF RefreshFailed, Over
    <3>3. CASE AnswerLost(c)
      BY <3>3 DEF AnswerLost, Issue, Over
    <3> QED
      BY <2>3, <3>1, <3>2, <3>3
  <2>4. CASE Commit(c) \/ CommitBusy(c) \/ Replace(c)
    BY <2>4 DEF Commit, Locking, CommitBusy, Leave, Forget, Over, Dropping, Successor,
           Replace, Matches, Written, Conflict
  <2>5. CASE Authorize(c) \/ NotAuthorized(c) \/ Reopen(c) \/ Verified(c) \/ GiveUp(c)
    <3>1. CASE Authorize(c)
      BY <3>1 DEF Authorize, Issue
    <3>2. CASE NotAuthorized(c) \/ Reopen(c)
      BY <3>2 DEF NotAuthorized, Leave, Forget, Reopen
    <3>3. CASE Verified(c)
      BY <3>3 DEF Verified, Leave, Forget
    <3>4. CASE GiveUp(c)
      BY <3>4 DEF GiveUp, Leave, Forget
    <3> QED
      BY <2>5, <3>1, <3>2, <3>3, <3>4
  <2>6. CASE Clear(c) \/ DeleteTokenSetIfEqual(c)
    BY <2>6 DEF Clear, NextAttempt, Locking, Dropping, Successor, DeleteTokenSetIfEqual,
           Forget, Leave
  <2>7. CASE DeleteTokenSet(c) \/ Wipe(c) \/ Wiped(c)
    BY <2>7 DEF DeleteTokenSet, Locking, Wipe, Wiped, Leave, Forget
  <2> QED
    BY <1>0, <2>1, <2>2, <2>3, <2>4, <2>5, <2>6, <2>7 DEF Call, Setup, Cleanup
<1>1. CASE \E a \in Numbers : Expire(a)
  BY <1>1 DEF Expire
<1>2. CASE UNCHANGED vars
  BY <1>2 DEF vars
<1> QED
  BY <1>0, <1>1, <1>2 DEF Next

\* A token set that is to be stored works until it is.
LEMMA NewerStep == TypeOK /\ Known /\ Numbered /\ Newer /\ Private /\ [Next]_vars => Newer'
<1> SUFFICES ASSUME TypeOK, Known, Numbered, Newer, Private, [Next]_vars PROVE Newer'
  OBVIOUS
<1> USE NothingAssumption, BoundAssumption DEF TypeOK, Known, Numbered, Genuine, Newer,
       Private, Holding, Numbers, TokenSets, Goto, At, provider, linear, history
<1>0. ASSUME NEW c \in Clients,
             Start(c) \/ Stop(c) \/ Call(c) \/ Setup(c) \/ Cleanup(c) \/ AnswerLost(c)
                    \/ Crash(c)
      PROVE  Newer'
  <2>1. CASE Start(c) \/ Stop(c) \/ Crash(c)
    <3>1. CASE Start(c)
      BY <3>1 DEF Start
    <3>2. CASE Stop(c)
      BY <3>2 DEF Stop, Leave, Forget
    <3>3. CASE Crash(c)
      BY <3>3 DEF Crash, Leave, Forget, Dropping, Successor
    <3> QED
      BY <2>1, <3>1, <3>2, <3>3
  <2>2. CASE Resolve(c) \/ ReadTokenSet(c) \/ Promote(c) \/ Promoted(c)
    <3>1. CASE Resolve(c)
      BY <3>1 DEF Resolve, Locking
    <3>2. CASE ReadTokenSet(c)
      BY <3>2, AfterRead DEF ReadTokenSet, CleanDuplicates, Found, Unlocking
    <3>3. CASE Promote(c)
      BY <3>3 DEF Promote
    <3>4. CASE Promoted(c)
      BY <3>4, AfterRead DEF Promoted, Found, Unlocking
    <3> QED
      BY <2>2, <3>1, <3>2, <3>3, <3>4
  <2>3. CASE RefreshOAuthToken(c) \/ RefreshFailed(c) \/ AnswerLost(c)
    <3>1. CASE RefreshOAuthToken(c)
      BY <3>1 DEF RefreshOAuthToken, Issue, Exchanged
    <3>2. CASE RefreshFailed(c)
      BY <3>2 DEF RefreshFailed, Failed, Over
    <3>3. CASE AnswerLost(c)
      BY <3>3 DEF AnswerLost, Issue, Exchanged, Failed, Over
    <3> QED
      BY <2>3, <3>1, <3>2, <3>3
  <2>4. CASE Commit(c) \/ CommitBusy(c) \/ Replace(c)
    <3>1. CASE Commit(c)
      BY <3>1 DEF Commit, Locking
    <3>2. CASE CommitBusy(c)
      BY <3>2 DEF CommitBusy, Leave, Forget, Over, Dropping, Successor
    <3>3. CASE Replace(c)
      BY <3>3 DEF Replace, Matches, Written, Conflict, Leave, Forget
    <3> QED
      BY <2>4, <3>1, <3>2, <3>3
  <2>5. CASE Authorize(c) \/ NotAuthorized(c) \/ Reopen(c) \/ Verified(c) \/ GiveUp(c)
    <3>1. CASE Authorize(c)
      BY <3>1 DEF Authorize, Issue
    <3>2. CASE NotAuthorized(c)
      BY <3>2 DEF NotAuthorized, Leave, Forget
    <3>3. CASE Reopen(c)
      BY <3>3 DEF Reopen, NextAttempt, Forget
    <3>4. CASE Verified(c)
      BY <3>4 DEF Verified, Leave, Forget
    <3>5. CASE GiveUp(c)
      BY <3>5 DEF GiveUp, Leave, Forget, Dropping, Successor
    <3> QED
      BY <2>5, <3>1, <3>2, <3>3, <3>4, <3>5
  <2>6. CASE Clear(c) \/ DeleteTokenSetIfEqual(c)
    <3>1. CASE Clear(c)
      BY <3>1 DEF Clear, NextAttempt, Locking, Dropping, Successor
    <3>2. CASE DeleteTokenSetIfEqual(c)
      BY <3>2 DEF DeleteTokenSetIfEqual, NextAttempt, Forget, Leave
    <3> QED
      BY <2>6, <3>1, <3>2
  <2>7. CASE DeleteTokenSet(c) \/ Wipe(c) \/ Wiped(c)
    <3>1. CASE DeleteTokenSet(c)
      BY <3>1 DEF DeleteTokenSet, Locking
    <3>2. CASE Wipe(c)
      BY <3>2 DEF Wipe
    <3>3. CASE Wiped(c)
      BY <3>3 DEF Wiped, Leave, Forget
    <3> QED
      BY <2>7, <3>1, <3>2, <3>3
  <2> QED
    BY <1>0, <2>1, <2>2, <2>3, <2>4, <2>5, <2>6, <2>7 DEF Call, Setup, Cleanup
<1>1. CASE \E a \in Numbers : Expire(a)
  BY <1>1 DEF Expire
<1>2. CASE UNCHANGED vars
  BY <1>2 DEF vars
<1> QED
  BY <1>0, <1>1, <1>2 DEF Next

\* And nobody else has it.
LEMMA PrivateStep ==
    TypeOK /\ PriorIsOld /\ Known /\ Numbered /\ Private /\ [Next]_vars => Private'
<1> SUFFICES ASSUME TypeOK, PriorIsOld, Known, Numbered, Private, [Next]_vars PROVE Private'
  OBVIOUS
<1> USE NothingAssumption, BoundAssumption DEF TypeOK, PriorIsOld, Known, Numbered,
       Genuine, Private, Exchanging, Holding, Numbers, TokenSets, Goto, At, provider,
       linear, history
<1>0. ASSUME NEW c \in Clients,
             Start(c) \/ Stop(c) \/ Call(c) \/ Setup(c) \/ Cleanup(c) \/ AnswerLost(c)
                    \/ Crash(c)
      PROVE  Private'
  <2>1. CASE Start(c) \/ Stop(c) \/ Crash(c)
    <3>1. CASE Start(c)
      BY <3>1 DEF Start
    <3>2. CASE Stop(c)
      BY <3>2 DEF Stop, Leave, Forget
    <3>3. CASE Crash(c)
      BY <3>3 DEF Crash, Leave, Forget, Dropping, Successor
    <3> QED
      BY <2>1, <3>1, <3>2, <3>3
  <2>2. CASE Resolve(c) \/ ReadTokenSet(c) \/ Promote(c) \/ Promoted(c)
    <3>1. CASE Resolve(c)
      BY <3>1 DEF Resolve, Locking
    <3>2. CASE ReadTokenSet(c)
      BY <3>2, AfterRead DEF ReadTokenSet, CleanDuplicates, Found, Unlocking
    <3>3. CASE Promote(c)
      BY <3>3 DEF Promote
    <3>4. CASE Promoted(c)
      BY <3>4, AfterRead DEF Promoted, Found, Unlocking
    <3> QED
      BY <2>2, <3>1, <3>2, <3>3, <3>4
  <2>3. CASE RefreshOAuthToken(c) \/ RefreshFailed(c) \/ AnswerLost(c)
    <3>1. CASE RefreshOAuthToken(c)
      BY <3>1 DEF RefreshOAuthToken, Issue, Exchanged
    <3>2. CASE RefreshFailed(c)
      BY <3>2 DEF RefreshFailed, Failed, Over
    <3>3. CASE AnswerLost(c)
      BY <3>3 DEF AnswerLost, Issue, Exchanged, Failed, Over
    <3> QED
      BY <2>3, <3>1, <3>2, <3>3
  <2>4. CASE Commit(c) \/ CommitBusy(c) \/ Replace(c)
    <3>1. CASE Commit(c)
      BY <3>1 DEF Commit, Locking
    <3>2. CASE CommitBusy(c)
      BY <3>2 DEF CommitBusy, Leave, Forget, Over, Dropping, Successor
    <3>3. CASE Replace(c)
      BY <3>3 DEF Replace, Matches, Written, Conflict, Leave, Forget
    <3> QED
      BY <2>4, <3>1, <3>2, <3>3
  <2>5. CASE Authorize(c) \/ NotAuthorized(c) \/ Reopen(c) \/ Verified(c) \/ GiveUp(c)
    <3>1. CASE Authorize(c)
      BY <3>1 DEF Authorize, Issue
    <3>2. CASE NotAuthorized(c)
      BY <3>2 DEF NotAuthorized, Leave, Forget
    <3>3. CASE Reopen(c)
      BY <3>3 DEF Reopen, NextAttempt, Forget
    <3>4. CASE Verified(c)
      BY <3>4 DEF Verified, Leave, Forget
    <3>5. CASE GiveUp(c)
      BY <3>5 DEF GiveUp, Leave, Forget, Dropping, Successor
    <3> QED
      BY <2>5, <3>1, <3>2, <3>3, <3>4, <3>5
  <2>6. CASE Clear(c) \/ DeleteTokenSetIfEqual(c)
    <3>1. CASE Clear(c)
      BY <3>1 DEF Clear, NextAttempt, Locking, Dropping, Successor
    <3>2. CASE DeleteTokenSetIfEqual(c)
      BY <3>2 DEF DeleteTokenSetIfEqual, NextAttempt, Forget, Leave
    <3> QED
      BY <2>6, <3>1, <3>2
  <2>7. CASE DeleteTokenSet(c) \/ Wipe(c) \/ Wiped(c)
    <3>1. CASE DeleteTokenSet(c)
      BY <3>1 DEF DeleteTokenSet, Locking
    <3>2. CASE Wipe(c)
      BY <3>2 DEF Wipe
    <3>3. CASE Wiped(c)
      BY <3>3 DEF Wiped, Leave, Forget
    <3> QED
      BY <2>7, <3>1, <3>2, <3>3
  <2> QED
    BY <1>0, <2>1, <2>2, <2>3, <2>4, <2>5, <2>6, <2>7 DEF Call, Setup, Cleanup
<1>1. CASE \E a \in Numbers : Expire(a)
  BY <1>1 DEF Expire
<1>2. CASE UNCHANGED vars
  BY <1>2 DEF vars
<1> QED
  BY <1>0, <1>1, <1>2 DEF Next

\* The grant is stored or in hand.
LEMMA GrantStep ==
    TypeOK /\ LockKept /\ PriorIsOld /\ Known /\ Numbered /\ Newer /\ GrantIsKept
    /\ [Next]_vars => GrantIsKept'
<1> SUFFICES ASSUME TypeOK, LockKept, PriorIsOld, Known, Numbered, Newer, GrantIsKept,
       [Next]_vars PROVE GrantIsKept'
  OBVIOUS
<1> USE NothingAssumption DEF TypeOK, LockKept, PriorIsOld, Known, Numbered, Genuine,
       Newer, GrantIsKept, Stored, Dead, InHand, Successor, Exchanging, Holding, TokenSets,
       Goto, At, provider, linear, history
<1>0. ASSUME NEW c \in Clients,
             Start(c) \/ Stop(c) \/ Call(c) \/ Setup(c) \/ Cleanup(c) \/ AnswerLost(c)
                    \/ Crash(c)
      PROVE  GrantIsKept'
  <2>1. CASE Start(c) \/ Stop(c) \/ Crash(c)
    <3>1. CASE Start(c)
      BY <3>1 DEF Start
    <3>2. CASE Stop(c)
      BY <3>2 DEF Stop, Leave, Forget
    <3>3. CASE Crash(c)
      BY <3>3 DEF Crash, Leave, Forget, Dropping, Successor
    <3> QED
      BY <2>1, <3>1, <3>2, <3>3
  <2>2. CASE Resolve(c) \/ ReadTokenSet(c) \/ Promote(c) \/ Promoted(c)
    <3>1. CASE Resolve(c)
      BY <3>1 DEF Resolve, Locking
    <3>2. CASE ReadTokenSet(c)
      BY <3>2, AfterRead DEF ReadTokenSet, CleanDuplicates, Found, Unlocking
    <3>3. CASE Promote(c)
      BY <3>3 DEF Promote
    <3>4. CASE Promoted(c)
      BY <3>4, AfterRead DEF Promoted, Found, Unlocking
    <3> QED
      BY <2>2, <3>1, <3>2, <3>3, <3>4
  <2>3. CASE RefreshOAuthToken(c) \/ RefreshFailed(c) \/ AnswerLost(c)
    <3>1. CASE RefreshOAuthToken(c)
      <4>1. Exchanged(c) # Nothing /\ secret' = secret /\ prior' = prior
             /\ observed' = observed
        BY <3>1, ExchangedIs DEF RefreshOAuthToken, Issue
      <4>2. Stored' = Stored /\ Stored = secret /\ Successor(c)'
        BY <3>1, <4>1 DEF RefreshOAuthToken
      <4>3. \A d \in Clients \ {c} : Successor(d) => Successor(d)'
        BY <3>1, <4>1 DEF RefreshOAuthToken
      <4>4. CASE secret = observed[c]
        BY <4>1, <4>2, <4>4
      <4>5. CASE secret # observed[c] /\ Dead(secret)
        BY <3>1, <4>1, <4>2, <4>3, <4>5 DEF RefreshOAuthToken
      <4>6. CASE secret # observed[c] /\ ~Dead(secret)
        <5>1. secret # Nothing => secret.refresh # observed[c].refresh \/ ~Rotates
          BY <3>1, <4>6 DEF RefreshOAuthToken
        <5>2. honored' = (honored \ {observed[c].refresh}) \cup {Exchanged(c).refresh}
          BY <3>1 DEF RefreshOAuthToken, Issue
        <5>3. ~Rotates => Exchanged(c).refresh = observed[c].refresh
          BY DEF Exchanged
        <5> QED
          BY <4>1, <4>2, <4>6, <5>1, <5>2, <5>3
      <4> QED
        BY <4>4, <4>5, <4>6
    <3>2. CASE RefreshFailed(c)
      BY <3>2 DEF RefreshFailed, Over
    <3>3. CASE AnswerLost(c)
      BY <3>3 DEF AnswerLost
    <3> QED
      BY <2>3, <3>1, <3>2, <3>3
  <2>4. CASE Commit(c) \/ CommitBusy(c) \/ Replace(c)
    <3>1. CASE Commit(c)
      BY <3>1 DEF Commit, Locking
    <3>2. CASE CommitBusy(c)
      BY <3>2 DEF CommitBusy, Leave, Forget, Over, Dropping, Successor
    <3>3. CASE Replace(c)
      BY <3>3 DEF Replace, Matches, Written, Conflict, Leave, Forget
    <3> QED
      BY <2>4, <3>1, <3>2, <3>3
  <2>5. CASE Authorize(c) \/ NotAuthorized(c) \/ Reopen(c) \/ Verified(c) \/ GiveUp(c)
    <3>1. CASE Authorize(c)
      BY <3>1 DEF Authorize, Issue
    <3>2. CASE NotAuthorized(c) \/ Reopen(c)
      BY <3>2 DEF NotAuthorized, Leave, Forget, Reopen
    <3>3. CASE Verified(c)
      BY <3>3 DEF Verified, Leave, Forget
    <3>4. CASE GiveUp(c)
      BY <3>4 DEF GiveUp, Leave, Forget, Dropping
    <3> QED
      BY <2>5, <3>1, <3>2, <3>3, <3>4
  <2>6. CASE Clear(c) \/ DeleteTokenSetIfEqual(c)
    <3>1. CASE Clear(c)
      BY <3>1 DEF Clear, NextAttempt, Locking, Dropping, Successor
    <3>2. CASE DeleteTokenSetIfEqual(c)
      BY <3>2 DEF DeleteTokenSetIfEqual, NextAttempt, Forget, Leave
    <3> QED
      BY <2>6, <3>1, <3>2
  <2>7. CASE DeleteTokenSet(c) \/ Wipe(c) \/ Wiped(c)
    <3>1. CASE DeleteTokenSet(c)
      BY <3>1 DEF DeleteTokenSet, Locking
    <3>2. CASE Wipe(c)
      BY <3>2 DEF Wipe
    <3>3. CASE Wiped(c)
      BY <3>3 DEF Wiped, Leave, Forget
    <3> QED
      BY <2>7, <3>1, <3>2, <3>3
  <2> QED
    BY <1>0, <2>1, <2>2, <2>3, <2>4, <2>5, <2>6, <2>7 DEF Call, Setup, Cleanup
<1>1. CASE \E a \in Numbers : Expire(a)
  BY <1>1 DEF Expire
<1>2. CASE UNCHANGED vars
  BY <1>2 DEF vars
<1> QED
  BY <1>0, <1>1, <1>2 DEF Next

\* The first state satisfies the invariant.
LEMMA Initially == Init => IInv
<1> SUFFICES ASSUME Init PROVE IInv
  OBVIOUS
<1> USE BoundAssumption, NothingAssumption DEF Init
<1>1. First \in TokenSets /\ First # Nothing /\ First.access = 0 /\ First.refresh = 0
  BY DEF First, TokenSets, Numbers
<1>2. TypeOK
  BY <1>1 DEF TypeOK, Points, Numbers
<1>3. LockKept /\ Known /\ Newer /\ Private
  BY DEF LockKept, Known, Newer, Private, Locked, Holding
<1>4. PriorIsOld
  BY DEF PriorIsOld, Exchanging
<1>5. Numbered
  BY <1>1 DEF Numbered, Genuine
<1>6. GrantIsKept
  BY <1>1 DEF GrantIsKept, Dead, Stored
<1> QED
  BY <1>2, <1>3, <1>4, <1>5, <1>6 DEF IInv

LEMMA Invariant == Spec => []IInv
<1>1. IInv /\ [Next]_vars => IInv'
  BY Typing, LockStep, PriorStep, KnownStep, NumberStep, NewerStep, PrivateStep,
         GrantStep DEF IInv
<1> QED
  BY Initially, <1>1, PTL DEF Spec

\* Every variable keeps its shape.
THEOREM TypeCorrect == Spec => []TypeOK
<1>1. IInv => TypeOK
  BY DEF IInv
<1> QED
  BY Invariant, <1>1, PTL

\* createLinearOAuthTokenProvider and the store: whatever processes use the
\* Team's grant, promote a predecessor's, renew or remove it, the stored grant
\* works or its successor is about to be stored, unless one of the four named
\* events dropped it.
THEOREM GrantKept == Spec => []GrantIsKept
<1>1. IInv => GrantIsKept
  BY DEF IInv
<1> QED
  BY Invariant, <1>1, PTL

\* replaceTokenSetIfEqual puts only a newer token set over a stored one.
LEMMA NewerStaysStep ==
    IInv /\ [Next]_vars => (secret # Nothing /\ secret' # Nothing
    => secret'.access >= secret.access)
<1> SUFFICES ASSUME IInv, [Next]_vars PROVE (secret # Nothing /\ secret' # Nothing
       => secret'.access >= secret.access)
  OBVIOUS
<1> USE NothingAssumption, BoundAssumption DEF IInv, TypeOK, Known, Newer, Holding,
       Numbers, TokenSets, Goto, At, provider, linear, history
<1>0. ASSUME NEW c \in Clients,
             Start(c) \/ Stop(c) \/ Call(c) \/ Setup(c) \/ Cleanup(c) \/ AnswerLost(c)
                    \/ Crash(c)
      PROVE  (secret # Nothing /\ secret' # Nothing => secret'.access >= secret.access)
  <2>1. CASE Start(c) \/ Stop(c) \/ Crash(c)
    BY <2>1 DEF Start, Stop, Leave, Forget, Crash, Dropping, Successor
  <2>2. CASE Resolve(c) \/ ReadTokenSet(c) \/ Promote(c) \/ Promoted(c)
    BY <2>2 DEF Resolve, Locking, ReadTokenSet, CleanDuplicates, Found, Unlocking, Promote,
           Promoted
  <2>3. CASE RefreshOAuthToken(c) \/ RefreshFailed(c) \/ AnswerLost(c)
    BY <2>3 DEF RefreshOAuthToken, Issue, Exchanged, RefreshFailed, Failed, Over, AnswerLost
  <2>4. CASE Commit(c) \/ CommitBusy(c) \/ Replace(c)
    BY <2>4 DEF Commit, Locking, CommitBusy, Leave, Forget, Over, Dropping, Successor,
           Replace, Matches, Written, Conflict
  <2>5. CASE Authorize(c) \/ NotAuthorized(c) \/ Reopen(c) \/ Verified(c) \/ GiveUp(c)
    BY <2>5 DEF Authorize, Issue, NotAuthorized, Leave, Forget, Reopen, NextAttempt,
           Verified, GiveUp, Dropping, Successor
  <2>6. CASE Clear(c) \/ DeleteTokenSetIfEqual(c)
    BY <2>6 DEF Clear, NextAttempt, Locking, Dropping, Successor, DeleteTokenSetIfEqual,
           Forget, Leave
  <2>7. CASE DeleteTokenSet(c) \/ Wipe(c) \/ Wiped(c)
    BY <2>7 DEF DeleteTokenSet, Locking, Wipe, Wiped, Leave, Forget
  <2> QED
    BY <1>0, <2>1, <2>2, <2>3, <2>4, <2>5, <2>6, <2>7 DEF Call, Setup, Cleanup
<1>1. CASE \E a \in Numbers : Expire(a)
  BY <1>1 DEF Expire
<1>2. CASE UNCHANGED vars
  BY <1>2 DEF vars
<1> QED
  BY <1>0, <1>1, <1>2 DEF Next

\* The only way out of having no grant leads through the browser.
LEMMA OnlyPeopleStep ==
    IInv /\ [Next]_vars => (Stored = Nothing /\ Stored' # Nothing
    => \E s \in Setups : attempt[s] > 1 /\ At(s, "replace") /\ observed[s] = Nothing)
<1> SUFFICES ASSUME IInv, [Next]_vars PROVE (Stored = Nothing /\ Stored' # Nothing
       => \E s \in Setups : attempt[s] > 1 /\ At(s, "replace") /\ observed[s] = Nothing)
  OBVIOUS
<1> USE NothingAssumption DEF IInv, TypeOK, PriorIsOld, Known, Holding, Exchanging,
       Browser, Stored, Goto, At, provider, linear, history
<1>0. ASSUME NEW c \in Clients,
             Start(c) \/ Stop(c) \/ Call(c) \/ Setup(c) \/ Cleanup(c) \/ AnswerLost(c)
                    \/ Crash(c)
      PROVE  (Stored = Nothing /\ Stored' # Nothing => \E s \in Setups : attempt[s] > 1
             /\ At(s, "replace") /\ observed[s] = Nothing)
  <2>1. CASE Start(c) \/ Stop(c) \/ Crash(c)
    BY <2>1 DEF Start, Stop, Leave, Forget, Crash, Dropping, Successor
  <2>2. CASE Resolve(c) \/ ReadTokenSet(c) \/ Promote(c) \/ Promoted(c)
    BY <2>2 DEF Resolve, Locking, ReadTokenSet, CleanDuplicates, Found, Unlocking, Promote,
           Promoted
  <2>3. CASE RefreshOAuthToken(c) \/ RefreshFailed(c) \/ AnswerLost(c)
    BY <2>3 DEF RefreshOAuthToken, Issue, Exchanged, RefreshFailed, Failed, Over, AnswerLost
  <2>4. CASE Commit(c) \/ CommitBusy(c) \/ Replace(c)
    BY <2>4 DEF Commit, Locking, CommitBusy, Leave, Forget, Over, Dropping, Successor,
           Replace, Matches, Written, Conflict
  <2>5. CASE Authorize(c) \/ NotAuthorized(c) \/ Reopen(c) \/ Verified(c) \/ GiveUp(c)
    BY <2>5 DEF Authorize, Issue, NotAuthorized, Leave, Forget, Reopen, NextAttempt,
           Verified, GiveUp, Dropping, Successor
  <2>6. CASE Clear(c) \/ DeleteTokenSetIfEqual(c)
    BY <2>6 DEF Clear, NextAttempt, Locking, Dropping, Successor, DeleteTokenSetIfEqual,
           Forget, Leave
  <2>7. CASE DeleteTokenSet(c) \/ Wipe(c) \/ Wiped(c)
    BY <2>7 DEF DeleteTokenSet, Locking, Wipe, Wiped, Leave, Forget
  <2> QED
    BY <1>0, <2>1, <2>2, <2>3, <2>4, <2>5, <2>6, <2>7 DEF Call, Setup, Cleanup
<1>1. CASE \E a \in Numbers : Expire(a)
  BY <1>1 DEF Expire
<1>2. CASE UNCHANGED vars
  BY <1>2 DEF vars
<1> QED
  BY <1>0, <1>1, <1>2 DEF Next

\* No refresh puts an older token set over a newer one.
THEOREM NewerTokensStay == Spec => NewerStays
<1>1. IInv /\ [Next]_vars =>
        [secret # Nothing /\ secret' # Nothing => secret'.access >= secret.access]_vars
  BY NewerStaysStep
<1> QED
  BY Invariant, <1>1, PTL DEF Spec, NewerStays

\* No refresh that was under way brings back a grant that was removed.
THEOREM RemovedIsRemoved == Spec => OnlyPeopleGrant
<1>1. IInv /\ [Next]_vars =>
        [Stored = Nothing /\ Stored' # Nothing =>
            \E s \in Setups : attempt[s] > 1 /\ At(s, "replace")
                   /\ observed[s] = Nothing]_vars
  BY OnlyPeopleStep
<1> QED
  BY Invariant, <1>1, PTL DEF Spec, OnlyPeopleGrant
=============================================================================
