----------------------- MODULE GameInventoriesProofs -----------------------
(***************************************************************************)
(* Proofs about GameInventories, for every set of accounts, games and      *)
(* executions and every bound: the cancel function of a key belongs to the *)
(* newest refresh of it, and what a setting or a sign-out removed stays    *)
(* removed, although refreshes of it may still be returning.               *)
(***************************************************************************)
EXTENDS GameInventories, TLAPS

Connected == steamConnected => connection.steamID \in Accounts

(* A refresh in flight has a key and one of the generations given out.      *)
Numbered ==
    \A r \in Refreshers : refresh[r].pc # "idle" =>
        refresh[r].key \in Keys /\ refresh[r].generation <= gameRefreshes[refresh[r].key]

(* No generation of a key is given out twice.                               *)
Distinct ==
    \A r, q \in Refreshers :
        /\ refresh[r].pc # "idle" /\ refresh[q].pc # "idle"
        /\ refresh[r].key = refresh[q].key
        /\ refresh[r].generation = refresh[q].generation
        => r = q

(* While the newest refresh runs, the snapshot it will write is loading,    *)
(* except that a probe may store one of a service.                          *)
Loading == \A k \in gameCancels : k[2] \notin ServiceApps =>
               gameInventories[k].status = "loading"

IInv == /\ TypeOK
        /\ Connected
        /\ Numbered
        /\ Distinct
        /\ CancelReachesTheWriter
        /\ Loading
        /\ DisabledGameIsEmpty

RefreshInv == Numbered /\ Distinct /\ CancelReachesTheWriter
-----------------------------------------------------------------------------
LEMMA SnapshotTypes ==
    /\ NoSnapshot \in Snapshot /\ errorSnapshot \in Snapshot
    /\ \A a \in SteamIDs : Ready(a) \in Snapshot
    /\ NoRefresh \in Refresh /\ NoProbe \in Probe
  BY DEF NoSnapshot, errorSnapshot, Ready, Snapshot, NoRefresh, Refresh, NoProbe, Probe,
         SteamIDs

LEMMA InitIInv == Init => IInv
  BY SnapshotTypes, GameAssumption
     DEF Init, AccountInit, IInv, TypeOK, AccountTypeOK, States, SteamIDs, NoContext,
         Connected, steamConnected, Numbered, Distinct, CancelReachesTheWriter, IsNewest,
         InFlight, Loading, DisabledGameIsEmpty, NoRefresh, Cleared

(* Cancelling refreshes leaves the others as they were.                     *)
LEMMA CancelKeeps ==
    ASSUME IInv, NEW ks, CancelRefreshes(ks), UNCHANGED refresh
    PROVE  /\ gameRefreshes' \in [Keys -> Nat] /\ gameCancels' \subseteq gameCancels
           /\ RefreshInv'
<1>1. /\ gameRefreshes' \in [Keys -> Nat] /\ gameCancels' \subseteq gameCancels
      /\ gameCancels \subseteq Keys
      /\ \A k \in Keys : /\ gameRefreshes[k] \in Nat
                         /\ gameRefreshes'[k] = gameRefreshes[k] \/
                              gameRefreshes'[k] = gameRefreshes[k] + 1
                         /\ k \notin gameCancels' <=> k \notin gameCancels \/ k \in ks
                         /\ gameRefreshes'[k] = gameRefreshes[k] + 1 <=>
                              k \in gameCancels /\ k \in ks
  BY DEF IInv, TypeOK, CancelRefreshes
<1>2. \A r \in Refreshers : refresh[r].pc # "idle" =>
         /\ refresh[r].key \in Keys /\ refresh[r].generation \in Nat
         /\ refresh[r].generation <= gameRefreshes[refresh[r].key]
  BY DEF IInv, Numbered, TypeOK, Refresh
<1>3. Numbered' /\ Distinct'
  BY <1>1, <1>2 DEF Numbered, Distinct, IInv
<1>4. CancelReachesTheWriter'
  BY <1>1, <1>2 DEF CancelReachesTheWriter, IsNewest, InFlight, IInv
<1>5. QED
  BY <1>1, <1>3, <1>4 DEF RefreshInv

(* Signing in and out.                                                      *)
LEMMA AccountChangeStep ==
    ASSUME IInv, AccountChange PROVE IInv'
<1>1. AccountTypeOK' /\ Connected'
  <2>1. CASE SwitchClient
    <3>1. CASE PrepareAdditionalSession
      BY <3>1 DEF IInv, TypeOK, AccountTypeOK, Connected, steamConnected,
                  PrepareAdditionalSession, epochVars, States, SteamIDs
    <3>2. ASSUME NEW a \in Accounts, LogOn(a) PROVE AccountTypeOK' /\ Connected'
      BY <3>2 DEF IInv, TypeOK, AccountTypeOK, Connected, steamConnected, LogOn,
                  epochVars, SteamIDs
    <3>3. CASE LoginFails
      BY <3>3 DEF IInv, TypeOK, AccountTypeOK, Connected, steamConnected, LoginFails,
                  epochVars, States, SteamIDs
    <3>4. QED
      BY <2>1, <3>1, <3>2, <3>3 DEF SwitchClient
  <2>2. ASSUME NEW a \in Accounts, OverlappingLogOn(a) PROVE AccountTypeOK' /\ Connected'
    BY <2>2 DEF IInv, TypeOK, AccountTypeOK, Connected, steamConnected,
                OverlappingLogOn, epochVars, SteamIDs
  <2>3. CASE Activate
    BY <2>3, AccountAssumption
       DEF IInv, TypeOK, AccountTypeOK, Connected, steamConnected, Activate,
           activateAccountSession, CancelContext, NoContext, States, SteamIDs
  <2>4. CASE DisconnectSteam
    BY <2>4, AccountAssumption
       DEF IInv, TypeOK, AccountTypeOK, Connected, steamConnected, DisconnectSteam,
           invalidateAccountSession, CancelContext, NoContext, States, SteamIDs
  <2>5. QED
    BY <2>1, <2>2, <2>3, <2>4 DEF AccountChange, ActivateAccount, SignOut
<1>2. UNCHANGED <<enabled, refresh, probe>>
  BY DEF AccountChange
<1>0. gameInventories \in [Keys -> Snapshot] /\ gameRefreshes \in [Keys -> Nat]
  BY DEF IInv, TypeOK
<1>3. /\ gameInventories' \in [Keys -> Snapshot]
      /\ gameRefreshes' \in [Keys -> Nat] /\ gameCancels' \subseteq gameCancels
      /\ RefreshInv'
      /\ \/ gameInventories' = gameInventories
         \/ gameInventories' = [k \in Keys |-> NoSnapshot] /\ gameCancels' = {}
  <2>1. CASE UNCHANGED entryVars
    <3>1. UNCHANGED <<gameInventories, gameRefreshes, gameCancels, refresh>>
      BY <1>2, <2>1 DEF entryVars
    <3>2. Numbered' /\ Distinct' /\ CancelReachesTheWriter'
      BY <3>1 DEF IInv, Numbered, Distinct, CancelReachesTheWriter, IsNewest, InFlight
    <3>3. QED
      BY <1>0, <3>1, <3>2 DEF RefreshInv
  <2>2. CASE CancelRefreshes(Keys) /\ UNCHANGED gameInventories
    <3>1. UNCHANGED refresh
      BY <1>2
    <3>2. /\ gameRefreshes' \in [Keys -> Nat] /\ gameCancels' \subseteq gameCancels
          /\ RefreshInv'
      BY <2>2, <3>1, CancelKeeps
    <3>3. QED
      BY <1>0, <2>2, <3>2
  <2>3. CASE SignOut
    <3>1. /\ CancelRefreshes(Keys)
          /\ gameInventories' = [k \in Keys |-> NoSnapshot]
      BY <2>3 DEF SignOut, DeleteSnapshots
    <3>2. gameCancels' = {}
      BY <3>1 DEF CancelRefreshes, IInv, TypeOK
    <3>3. QED
      BY <1>2, <3>1, <3>2, CancelKeeps, SnapshotTypes
  <2>4. QED
    BY <2>1, <2>2, <2>3 DEF AccountChange, OverlappingLogOn, ActivateAccount, entryVars
<1>4. Loading' /\ DisabledGameIsEmpty'
  BY <1>2, <1>3 DEF IInv, Loading, DisabledGameIsEmpty, Cleared, TypeOK
<1>5. QED
  BY <1>1, <1>2, <1>3, <1>4 DEF IInv, TypeOK, RefreshInv

LEMMA UpdateSettingsStep ==
    ASSUME IInv, NEW flags \in SUBSET Flags, UpdateSettings(flags) PROVE IInv'
<1> DEFINE off == Cleared(Flags \ flags)
<1>1. /\ CancelRefreshes(off) /\ enabled' = flags
      /\ gameInventories' = [k \in Keys |-> IF k \in off THEN NoSnapshot
                                            ELSE gameInventories[k]]
      /\ UNCHANGED <<accountVars, refresh, probe>>
  BY DEF UpdateSettings, DeleteSnapshots
<1>2. /\ gameRefreshes' \in [Keys -> Nat] /\ gameCancels' \subseteq gameCancels
      /\ RefreshInv'
  BY <1>1, CancelKeeps
<1>3. gameInventories' \in [Keys -> Snapshot]
  BY <1>1, SnapshotTypes DEF IInv, TypeOK
<1>4. \A k \in gameCancels' : k \in Keys /\ k \notin off
  BY <1>1 DEF CancelRefreshes, IInv, TypeOK
<1>5. Loading' /\ DisabledGameIsEmpty'
  BY <1>1, <1>2, <1>4 DEF IInv, Loading, DisabledGameIsEmpty, Cleared, TypeOK
<1>6. QED
  BY <1>1, <1>2, <1>3, <1>5
     DEF IInv, TypeOK, AccountTypeOK, Connected, steamConnected, accountVars, RefreshInv
-----------------------------------------------------------------------------
(* The refreshes.                                                           *)
LEMMA RefreshStartStep ==
    ASSUME IInv, NEW r \in Refreshers, NEW g \in Games, RefreshStart(r, g) PROVE IInv'
<1> DEFINE k  == <<connection.steamID, g>>
           n  == gameRefreshes[k] + 1
           me == [NoRefresh EXCEPT !.pc = "started", !.key = k, !.generation = n]
<1>1. k \in Keys /\ k[2] = g /\ FlagOf(g) \in enabled /\ refresh[r].pc = "idle"
  BY DEF IInv, Connected, RefreshStart, Keys, gameInventoryEnabled
<1>2. /\ n \in Nat /\ n = gameRefreshes[k] + 1
      /\ gameRefreshes' = [gameRefreshes EXCEPT ![k] = n]
      /\ gameRefreshes \in [Keys -> Nat] /\ gameInventories \in [Keys -> Snapshot]
      /\ gameInventories' = [gameInventories EXCEPT ![k].status = "loading"]
      /\ gameCancels' = gameCancels \cup {k} /\ gameCancels \subseteq Keys
      /\ refresh' = [refresh EXCEPT ![r] = me] /\ refresh \in [Refreshers -> Refresh]
      /\ UNCHANGED <<accountVars, enabled, probe>>
  <2>1. /\ gameRefreshes \in [Keys -> Nat] /\ gameRefreshes[k] \in Nat
        /\ refresh \in [Refreshers -> Refresh] /\ gameInventories \in [Keys -> Snapshot]
        /\ gameCancels \subseteq Keys
    BY <1>1 DEF IInv, TypeOK
  <2>2. /\ gameRefreshes' = [gameRefreshes EXCEPT ![k] = n]
        /\ refresh' = [refresh EXCEPT ![r] = me]
        /\ gameInventories' = [gameInventories EXCEPT ![k].status = "loading"]
        /\ gameCancels' = gameCancels \cup {k}
        /\ UNCHANGED <<accountVars, enabled, probe>>
    BY <2>1 DEF RefreshStart
  <2>3. QED
    BY <2>1, <2>2
<1>3. me \in Refresh /\ me.pc = "started" /\ me.key = k /\ me.generation = n
  BY <1>1, <1>2, SnapshotTypes DEF NoRefresh, Refresh
<1>4. \A q \in Refreshers : refresh[q].pc # "idle" =>
         /\ q # r /\ refresh[q].key \in Keys /\ refresh[q].generation \in Nat
         /\ refresh[q].generation <= gameRefreshes[refresh[q].key]
  BY <1>1 DEF IInv, TypeOK, Numbered, Refresh
<1> HIDE DEF me, n, k
<1>5. Numbered'
  BY <1>1, <1>2, <1>3, <1>4 DEF Numbered
<1>6. Distinct'
  BY <1>1, <1>2, <1>3, <1>4 DEF Distinct, IInv
<1>7. CancelReachesTheWriter'
  <2> SUFFICES ASSUME NEW j \in Keys
               PROVE  (j \in gameCancels <=> \E q \in Refreshers : IsNewest(q, j))'
    BY DEF CancelReachesTheWriter
  <2>1. CASE j = k
    BY <1>1, <1>2, <1>3, <2>1 DEF IsNewest, InFlight
  <2>2. CASE j # k
    BY <1>1, <1>2, <1>3, <2>2 DEF IsNewest, InFlight, IInv, CancelReachesTheWriter
  <2>3. QED
    BY <2>1, <2>2
<1>8. Loading' /\ gameInventories' \in [Keys -> Snapshot]
  BY <1>1, <1>2 DEF Loading, IInv, Snapshot
<1>9. DisabledGameIsEmpty'
  BY <1>1, <1>2 DEF DisabledGameIsEmpty, IInv, Cleared
<1>10. QED
  BY <1>1, <1>2, <1>3, <1>5, <1>6, <1>7, <1>8, <1>9
     DEF IInv, TypeOK, AccountTypeOK, Connected, steamConnected, accountVars

LEMMA RequestSendStep ==
    ASSUME IInv, NEW r \in Refreshers, RequestSend(r) PROVE IInv'
<1> DEFINE c  == IF refresh[r].key[2] \in GCGames THEN gcClient ELSE NoAccount
           me == [refresh[r] EXCEPT !.pc = "requesting", !.client = c]
<1>1. /\ refresh \in [Refreshers -> Refresh] /\ refresh[r].pc = "started"
      /\ refresh[r] \in Refresh /\ c \in SteamIDs
      /\ UNCHANGED <<accountVars, enabled, entryVars, probe>>
  BY DEF IInv, TypeOK, AccountTypeOK, RequestSend, SteamIDs
<1>2. /\ me \in Refresh /\ me.pc = "requesting" /\ me.key = refresh[r].key
      /\ me.generation = refresh[r].generation
  BY <1>1 DEF Refresh
<1>3. refresh' = [refresh EXCEPT ![r] = me]
  BY <1>1 DEF RequestSend, Refresh
<1> HIDE DEF me
<1>4. RefreshInv'
  BY <1>1, <1>2, <1>3 DEF RefreshInv, Numbered, Distinct, CancelReachesTheWriter,
                         IsNewest, InFlight, IInv, entryVars
<1>5. QED
  BY <1>1, <1>2, <1>3, <1>4
     DEF IInv, TypeOK, AccountTypeOK, Connected, steamConnected, accountVars, RefreshInv,
         entryVars, Loading, DisabledGameIsEmpty, Cleared

LEMMA RefreshCommitStep ==
    ASSUME IInv, NEW r \in Refreshers, RefreshCommit(r) PROVE IInv'
<1> DEFINE k == refresh[r].key
<1>1. /\ refresh \in [Refreshers -> Refresh] /\ refresh[r].pc = "requesting"
      /\ refresh[r] \in Refresh /\ k \in Keys
      /\ refresh' = [refresh EXCEPT ![r] = NoRefresh]
      /\ NoRefresh \in Refresh /\ NoRefresh.pc = "idle"
      /\ UNCHANGED <<accountVars, enabled, probe, gameRefreshes>>
  BY SnapshotTypes DEF IInv, TypeOK, RefreshCommit, Numbered, NoRefresh, entryVars
<1>2. Numbered' /\ Distinct'
  BY <1>1 DEF Numbered, Distinct, IInv
<1>3. CASE gameRefreshes[k] # refresh[r].generation
  <2>1. UNCHANGED entryVars
    BY <1>3 DEF RefreshCommit
  <2>2. CancelReachesTheWriter'
    BY <1>1, <1>3, <2>1 DEF CancelReachesTheWriter, IsNewest, InFlight, IInv, entryVars
  <2>3. QED
    BY <1>1, <1>2, <2>1, <2>2
       DEF IInv, TypeOK, AccountTypeOK, Connected, steamConnected, accountVars,
           entryVars, Loading, DisabledGameIsEmpty, Cleared
<1>4. CASE gameRefreshes[k] = refresh[r].generation
  <2>1. PICK result \in Fetched(refresh[r]) :
           gameInventories' = [gameInventories EXCEPT ![k] = result]
    BY <1>4 DEF RefreshCommit
  <2>2. gameCancels' = gameCancels \ {k}
    BY <1>4 DEF RefreshCommit
  <2>3. result \in Snapshot
    BY <1>1, SnapshotTypes DEF Fetched, Refresh, SteamIDs, Keys
  <2>4. IsNewest(r, k) /\ k \in gameCancels
    BY <1>1, <1>4 DEF IInv, CancelReachesTheWriter, IsNewest, InFlight
  <2>5. CancelReachesTheWriter'
    <3> SUFFICES ASSUME NEW j \in Keys
                 PROVE  (j \in gameCancels <=> \E q \in Refreshers : IsNewest(q, j))'
      BY DEF CancelReachesTheWriter
    <3>1. CASE j = k
      BY <1>1, <1>4, <2>2, <3>1 DEF IsNewest, InFlight, IInv, Distinct
    <3>2. CASE j # k
      BY <1>1, <2>2, <3>2 DEF IsNewest, InFlight, IInv, CancelReachesTheWriter
    <3>3. QED
      BY <3>1, <3>2
  <2>6. Loading' /\ DisabledGameIsEmpty'
    BY <1>1, <2>1, <2>2, <2>4 DEF Loading, DisabledGameIsEmpty, Cleared, IInv, TypeOK
  <2>7. QED
    BY <1>1, <1>2, <2>1, <2>2, <2>3, <2>5, <2>6
       DEF IInv, TypeOK, AccountTypeOK, Connected, steamConnected, accountVars
<1>5. QED
  BY <1>3, <1>4

LEMMA ProbeStep ==
    ASSUME IInv,
           \/ ProbeStart
           \/ \E found \in SUBSET ServiceApps : ProbeReturns(found)
           \/ \E g \in ServiceApps : ProbeStore(g)
    PROVE  IInv'
<1>1. CASE ProbeStart \/ \E found \in SUBSET ServiceApps : ProbeReturns(found)
  <2>1. UNCHANGED <<accountVars, enabled, entryVars, refresh>>
    BY <1>1 DEF ProbeStart, ProbeReturns
  <2>2. probe' \in Probe
    BY <1>1, SnapshotTypes
       DEF ProbeStart, ProbeReturns, Probe, NoProbe, IInv, TypeOK, Connected, SteamIDs
  <2>3. QED
    BY <2>1, <2>2 DEF IInv, TypeOK, AccountTypeOK, Connected, steamConnected, accountVars,
         entryVars, Loading, DisabledGameIsEmpty, Cleared, Numbered, Distinct,
         CancelReachesTheWriter, IsNewest, InFlight
<1>2. ASSUME NEW g \in ServiceApps, ProbeStore(g) PROVE IInv'
  <2> DEFINE k == <<probe.account, g>>
  <2>1. /\ UNCHANGED <<accountVars, enabled, gameRefreshes, gameCancels, refresh>>
        /\ gameInventories' = [gameInventories EXCEPT ![k] = Ready(probe.account)]
        /\ probe.account \in SteamIDs /\ k[2] = g
    BY <1>2 DEF ProbeStore, IInv, TypeOK, Probe
  <2>2. probe' \in Probe
    BY <1>2, SnapshotTypes DEF ProbeStore, IInv, TypeOK, Probe
  <2>3. gameInventories' \in [Keys -> Snapshot]
    BY <2>1, SnapshotTypes DEF IInv, TypeOK
  <2>4. \A j \in Keys : j[2] \notin ServiceApps => gameInventories'[j] = gameInventories[j]
    BY <2>1 DEF IInv, TypeOK
  <2>5. Loading' /\ DisabledGameIsEmpty'
    BY <2>1, <2>4 DEF Loading, DisabledGameIsEmpty, Cleared, IInv, TypeOK
  <2>6. QED
    BY <2>1, <2>2, <2>3, <2>5
       DEF IInv, TypeOK, AccountTypeOK, Connected, steamConnected, accountVars, Numbered,
           Distinct, CancelReachesTheWriter, IsNewest, InFlight
<1>3. QED
  BY <1>1, <1>2

LEMMA NextIInv == IInv /\ [Next]_vars => IInv'
<1> SUFFICES ASSUME IInv, [Next]_vars PROVE IInv'
  OBVIOUS
<1>1. CASE AccountChange
  BY <1>1, AccountChangeStep
<1>2. ASSUME NEW flags \in SUBSET Flags, UpdateSettings(flags) PROVE IInv'
  BY <1>2, UpdateSettingsStep
<1>3. ASSUME NEW r \in Refreshers, RefreshStep(r) PROVE IInv'
  BY <1>3, RequestSendStep, RefreshCommitStep DEF RefreshStep
<1>4. ASSUME NEW r \in Refreshers, NEW g \in Games, RefreshStart(r, g) PROVE IInv'
  BY <1>4, RefreshStartStep
<1>5. CASE UNCHANGED vars
  BY <1>5 DEF vars, entryVars, accountVars, IInv, TypeOK, AccountTypeOK, Connected,
       steamConnected, Numbered, Distinct, CancelReachesTheWriter, IsNewest, InFlight,
       Loading, DisabledGameIsEmpty, Cleared
<1>6. QED
  BY <1>1, <1>2, <1>3, <1>4, <1>5, ProbeStep DEF Next

THEOREM Invariance == Spec => []IInv
  BY InitIInv, NextIInv, PTL DEF Spec

(* Every variable keeps to its type, for any accounts, games and number of  *)
(* concurrent refreshes.                                                    *)
THEOREM TypeCorrect == Spec => []TypeOK
  BY Invariance, PTL DEF IInv

(* A key has a cancel function exactly while its newest refresh runs        *)
(* (service_multigame.go).                                                  *)
THEOREM CancelCorrect == Spec => []CancelReachesTheWriter
  BY Invariance, PTL DEF IInv

(* A disabled game holds neither a snapshot nor a cancel function, of any   *)
(* account (clearGameInventoriesLocked).                                    *)
THEOREM DisabledCorrect == Spec => []DisabledGameIsEmpty
  BY Invariance, PTL DEF IInv

(* What a sign-out or a setting removed comes back only by a new refresh of *)
(* the connected account: a result that arrives later is of a generation    *)
(* that has passed.                                                         *)
THEOREM RemovedCorrect == Spec => RemovedStaysRemoved
<1> DEFINE Back(k) ==
      gameInventories[k].status = "none"
      => gameInventories'[k].status \in {"none", "loading"}
         /\ (gameInventories'[k].status = "loading" =>
               steamConnected /\ k[1] = connection.steamID)
<1>1. ASSUME IInv, [Next]_vars, NEW k \in Cleared(Flags) PROVE Back(k)
  <2>1. /\ k \in Keys /\ k[2] \notin ServiceApps
        /\ gameInventories \in [Keys -> Snapshot]
    BY <1>1 DEF Cleared, IInv, TypeOK
  <2>2. CASE UNCHANGED gameInventories
    BY <2>2
  <2>3. CASE gameInventories' = [j \in Keys |-> NoSnapshot]
    BY <2>1, <2>3 DEF NoSnapshot
  <2>4. ASSUME NEW flags \in SUBSET Flags, UpdateSettings(flags) PROVE Back(k)
    BY <2>1, <2>4 DEF UpdateSettings, DeleteSnapshots, NoSnapshot
  <2>5. ASSUME NEW r \in Refreshers, NEW g \in Games, RefreshStart(r, g) PROVE Back(k)
    <3>1. CASE k = <<connection.steamID, g>>
      BY <2>1, <2>5, <3>1 DEF RefreshStart, Snapshot
    <3>2. CASE k # <<connection.steamID, g>>
      BY <2>1, <2>5, <3>2 DEF RefreshStart
    <3>3. QED
      BY <3>1, <3>2
  <2>6. ASSUME NEW r \in Refreshers, RefreshCommit(r) PROVE Back(k)
    <3>1. CASE gameRefreshes[refresh[r].key] # refresh[r].generation
      BY <2>6, <3>1 DEF RefreshCommit, entryVars
    <3>2. CASE gameRefreshes[refresh[r].key] = refresh[r].generation
      <4>1. IsNewest(r, refresh[r].key) /\ refresh[r].key \in Keys
        BY <1>1, <2>6, <3>2 DEF RefreshCommit, IsNewest, InFlight, IInv, Numbered
      <4>2. k = refresh[r].key => gameInventories[k].status = "loading"
        BY <1>1, <2>1, <4>1 DEF IInv, CancelReachesTheWriter, Loading
      <4>3. QED
        BY <2>1, <2>6, <3>2, <4>1, <4>2 DEF RefreshCommit
    <3>3. QED
      BY <3>1, <3>2
  <2>7. ASSUME NEW g \in ServiceApps, ProbeStore(g) PROVE Back(k)
    <3>1. k # <<probe.account, g>>
      BY <2>1
    <3>2. QED
      BY <2>1, <2>7, <3>1 DEF ProbeStore
  <2>8. QED
    BY <1>1, <2>2, <2>3, <2>4, <2>5, <2>6, <2>7
       DEF Next, AccountChange, OverlappingLogOn, ActivateAccount, SignOut,
           DeleteSnapshots, RefreshStep, RequestSend, ProbeStart, ProbeReturns, vars,
           entryVars
<1>2. IInv /\ [Next]_vars => [\A k \in Cleared(Flags) : Back(k)]_vars
  BY <1>1
<1>3. QED
  BY <1>2, Invariance, PTL DEF Spec, RemovedStaysRemoved
-----------------------------------------------------------------------------
(* The session keys.  Whoever is signed in has a context, so that no        *)
(* look-up makes a new one and only a sign-in moves the epoch on under an   *)
(* account.                                                                 *)
NamedStep == SessionHasContext' /\ [Named!Next]_(Named!keyVars)

LEMMA SameSession ==
    ASSUME SessionHasContext, SignedIn' <=> SignedIn,
           UNCHANGED <<connection.steamID, gcSessionEpoch, gcSessionContext>>
    PROVE  NamedStep
BY DEF NamedStep, SessionHasContext, currentSession, SessionEpoch, Named!keyVars

LEMMA SessionEnds ==
    ASSUME ~SignedIn', gcSessionEpoch \in Nat, gcSessionEpoch' \in Nat,
           gcSessionEpoch' >= gcSessionEpoch,
           gcSessionContext' \in {NoContext, gcSessionEpoch'}
    PROVE  NamedStep
BY DEF NamedStep, SessionHasContext, currentSession, Named!Next, Named!End

LEMMA SessionBegins ==
    ASSUME SignedIn', connection'.steamID \in Accounts, gcSessionEpoch \in Nat,
           gcSessionEpoch' = gcSessionEpoch + 1, gcSessionContext' = gcSessionEpoch'
    PROVE  NamedStep
<1>1. gcSessionContext' # NoContext /\ gcSessionEpoch' > gcSessionEpoch
  BY DEF NoContext
<1>2. currentSession' = [account |-> connection'.steamID, epoch |-> gcSessionEpoch']
  BY <1>1 DEF currentSession, SessionEpoch
<1>3. Named!Begin(connection'.steamID)
  BY <1>1, <1>2 DEF Named!Begin
<1>4. QED
  BY <1>1, <1>3 DEF NamedStep, SessionHasContext, Named!Next

LEMMA AccountChangeNamed ==
    ASSUME AccountTypeOK, SessionHasContext, AccountChange
    PROVE  NamedStep
<1> USE DEF AccountTypeOK
<1>1. CASE PrepareAdditionalSession \/ LoginFails
  BY <1>1, SessionEnds
     DEF PrepareAdditionalSession, LoginFails, epochVars, SignedIn, SessionHasContext
<1>2. CASE \E a \in Accounts : LogOn(a) \/ OverlappingLogOn(a)
  BY <1>2, SameSession DEF LogOn, OverlappingLogOn, epochVars, SignedIn
<1>3. CASE Activate
  BY <1>3, SessionBegins
     DEF Activate, activateAccountSession, SignedIn, SteamIDs
<1>4. CASE DisconnectSteam
  BY <1>4, SessionEnds
     DEF DisconnectSteam, invalidateAccountSession, SignedIn
<1>5. QED
  BY <1>1, <1>2, <1>3, <1>4 DEF AccountChange, SwitchClient, ActivateAccount, SignOut

LEMMA StepNamed ==
    ASSUME AccountTypeOK, SessionHasContext, [Next]_vars
    PROVE  NamedStep
<1>1. CASE AccountChange
  BY <1>1, AccountChangeNamed
<1>2. CASE ~AccountChange
  <2>1. UNCHANGED accountVars
    BY <1>2 DEF Next, UpdateSettings, RefreshStep, RequestSend, RefreshCommit, RefreshStart,
       ProbeStart, ProbeReturns, ProbeStore, vars
  <2>2. QED
    BY <2>1, SameSession DEF accountVars, SignedIn
<1>3. QED
  BY <1>1, <1>2

(* A captured key names one sign-in (docs/multi-account-architecture.md:47),*)
(* also when the client of the connected account is logged on as another.   *)
THEOREM KeysNameSignIns == Spec => ImplementsSessionKeys
<1>1. Init => SessionHasContext /\ Named!Init
  BY DEF Init, AccountInit, SessionHasContext, SignedIn, currentSession, Named!Init
<1>2. TypeOK => AccountTypeOK
  BY DEF TypeOK
<1>3. AccountTypeOK /\ SessionHasContext /\ [Next]_vars
      => SessionHasContext' /\ [Named!Next]_(Named!keyVars)
  BY StepNamed DEF NamedStep
<1>4. QED
  BY <1>1, <1>2, <1>3, TypeCorrect, PTL DEF Spec, ImplementsSessionKeys, Named!Spec
-----------------------------------------------------------------------------
(* The snapshots.  An awaited request is the newest of its key; every step  *)
(* is one of GameSnapshots or leaves what it speaks of alone.               *)
SnapshotStep == [Snapshots!Next]_(Snapshots!snapshotVars)

LEMMA AwaitedIsNewest ==
    ASSUME Numbered
    PROVE  newestRefreshes = {w \in Refreshers \X Keys : IsNewest(w[1], w[2])}
BY DEF Numbered, newestRefreshes, IsNewest, InFlight

(* What is awaited after a step, told from the pairs of request and key.    *)
LEMMA AwaitedAfter ==
    ASSUME Numbered, Numbered', NEW ks, NEW new \in SUBSET (Refreshers \X Keys),
           \A r \in Refreshers, k \in Keys :
               IsNewest(r, k)' <=> (IsNewest(r, k) /\ k \notin ks) \/ <<r, k>> \in new
    PROVE  newestRefreshes' = Snapshots!Without(ks) \cup new
<1>1. newestRefreshes' = {w \in Refreshers \X Keys : IsNewest(w[1], w[2])'}
  BY DEF Numbered, newestRefreshes, IsNewest, InFlight
<1>2. Snapshots!Without(ks) = {w \in newestRefreshes : w[2] \notin ks}
  BY DEF Snapshots!Without
<1>3. \A w \in Refreshers \X Keys :
         IsNewest(w[1], w[2])' <=> (IsNewest(w[1], w[2]) /\ w[2] \notin ks) \/ w \in new
  OBVIOUS
<1> HIDE DEF IsNewest
<1>4. QED
  BY <1>1, <1>2, <1>3, AwaitedIsNewest

LEMMA SameAwaited ==
    ASSUME Numbered, Numbered',
           \A r \in Refreshers, k \in Keys : IsNewest(r, k)' <=> IsNewest(r, k)
    PROVE  UNCHANGED newestRefreshes
<1>1. newestRefreshes' = Snapshots!Without({}) \cup {}
  BY AwaitedAfter
<1>2. QED
  BY <1>1 DEF Snapshots!Without

(* Cancelling reaches whatever is awaited.                                  *)
LEMMA CancelledIsNotAwaited ==
    ASSUME IInv, IInv', NEW ks, CancelRefreshes(ks), UNCHANGED refresh
    PROVE  newestRefreshes' = Snapshots!Without(ks)
<1>1. Numbered /\ Numbered' /\ CancelReachesTheWriter
  BY DEF IInv
<1>2. ASSUME NEW r \in Refreshers, NEW k \in Keys
      PROVE  IsNewest(r, k)' <=> IsNewest(r, k) /\ k \notin ks
  <2>1. gameRefreshes[k] \in Nat /\ refresh[r].generation \in Nat
    BY DEF IInv, TypeOK, Refresh
  <2>2. InFlight(r, k) => refresh[r].generation <= gameRefreshes[k]
    BY <1>1 DEF Numbered, InFlight
  <2>3. k \notin gameCancels => ~IsNewest(r, k)
    BY <1>1 DEF CancelReachesTheWriter
  <2>4. gameRefreshes'[k] = IF k \in ks \cap gameCancels THEN gameRefreshes[k] + 1
                                                         ELSE gameRefreshes[k]
    BY DEF CancelRefreshes
  <2>5. QED
    BY <2>1, <2>2, <2>3, <2>4 DEF IsNewest, InFlight
<1>3. newestRefreshes' = Snapshots!Without(ks) \cup {}
  BY <1>1, <1>2, AwaitedAfter
<1>4. QED
  BY <1>3

LEMMA RemoveSnapshots ==
    ASSUME IInv, IInv', NEW ks \in removals, CancelRefreshes(ks), DeleteSnapshots(ks),
           UNCHANGED refresh
    PROVE  SnapshotStep
<1>1. newestRefreshes' = Snapshots!Without(ks)
  BY CancelledIsNotAwaited
<1>2. Snapshots!Remove(ks)
  BY <1>1 DEF DeleteSnapshots, NoSnapshot, Snapshots!Remove, Snapshots!Absent
<1>3. QED
  BY <1>2 DEF SnapshotStep, Snapshots!Next

LEMMA AccountChangeSnapshots ==
    ASSUME IInv, IInv', AccountChange PROVE SnapshotStep
<1>1. UNCHANGED refresh /\ Numbered /\ Numbered'
  BY DEF AccountChange, IInv
<1>2. CASE UNCHANGED entryVars
  <2>1. UNCHANGED newestRefreshes
    BY <1>1, <1>2, SameAwaited DEF IsNewest, InFlight, entryVars
  <2>2. QED
    BY <1>2, <2>1 DEF SnapshotStep, Snapshots!snapshotVars, entryVars
<1>3. CASE CancelRefreshes(Keys) /\ UNCHANGED gameInventories
  <2>1. newestRefreshes' = Snapshots!Without(Keys)
    BY <1>1, <1>3, CancelledIsNotAwaited
  <2>2. newestRefreshes \subseteq Refreshers \X Keys
    BY <1>1, AwaitedIsNewest
  <2>3. Snapshots!GiveUp
    BY <1>3, <2>1, <2>2 DEF Snapshots!GiveUp, Snapshots!Without
  <2>4. QED
    BY <2>3 DEF SnapshotStep, Snapshots!Next
<1>4. CASE SignOut
  BY <1>1, <1>4, RemoveSnapshots DEF SignOut, removals
<1>5. QED
  BY <1>2, <1>3, <1>4 DEF AccountChange, ActivateAccount, entryVars

LEMMA RequestSnapshot ==
    ASSUME IInv, IInv', NEW r \in Refreshers, NEW g \in Games, RefreshStart(r, g)
    PROVE  SnapshotStep
<1> DEFINE k == <<connection.steamID, g>>
           n == gameRefreshes[k] + 1
<1>1. k \in Keys /\ refresh[r].pc = "idle"
  BY DEF IInv, Connected, RefreshStart, Keys
<1>2. /\ gameRefreshes' = [gameRefreshes EXCEPT ![k] = n]
      /\ gameRefreshes \in [Keys -> Nat] /\ n \in Nat /\ n > gameRefreshes[k]
      /\ refresh \in [Refreshers -> Refresh] /\ refresh' \in [Refreshers -> Refresh]
      /\ refresh'[r].pc = "started" /\ refresh'[r].key = k
      /\ refresh'[r].generation = n
      /\ \A q \in Refreshers : q # r => refresh'[q] = refresh[q]
      /\ gameInventories' = [gameInventories EXCEPT ![k].status = "loading"]
  <2> DEFINE me == [NoRefresh EXCEPT !.pc = "started", !.key = k, !.generation = n]
  <2>1. /\ gameRefreshes \in [Keys -> Nat] /\ gameRefreshes[k] \in Nat
        /\ refresh \in [Refreshers -> Refresh] /\ refresh' \in [Refreshers -> Refresh]
    BY <1>1 DEF IInv, TypeOK
  <2>2. me.pc = "started" /\ me.key = k /\ me.generation = n
    BY DEF NoRefresh
  <2>3. /\ gameRefreshes' = [gameRefreshes EXCEPT ![k] = n]
        /\ refresh' = [refresh EXCEPT ![r] = me]
        /\ gameInventories' = [gameInventories EXCEPT ![k].status = "loading"]
    BY DEF RefreshStart
  <2> HIDE DEF me
  <2>4. QED
    BY <2>1, <2>2, <2>3
<1>3. \A q \in Refreshers : refresh[q].pc # "idle" =>
         refresh[q].generation \in Nat
         /\ refresh[q].generation <= gameRefreshes[refresh[q].key]
  BY <1>2 DEF IInv, Numbered, Refresh
<1> HIDE DEF k, n
<1>4. ASSUME NEW q \in Refreshers, NEW j \in Keys
      PROVE  IsNewest(q, j)' <=> (IsNewest(q, j) /\ j \notin {k}) \/ <<q, j>> \in {<<r, k>>}
  <2>1. CASE q = r
    BY <1>1, <1>2, <2>1 DEF IsNewest, InFlight
  <2>2. CASE q # r
    <3>1. CASE j = k
      BY <1>1, <1>2, <1>3, <2>2, <3>1 DEF IsNewest, InFlight
    <3>2. CASE j # k
      BY <1>2, <2>2, <3>2 DEF IsNewest, InFlight
    <3>3. QED
      BY <3>1, <3>2
  <2>3. QED
    BY <2>1, <2>2
<1>5. newestRefreshes' = Snapshots!Without({k}) \cup {<<r, k>>}
  <2>1. {<<r, k>>} \in SUBSET (Refreshers \X Keys) /\ Numbered /\ Numbered'
    BY <1>1 DEF IInv
  <2> DEFINE new == {<<r, k>>}
  <2>2. \A q \in Refreshers, j \in Keys :
           IsNewest(q, j)' <=> (IsNewest(q, j) /\ j \notin {k}) \/ <<q, j>> \in new
    BY <1>4
  <2> HIDE DEF new, IsNewest
  <2>3. newestRefreshes' = Snapshots!Without({k}) \cup new
    BY <2>1, <2>2, AwaitedAfter DEF new
  <2>4. QED
    BY <2>3 DEF new
<1>6. Snapshots!Request(k)
  BY <1>2, <1>5 DEF Snapshots!Request
<1>7. QED
  BY <1>1, <1>6 DEF SnapshotStep, Snapshots!Next

LEMMA AnswerSnapshot ==
    ASSUME IInv, IInv', NEW r \in Refreshers, RefreshCommit(r)
    PROVE  SnapshotStep
<1> DEFINE k == refresh[r].key
<1>1. /\ refresh \in [Refreshers -> Refresh] /\ refresh[r].pc = "requesting"
      /\ refresh[r] \in Refresh /\ k \in Keys
      /\ refresh'[r].pc = "idle"
      /\ \A q \in Refreshers : q # r => refresh'[q] = refresh[q]
      /\ UNCHANGED gameRefreshes
      /\ Numbered /\ Numbered' /\ Distinct
  BY DEF IInv, TypeOK, RefreshCommit, Numbered, NoRefresh, entryVars
<1>2. CASE gameRefreshes[k] # refresh[r].generation
  <2>1. \A q \in Refreshers, j \in Keys : IsNewest(q, j)' <=> IsNewest(q, j)
    BY <1>1, <1>2 DEF IsNewest, InFlight
  <2>2. UNCHANGED <<gameInventories, newestRefreshes>>
    BY <1>1, <1>2, <2>1, SameAwaited DEF RefreshCommit, entryVars
  <2>3. QED
    BY <2>2 DEF SnapshotStep, Snapshots!snapshotVars
<1>3. CASE gameRefreshes[k] = refresh[r].generation
  <2>1. PICK result \in Fetched(refresh[r]) :
           gameInventories' = [gameInventories EXCEPT ![k] = result]
    BY <1>3 DEF RefreshCommit
  <2>2. result \in Snapshots!Answers(k)
    BY <1>1 DEF Fetched, Refresh, SteamIDs, Keys, errorSnapshot, Ready, Snapshots!Answers,
                Snapshots!Failed, Snapshots!Items
  <2>3. ASSUME NEW q \in Refreshers, NEW j \in Keys
        PROVE  IsNewest(q, j)' <=> (IsNewest(q, j) /\ j \notin {k})
    BY <1>1, <1>3 DEF IsNewest, InFlight, Distinct
  <2>4. newestRefreshes' = Snapshots!Without({k}) \cup {}
    BY <1>1, <2>3, AwaitedAfter
  <2>5. <<r, k>> \in newestRefreshes
    BY <1>1, <1>3 DEF newestRefreshes, IsNewest, InFlight
  <2>6. Snapshots!Answer(k)
    BY <2>1, <2>2, <2>4 DEF Snapshots!Answer
  <2>7. QED
    BY <2>5, <2>6 DEF SnapshotStep, Snapshots!Next
<1>4. QED
  BY <1>2, <1>3

(* A probe has captured an account that was connected.                      *)
ProbeHasAccount == probe.pc # "idle" => probe.account \in Accounts

LEMMA StepProbeHasAccount ==
    ASSUME IInv, ProbeHasAccount, [Next]_vars PROVE ProbeHasAccount'
<1>1. CASE ProbeStart
  BY <1>1 DEF ProbeStart, IInv, TypeOK, Connected, ProbeHasAccount, NoProbe
<1>2. ASSUME \/ \E found \in SUBSET ServiceApps : ProbeReturns(found)
             \/ \E g \in ServiceApps : ProbeStore(g)
      PROVE  ProbeHasAccount'
  <2>1. probe.pc # "idle" /\ probe \in Probe
    BY <1>2 DEF ProbeReturns, ProbeStore, IInv, TypeOK
  <2>2. probe'.pc = "idle" \/ probe'.account = probe.account
    <3>1. ASSUME NEW found \in SUBSET ServiceApps, ProbeReturns(found)
          PROVE  probe'.pc = "idle" \/ probe'.account = probe.account
      BY <2>1, <3>1 DEF ProbeReturns, NoProbe, Probe
    <3>2. ASSUME NEW g \in ServiceApps, ProbeStore(g)
          PROVE  probe'.pc = "idle" \/ probe'.account = probe.account
      BY <2>1, <3>2 DEF ProbeStore, NoProbe, Probe
    <3>3. QED
      BY <1>2, <3>1, <3>2
  <2>3. QED
    BY <2>1, <2>2 DEF ProbeHasAccount
<1>3. CASE UNCHANGED probe
  BY <1>3 DEF ProbeHasAccount
<1>4. QED
  BY <1>1, <1>2, <1>3 DEF Next, AccountChange, UpdateSettings, RefreshStep, RequestSend,
     RefreshCommit, RefreshStart, vars

LEMMA ProbeSnapshot ==
    ASSUME IInv, IInv', ProbeHasAccount, NEW g \in ServiceApps, ProbeStore(g)
    PROVE  SnapshotStep
<1> DEFINE k == <<probe.account, g>>
<1>1. k \in Accounts \X ServiceApps /\ k[1] = probe.account
  BY DEF ProbeStore, ProbeHasAccount
<1>2. gameInventories' = [gameInventories EXCEPT ![k] = Snapshots!Items(k[1])]
  BY DEF ProbeStore, Ready, Snapshots!Items
<1>3. UNCHANGED newestRefreshes
  <2>1. \A q \in Refreshers, j \in Keys : IsNewest(q, j)' <=> IsNewest(q, j)
    BY DEF ProbeStore, IsNewest, InFlight
  <2>2. QED
    BY <2>1, SameAwaited DEF IInv
<1> HIDE DEF k
<1>4. Snapshots!Probe(k)
  BY <1>2, <1>3 DEF Snapshots!Probe
<1>5. QED
  BY <1>1, <1>4 DEF SnapshotStep, Snapshots!Next

LEMMA StepSnapshots ==
    ASSUME IInv, IInv', ProbeHasAccount, [Next]_vars
    PROVE  SnapshotStep
<1>1. ASSUME NEW flags \in SUBSET Flags, UpdateSettings(flags) PROVE SnapshotStep
  <2>1. Flags \ flags \in SUBSET Flags
    OBVIOUS
  <2>2. Cleared(Flags \ flags) \in removals
    BY <2>1 DEF removals
  <2>3. QED
    BY <1>1, <2>2, RemoveSnapshots DEF UpdateSettings
<1>2. ASSUME NEW r \in Refreshers, RequestSend(r) PROVE SnapshotStep
  <2>1. \A q \in Refreshers, j \in Keys : IsNewest(q, j)' <=> IsNewest(q, j)
    <3>1. /\ refresh \in [Refreshers -> Refresh] /\ refresh[r].pc = "started"
          /\ gameRefreshes' = gameRefreshes
      BY <1>2 DEF RequestSend, IInv, TypeOK, entryVars
    <3>2. /\ refresh'[r].pc = "requesting" /\ refresh'[r].key = refresh[r].key
          /\ refresh'[r].generation = refresh[r].generation
          /\ \A q \in Refreshers : q # r => refresh'[q] = refresh[q]
      BY <1>2, <3>1 DEF RequestSend, Refresh
    <3>3. QED
      BY <3>1, <3>2 DEF IsNewest, InFlight
  <2>2. UNCHANGED <<gameInventories, newestRefreshes>>
    BY <1>2, <2>1, SameAwaited DEF RequestSend, entryVars, IInv
  <2>3. QED
    BY <2>2 DEF SnapshotStep, Snapshots!snapshotVars
<1>3. CASE ProbeStart \/ (\E found \in SUBSET ServiceApps : ProbeReturns(found))
           \/ UNCHANGED vars
  <2>1. UNCHANGED <<gameInventories, gameRefreshes, refresh>>
    BY <1>3 DEF ProbeStart, ProbeReturns, vars, entryVars
  <2>2. UNCHANGED newestRefreshes
    BY <2>1, SameAwaited DEF IsNewest, InFlight, IInv
  <2>3. QED
    BY <2>1, <2>2 DEF SnapshotStep, Snapshots!snapshotVars
<1>4. QED
  BY <1>1, <1>2, <1>3, AccountChangeSnapshots, RequestSnapshot, AnswerSnapshot,
     ProbeSnapshot DEF Next, RefreshStep

(* The refreshes of a key do what GameSnapshots promises: whatever account  *)
(* switches, sign-outs, settings and probes interleave, a snapshot changes  *)
(* only by the answer to its newest request, by being removed or by a       *)
(* probe, and no request is answered that was superseded or given up        *)
(* (service_multigame.go, gameRefreshes).                                   *)
THEOREM RefreshesImplementSnapshots == Spec => ImplementsGameSnapshots
<1>1. Init => Snapshots!Init /\ ProbeHasAccount
  BY DEF Init, Snapshots!Init, NoSnapshot, Snapshots!Absent, newestRefreshes, IsNewest,
         InFlight, NoRefresh, NoProbe, ProbeHasAccount
<1>2. IInv /\ ProbeHasAccount /\ [Next]_vars => ProbeHasAccount'
  BY StepProbeHasAccount
<1>3. IInv /\ IInv' /\ ProbeHasAccount /\ [Next]_vars
      => [Snapshots!Next]_(Snapshots!snapshotVars)
  BY StepSnapshots DEF SnapshotStep
<1>4. QED
  BY <1>1, <1>2, <1>3, Invariance, PTL
     DEF Spec, ImplementsGameSnapshots, Snapshots!Spec
=============================================================================
