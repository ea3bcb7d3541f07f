------------------------- MODULE GCReadinessProofs -------------------------
(***************************************************************************)
(* Proofs about GCReadiness, for every set of accounts, apps and calls and *)
(* every bound on the epoch: type correctness, single flight, no stranded  *)
(* waiter, only the current epoch known, and success only for the session  *)
(* in use.                                                                 *)
(***************************************************************************)
EXTENDS GCReadiness, TLAPS

LEMMA NoKeyType == NoKey \in Key
BY CallAssumption DEF NoKey, Key, SteamIDs

LEMMA InitTypeOK == Init => TypeOK
BY NoKeyType, AccountAssumption, CallAssumption
   DEF Init, AccountInit, TypeOK, AccountTypeOK, States, SteamIDs, NoContext,
       EmptyMap, SessionState, PCs, Returned, InFlight

LEMMA CurrentKeyType ==
    ASSUME TypeOK, NEW app \in Apps
    PROVE  /\ currentGCSessionKey(app) \in Key
           /\ currentGCSessionKey(app).app = app
           /\ currentGCSessionKey(app).account = connection.steamID
           /\ currentGCSessionKey(app).epoch = SessionEpoch
           /\ SessionEpoch \in Nat
BY DEF TypeOK, AccountTypeOK, currentGCSessionKey, SessionEpoch, Key, NoContext

LEMMA LookupKeyType ==
    ASSUME TypeOK, LookupKey
    PROVE  /\ gcSessionEpoch' \in Nat
           /\ gcSessionContext' \in Nat
           /\ canceled' \subseteq Nat
BY DEF TypeOK, AccountTypeOK, LookupKey, SessionEpoch, NoContext

LEMMA AccountChangeType ==
    ASSUME TypeOK, AccountChange PROVE TypeOK'
<1>1. AccountTypeOK'
  BY DEF TypeOK, AccountTypeOK, AccountChange, SwitchClient, SessionConflict,
         PrepareAdditionalSession, LogOn, LoginFails, Activate, DisconnectSteam,
         activateAccountSession, invalidateAccountSession, CancelContext,
         States, SteamIDs, NoContext, epochVars
<1>2. /\ DOMAIN gcSessions' \subseteq Key
      /\ gcSessions' \in [DOMAIN gcSessions' -> SessionState]
  BY DEF TypeOK, AccountChange, EmptyMap
<1>3. QED
  BY <1>1, <1>2 DEF TypeOK, AccountChange, callVars

LEMMA LoopHeadType ==
    ASSUME TypeOK, NEW c \in Calls, NEW app \in Apps, LoopHead(c, app)
    PROVE  TypeOK'
<1> DEFINE k == currentGCSessionKey(app)
           v == [readyAt |-> "zero", readyBy |-> NoAccount,
                 checking |-> c, lastErr |-> FALSE]
<1>1. AccountTypeOK'
  BY LookupKeyType DEF TypeOK, AccountTypeOK, LoopHead, loginVars
<1>2. /\ DOMAIN gcSessions' \subseteq Key
      /\ gcSessions' \in [DOMAIN gcSessions' -> SessionState]
  <2>1. gcSessions' = gcSessions \/ gcSessions' = Put(gcSessions, k, v)
    BY DEF LoopHead
  <2>2. v \in SessionState
    BY DEF SessionState, SteamIDs
  <2>3. k \in Key
    BY CurrentKeyType
  <2> HIDE DEF k, v
  <2>4. QED
    BY <2>1, <2>2, <2>3 DEF TypeOK, Put
<1>3. /\ callKey' \in [Calls -> Key]
      /\ pc' \in [Calls -> PCs]
      /\ requestClient' \in [Calls -> SteamIDs]
  BY NoKeyType, CurrentKeyType
     DEF LoopHead, TypeOK, Return, PCs, InFlight, Returned, SteamIDs
<1>4. waitingOn' \in [Calls -> Calls \cup {NoCall}]
  BY DEF LoopHead, TypeOK, Return, SessionState
<1>5. QED
  BY <1>1, <1>2, <1>3, <1>4 DEF TypeOK, LoopHead

LEMMA CallStepType ==
    ASSUME TypeOK, NEW c \in Calls, CallStep(c) \/ WaitCtxDone(c)
    PROVE  TypeOK'
<1>1. CASE EnsureContinue(c)
  <2>1. callKey[c].app \in Apps
    BY DEF TypeOK, Key
  <2>2. QED
    BY <1>1, <2>1, LoopHeadType DEF EnsureContinue
<1>2. CASE LeaderFinish(c)
  <2>1. AccountTypeOK'
    BY <1>2, LookupKeyType DEF TypeOK, AccountTypeOK, LeaderFinish, loginVars
  <2>2. /\ DOMAIN gcSessions' \subseteq Key
        /\ gcSessions' \in [DOMAIN gcSessions' -> SessionState]
    BY <1>2 DEF TypeOK, LeaderFinish, SessionState
  <2>3. QED
    BY <1>2, <2>1, <2>2, NoKeyType
       DEF TypeOK, LeaderFinish, Return, PCs, Returned, SteamIDs
<1>3. CASE \/ WaitSuperseded(c) \/ WaitClosed(c) \/ Recheck(c) \/ SendRequest(c)
           \/ (\E ok \in BOOLEAN : RequestReturns(c, ok)) \/ WaitCtxDone(c)
  BY <1>3, NoKeyType
     DEF TypeOK, AccountTypeOK, WaitSuperseded, WaitClosed, Recheck, SendRequest,
         RequestReturns, WaitCtxDone, Return, PCs, InFlight, Returned, SteamIDs,
         callerVars, accountVars
<1>4. QED
  BY <1>1, <1>2, <1>3 DEF CallStep, OwnStep

LEMMA MarkType ==
    ASSUME TypeOK, NEW m \in marks, markGCSessionReady(m)
    PROVE  TypeOK'
<1> DEFINE k == currentGCSessionKey(m.app)
           checking == IF k \in DOMAIN gcSessions THEN gcSessions[k].checking ELSE NoCall
           v == [readyAt |-> "fresh", readyBy |-> m.client,
                 checking |-> checking, lastErr |-> FALSE]
<1>1. m.app \in Apps /\ m.client \in Accounts
  BY DEF TypeOK
<1>2. v \in SessionState
  BY <1>1 DEF TypeOK, SessionState, SteamIDs
<1>3. k \in Key
  BY <1>1, CurrentKeyType
<1>4. gcSessions' = Put(gcSessions, k, v) \/ gcSessions' = gcSessions
  BY DEF markGCSessionReady
<1> HIDE DEF k, v
<1>5. /\ DOMAIN gcSessions' \subseteq Key
      /\ gcSessions' \in [DOMAIN gcSessions' -> SessionState]
  BY <1>2, <1>3, <1>4 DEF TypeOK, Put
<1>6. AccountTypeOK'
  BY LookupKeyType DEF TypeOK, AccountTypeOK, markGCSessionReady, loginVars
<1>7. QED
  BY <1>5, <1>6 DEF TypeOK, markGCSessionReady, callVars

LEMMA StepType == ASSUME TypeOK, [Next]_vars PROVE TypeOK'
<1>1. CASE AccountChange
  BY <1>1, AccountChangeType
<1>2. ASSUME NEW c \in Calls, NEW app \in Apps, EnsureStart(c, app) PROVE TypeOK'
  BY <1>2, LoopHeadType DEF EnsureStart
<1>3. ASSUME NEW c \in Calls, CallStep(c) \/ WaitCtxDone(c) PROVE TypeOK'
  BY <1>3, CallStepType
<1>4. ASSUME NEW app \in Apps, RefreshAnswered(app) PROVE TypeOK'
  BY <1>4 DEF RefreshAnswered, TypeOK, AccountTypeOK, accountVars, callVars, SteamIDs
<1>5. ASSUME NEW m \in marks, markGCSessionReady(m) PROVE TypeOK'
  BY <1>5, MarkType
<1>6. ASSUME NEW k \in DOMAIN gcSessions, Expire(k) PROVE TypeOK'
  BY <1>6 DEF Expire, TypeOK, AccountTypeOK, accountVars, callVars, SessionState
<1>7. CASE UNCHANGED vars
  BY <1>7 DEF TypeOK, AccountTypeOK, vars, accountVars, callVars
<1>8. QED
  BY <1>1, <1>2, <1>3, <1>4, <1>5, <1>6, <1>7 DEF Next

(* Every reachable state is well typed: the readiness map only ever holds  *)
(* session states under session keys.                                      *)
THEOREM TypeCorrect == Spec => []TypeOK
<1>1. Init => TypeOK
  BY InitTypeOK
<1>2. TypeOK /\ [Next]_vars => TypeOK'
  BY StepType
<1>3. QED
  BY <1>1, <1>2, PTL DEF Spec
-----------------------------------------------------------------------------
LEMMA NoContextNoKeys ==
    ASSUME IInv, gcSessionContext = NoContext PROVE DOMAIN gcSessions = {}
<1>1. gcSessionEpoch \in Nat /\ gcSessionContext \in Nat
  BY DEF IInv, TypeOK, AccountTypeOK
<1>2. ASSUME NEW k \in DOMAIN gcSessions PROVE FALSE
  BY <1>1 DEF IInv, OnlyCurrentEpochKnown, ChecksOwned, NoContext
<1>3. QED
  BY <1>2

(* The key lookup changes the epoch only when there is no context, and then *)
(* the map is empty and no call carries a key of the new epoch.             *)
LEMMA LookupKeyFacts ==
    ASSUME IInv, LookupKey
    PROVE  /\ gcSessionEpoch <= gcSessionEpoch'
           /\ canceled' = canceled
           /\ \/ gcSessionEpoch' = gcSessionEpoch /\ gcSessionContext' = gcSessionContext
              \/ /\ gcSessionEpoch' = gcSessionEpoch + 1
                 /\ gcSessionContext = NoContext
                 /\ gcSessionContext' = gcSessionEpoch'
                 /\ DOMAIN gcSessions = {}
<1>1. gcSessionEpoch \in Nat /\ gcSessionContext \in Nat
  BY DEF IInv, TypeOK, AccountTypeOK
<1>2. gcSessionContext = NoContext => DOMAIN gcSessions = {}
  BY NoContextNoKeys
<1>3. QED
  BY <1>1, <1>2 DEF LookupKey, SessionEpoch, NoContext

LEMMA AccountChangeInv ==
    ASSUME IInv, TypeOK', AccountChange PROVE IInv'
<1> USE DEF IInv
<1>1. CASE (SwitchClient \/ SessionConflict) /\ UNCHANGED gcSessions
  BY <1>1 DEF AccountChange, SwitchClient, SessionConflict, PrepareAdditionalSession, LogOn,
     LoginFails, epochVars, callVars, ContextInv, KeysBegun,
     OnlyCurrentEpochKnown, LeadersRegistered, ChecksOwned, SingleFlight,
     NoStrandedWaiter
<1>2. CASE (Activate \/ DisconnectSteam) /\ gcSessions' = EmptyMap
  <2>1. /\ gcSessionEpoch \in Nat /\ gcSessionContext \in Nat /\ canceled \subseteq Nat
        /\ gcSessionEpoch' = gcSessionEpoch + 1
        /\ gcSessionContext' \in {NoContext, gcSessionEpoch'}
        /\ canceled' = IF gcSessionContext = NoContext THEN canceled
                       ELSE canceled \cup {gcSessionContext}
        /\ DOMAIN gcSessions' = {}
        /\ UNCHANGED <<closed, pc, callKey, waitingOn>>
    BY <1>2 DEF TypeOK, AccountTypeOK, Activate, DisconnectSteam,
       activateAccountSession, invalidateAccountSession, CancelContext,
       EmptyMap, AccountChange, callVars
  <2>2. ContextInv'
    BY <2>1 DEF ContextInv, NoContext
  <2>3. KeysBegun' /\ LeadersRegistered'
    BY <2>1 DEF KeysBegun, LeadersRegistered, TypeOK, Key
  <2>4. OnlyCurrentEpochKnown' /\ ChecksOwned' /\ SingleFlight'
    BY <2>1 DEF OnlyCurrentEpochKnown, ChecksOwned, SingleFlight
  <2>5. NoStrandedWaiter'
    <3>1. \A k \in DOMAIN gcSessions : k.epoch \in canceled'
      BY <2>1 DEF OnlyCurrentEpochKnown, ChecksOwned, NoContext
    <3>2. QED
      BY <2>1, <3>1 DEF NoStrandedWaiter
  <2>6. QED
    BY <2>2, <2>3, <2>4, <2>5
<1>3. QED
  BY <1>1, <1>2 DEF AccountChange

(* Steps of a call that leave the map, the epoch and the channels alone.    *)
LEMMA LocalStepInv ==
    ASSUME IInv, TypeOK', NEW c \in Calls,
           \/ WaitCtxDone(c) \/ WaitSuperseded(c) \/ WaitClosed(c) \/ Recheck(c)
           \/ SendRequest(c) \/ (\E ok \in BOOLEAN : RequestReturns(c, ok))
    PROVE  IInv'
<1> USE DEF IInv
<1>1. /\ UNCHANGED <<gcSessions, closed, gcSessionEpoch, gcSessionContext, canceled>>
      /\ \A d \in Calls : d # c => /\ pc'[d] = pc[d] /\ callKey'[d] = callKey[d]
                                   /\ waitingOn'[d] = waitingOn[d]
  BY DEF WaitCtxDone, WaitSuperseded, WaitClosed, Recheck, SendRequest,
         RequestReturns, Return, callerVars, accountVars, TypeOK
<1>2. \/ pc[c] \in InFlight /\ pc'[c] \in InFlight /\ callKey'[c] = callKey[c]
      \/ /\ pc[c] \in {"waiting", "woken"}
         /\ pc'[c] \in Returned \/ (pc'[c] \in {"woken", "loop"} /\ callKey'[c] = callKey[c])
  BY DEF WaitCtxDone, WaitSuperseded, WaitClosed, Recheck, SendRequest,
         RequestReturns, Return, TypeOK, InFlight, Returned
<1>3. ContextInv' /\ OnlyCurrentEpochKnown'
  BY <1>1 DEF ContextInv, OnlyCurrentEpochKnown
<1>4. KeysBegun'
  BY <1>1, <1>2 DEF KeysBegun, InFlight, Returned
<1>5. LeadersRegistered' /\ SingleFlight'
  BY <1>1, <1>2 DEF LeadersRegistered, SingleFlight, InFlight, Returned
<1>6. ChecksOwned'
  BY <1>1, <1>2 DEF ChecksOwned, InFlight, Returned, TypeOK, SessionState
<1>7. NoStrandedWaiter'
  BY <1>1, <1>2 DEF NoStrandedWaiter, InFlight, Returned
<1>8. QED
  BY <1>3, <1>4, <1>5, <1>6, <1>7

(* The loop head's four outcomes.  A call that leads found nobody checking, *)
(* so it is the only one in flight for the key; a call that waits found a   *)
(* leader that the map names.                                               *)
LEMMA LoopHeadInv ==
    ASSUME IInv, TypeOK', NEW c \in Calls, NEW app \in Apps,
           pc[c] \in {"idle", "loop"}, LoopHead(c, app)
    PROVE  IInv'
<1> DEFINE k == currentGCSessionKey(app)
           v == [readyAt |-> "zero", readyBy |-> NoAccount,
                 checking |-> c, lastErr |-> FALSE]
<1>0. TypeOK
  BY DEF IInv
<1>1. /\ closed' = closed /\ canceled' = canceled
      /\ \A d \in Calls : d # c => /\ pc'[d] = pc[d] /\ callKey'[d] = callKey[d]
                                   /\ waitingOn'[d] = waitingOn[d]
  BY <1>0 DEF LoopHead, LookupKey, Return, TypeOK
<1>2. k \in Key /\ k.epoch = SessionEpoch
  BY <1>0, CurrentKeyType
<1>3. /\ gcSessionEpoch \in Nat /\ gcSessionContext \in Nat /\ canceled \subseteq Nat
      /\ \A d \in Calls : callKey[d].epoch \in Nat
      /\ \A x \in DOMAIN gcSessions : x.epoch \in Nat
  BY <1>0 DEF TypeOK, AccountTypeOK, Key
<1>4. gcSessionContext = NoContext => DOMAIN gcSessions = {}
  BY NoContextNoKeys
<1>5. \/ pc'[c] \in Returned /\ gcSessions' = gcSessions
         /\ (~steamConnected \/ k \in DOMAIN gcSessions)
      \/ /\ steamConnected /\ k \in DOMAIN gcSessions
         /\ gcSessions[k].checking # NoCall
         /\ pc'[c] = "waiting" /\ callKey'[c] = k
         /\ waitingOn'[c] = gcSessions[k].checking
         /\ gcSessions' = gcSessions
      \/ /\ steamConnected
         /\ k \in DOMAIN gcSessions => gcSessions[k].checking = NoCall
         /\ pc'[c] = "leading" /\ callKey'[c] = k
         /\ gcSessions' = Put(gcSessions, k, v)
  BY <1>0 DEF LoopHead, Return, TypeOK, Returned
<1>6. LookupKey
  BY DEF LoopHead
<1> HIDE DEF k, v
<1>7. CASE /\ pc'[c] \in Returned /\ gcSessions' = gcSessions
           /\ (~steamConnected \/ k \in DOMAIN gcSessions)
  <2>1. gcSessionEpoch' = gcSessionEpoch /\ gcSessionContext' = gcSessionContext
    BY <1>6, <1>7, <1>4 DEF LookupKey, SessionEpoch
  <2>2. ContextInv' /\ OnlyCurrentEpochKnown' /\ KeysBegun'
    BY <2>1, <1>1, <1>7 DEF IInv, ContextInv, OnlyCurrentEpochKnown, KeysBegun,
       Returned, InFlight
  <2>3. LeadersRegistered' /\ SingleFlight'
    BY <2>1, <1>1, <1>7 DEF IInv, LeadersRegistered, SingleFlight, Returned, InFlight
  <2>4. ChecksOwned'
    BY <2>1, <1>1, <1>7, <1>0 DEF IInv, ChecksOwned, InFlight, TypeOK, SessionState
  <2>5. NoStrandedWaiter'
    BY <2>1, <1>1, <1>7 DEF IInv, NoStrandedWaiter, Returned, InFlight
  <2>6. QED
    BY <2>2, <2>3, <2>4, <2>5 DEF IInv
<1>8. CASE /\ steamConnected /\ k \in DOMAIN gcSessions
           /\ gcSessions[k].checking # NoCall
           /\ pc'[c] = "waiting" /\ callKey'[c] = k
           /\ waitingOn'[c] = gcSessions[k].checking
           /\ gcSessions' = gcSessions
  <2>1. gcSessionEpoch' = gcSessionEpoch /\ gcSessionContext' = gcSessionContext
    BY <1>6, <1>8, <1>4 DEF LookupKey, SessionEpoch
  <2>2. gcSessions[k].checking \in Calls /\ gcSessions[k].checking # c
    BY <1>8, <1>0 DEF IInv, TypeOK, SessionState, ChecksOwned, InFlight
  <2>3. ContextInv' /\ OnlyCurrentEpochKnown'
    BY <2>1, <1>1, <1>8 DEF IInv, ContextInv, OnlyCurrentEpochKnown
  <2>4. KeysBegun'
    BY <2>1, <1>1, <1>8, <1>3
       DEF IInv, KeysBegun, OnlyCurrentEpochKnown, ChecksOwned, InFlight
  <2>5. LeadersRegistered' /\ SingleFlight'
    BY <2>1, <1>1, <1>8 DEF IInv, LeadersRegistered, SingleFlight, InFlight
  <2>6. ChecksOwned'
    BY <2>1, <1>1, <1>8, <1>0 DEF IInv, ChecksOwned, InFlight, TypeOK, SessionState
  <2>7. NoStrandedWaiter'
    <3>1. ASSUME NEW d \in Calls, pc'[d] = "waiting", d # c
          PROVE  \/ waitingOn[d] \in closed
                 \/ callKey[d].epoch \in canceled
                 \/ /\ waitingOn[d] \in Calls /\ waitingOn[d] # c
                    /\ pc[waitingOn[d]] \in InFlight
                    /\ callKey[waitingOn[d]] = callKey[d]
                    /\ callKey[d] \in DOMAIN gcSessions
                    /\ gcSessions[callKey[d]].checking = waitingOn[d]
      BY <3>1, <1>1 DEF IInv, NoStrandedWaiter, InFlight
    <3>2. pc[gcSessions[k].checking] \in InFlight /\ callKey[gcSessions[k].checking] = k
      BY <1>8 DEF IInv, ChecksOwned
    <3>3. QED
      BY <3>1, <3>2, <2>2, <1>1, <1>8 DEF NoStrandedWaiter
  <2>8. QED
    BY <2>3, <2>4, <2>5, <2>6, <2>7 DEF IInv
<1>9. CASE /\ steamConnected
           /\ k \in DOMAIN gcSessions => gcSessions[k].checking = NoCall
           /\ pc'[c] = "leading" /\ callKey'[c] = k
           /\ gcSessions' = Put(gcSessions, k, v)
  <2>1. /\ gcSessionEpoch' = SessionEpoch /\ gcSessionContext' = SessionEpoch
        /\ k.epoch = gcSessionEpoch' /\ 0 < SessionEpoch /\ gcSessionEpoch <= SessionEpoch
        /\ SessionEpoch = gcSessionEpoch \/ SessionEpoch = gcSessionEpoch + 1
        /\ SessionEpoch \notin canceled
    BY <1>6, <1>9, <1>2, <1>3 DEF LookupKey, SessionEpoch, IInv, ContextInv, NoContext
  <2>2. /\ DOMAIN gcSessions' = DOMAIN gcSessions \cup {k}
        /\ gcSessions'[k].checking = c
        /\ \A x \in DOMAIN gcSessions : x # k => gcSessions'[x] = gcSessions[x]
    BY <1>9 DEF Put, v
  <2>3. \A x \in DOMAIN gcSessions : gcSessionEpoch' = gcSessionEpoch
    BY <1>4, <2>1 DEF SessionEpoch
  <2>4. \A d \in Calls : pc[d] \in InFlight => callKey[d] # k
    BY <1>9, <2>1, <1>3, CallAssumption DEF IInv, KeysBegun, LeadersRegistered
  <2>5. ContextInv'
    BY <2>1, <1>1, <1>3 DEF IInv, ContextInv, NoContext
  <2>6. OnlyCurrentEpochKnown'
    BY <2>1, <2>2, <2>3, <1>1 DEF IInv, OnlyCurrentEpochKnown
  <2>7. KeysBegun'
    BY <2>1, <1>1, <1>3, <1>9 DEF IInv, KeysBegun, InFlight
  <2>8. LeadersRegistered'
    <3>1. ASSUME NEW d \in Calls, d # c, pc'[d] \in InFlight,
                 callKey'[d].epoch = gcSessionEpoch'
          PROVE  /\ callKey[d] \in DOMAIN gcSessions /\ callKey[d] # k
                 /\ gcSessions[callKey[d]].checking = d
      BY <3>1, <1>1, <2>1, <2>4, <1>3 DEF IInv, LeadersRegistered, KeysBegun
    <3>2. QED
      BY <3>1, <2>2, <1>1, <1>9 DEF LeadersRegistered
  <2>9. ChecksOwned'
    <3>1. ASSUME NEW x \in DOMAIN gcSessions, x # k, gcSessions[x].checking # NoCall
          PROVE  /\ gcSessions[x].checking \in Calls /\ gcSessions[x].checking # c
                 /\ pc[gcSessions[x].checking] \in InFlight
                 /\ callKey[gcSessions[x].checking] = x
      BY <3>1, <1>0 DEF IInv, ChecksOwned, TypeOK, SessionState, InFlight
    <3>2. \A x \in DOMAIN gcSessions : 0 < x.epoch
      BY DEF IInv, ChecksOwned
    <3>3. QED
      BY <3>1, <3>2, <2>1, <2>2, <1>1, <1>9 DEF ChecksOwned, InFlight
  <2>10. SingleFlight'
    BY <2>4, <1>1, <1>9 DEF IInv, SingleFlight
  <2>11. NoStrandedWaiter'
    <3>1. ASSUME NEW d \in Calls, pc'[d] = "waiting"
          PROVE  \/ waitingOn[d] \in closed
                 \/ callKey[d].epoch \in canceled
                 \/ /\ waitingOn[d] \in Calls /\ waitingOn[d] # c /\ callKey[d] # k
                    /\ pc[waitingOn[d]] \in InFlight
                    /\ callKey[waitingOn[d]] = callKey[d]
                    /\ callKey[d] \in DOMAIN gcSessions
                    /\ gcSessions[callKey[d]].checking = waitingOn[d]
      BY <3>1, <1>1, <1>9, <2>4 DEF IInv, NoStrandedWaiter, InFlight
    <3>2. ASSUME NEW d \in Calls, pc'[d] = "waiting" PROVE d # c
      BY <3>2, <1>9
    <3>3. QED
      BY <3>1, <3>2, <2>2, <1>1 DEF NoStrandedWaiter
  <2>12. QED
    BY <2>5, <2>6, <2>7, <2>8, <2>9, <2>10, <2>11 DEF IInv
<1>10. QED
  BY <1>5, <1>7, <1>8, <1>9

(* A leader settles the check it made itself, or, when the map was replaced *)
(* or holds another check, nothing; whoever waits on its channel is woken.  *)
LEMMA LeaderFinishInv ==
    ASSUME IInv, TypeOK', NEW c \in Calls, LeaderFinish(c)
    PROVE  IInv'
<1> DEFINE k == callKey[c]
           own == k \in DOMAIN gcSessions /\ gcSessions[k].checking = c
<1>0. TypeOK
  BY DEF IInv
<1>1. /\ pc[c] \in InFlight /\ pc'[c] \in Returned
      /\ \A d \in Calls : d # c => /\ pc'[d] = pc[d] /\ callKey'[d] = callKey[d]
                                   /\ waitingOn'[d] = waitingOn[d]
      /\ closed \subseteq closed'
      /\ own => c \in closed'
  BY <1>0 DEF LeaderFinish, Return, TypeOK, InFlight, Returned
<1>2. /\ DOMAIN gcSessions' = DOMAIN gcSessions
      /\ \A x \in DOMAIN gcSessions :
            IF own /\ x = k THEN gcSessions'[x].checking = NoCall
                            ELSE gcSessions'[x].checking = gcSessions[x].checking
  BY <1>0 DEF LeaderFinish, TypeOK, SessionState
<1>3. /\ gcSessionEpoch <= gcSessionEpoch'
      /\ canceled' = canceled
      /\ \/ gcSessionEpoch' = gcSessionEpoch /\ gcSessionContext' = gcSessionContext
         \/ /\ gcSessionEpoch' = gcSessionEpoch + 1
            /\ gcSessionContext' = gcSessionEpoch'
            /\ DOMAIN gcSessions = {}
  BY LookupKeyFacts DEF LeaderFinish
<1>4. /\ gcSessionEpoch \in Nat /\ gcSessionContext \in Nat /\ canceled \subseteq Nat
      /\ \A d \in Calls : callKey[d].epoch \in Nat
  BY <1>0 DEF TypeOK, AccountTypeOK, Key
<1>5. ContextInv' /\ OnlyCurrentEpochKnown'
  <2>1. ContextInv'
    BY <1>3, <1>4 DEF IInv, ContextInv, NoContext
  <2>2. OnlyCurrentEpochKnown'
    BY <1>2, <1>3 DEF IInv, OnlyCurrentEpochKnown
  <2>3. QED
    BY <2>1, <2>2
<1>6. KeysBegun' /\ SingleFlight'
  BY <1>1, <1>3, <1>4 DEF IInv, KeysBegun, SingleFlight, InFlight, Returned
<1>7. LeadersRegistered'
  <2>1. ASSUME NEW d \in Calls, pc'[d] \in InFlight, callKey'[d].epoch = gcSessionEpoch'
        PROVE  /\ d # c /\ callKey[d] \in DOMAIN gcSessions
               /\ gcSessions[callKey[d]].checking = d
    BY <2>1, <1>1, <1>3, <1>4
       DEF IInv, LeadersRegistered, KeysBegun, InFlight, Returned
  <2>2. QED
    BY <2>1, <1>1, <1>2 DEF LeadersRegistered
<1>8. ChecksOwned'
  <2>1. ASSUME NEW x \in DOMAIN gcSessions, gcSessions'[x].checking # NoCall
        PROVE  /\ gcSessions'[x].checking = gcSessions[x].checking
               /\ gcSessions[x].checking \in Calls /\ gcSessions[x].checking # c
               /\ pc[gcSessions[x].checking] \in InFlight
               /\ callKey[gcSessions[x].checking] = x
    BY <2>1, <1>0, <1>2 DEF IInv, ChecksOwned, TypeOK, SessionState
  <2>2. \A x \in DOMAIN gcSessions : 0 < x.epoch
    BY DEF IInv, ChecksOwned
  <2>3. QED
    BY <2>1, <2>2, <1>1, <1>2 DEF ChecksOwned
<1>9. NoStrandedWaiter'
  <2>1. ASSUME NEW d \in Calls, pc'[d] = "waiting"
        PROVE  /\ d # c
               /\ \/ waitingOn[d] \in closed'
                  \/ callKey[d].epoch \in canceled
                  \/ /\ waitingOn[d] \in Calls /\ waitingOn[d] # c
                     /\ pc[waitingOn[d]] \in InFlight
                     /\ callKey[waitingOn[d]] = callKey[d]
                     /\ callKey[d] \in DOMAIN gcSessions
                     /\ gcSessions[callKey[d]].checking = waitingOn[d]
    <3>1. d # c /\ pc[d] = "waiting"
      BY <2>1, <1>1 DEF Returned
    <3>2. \/ waitingOn[d] \in closed
          \/ callKey[d].epoch \in canceled
          \/ /\ waitingOn[d] \in Calls
             /\ pc[waitingOn[d]] \in InFlight
             /\ callKey[waitingOn[d]] = callKey[d]
             /\ callKey[d] \in DOMAIN gcSessions
             /\ gcSessions[callKey[d]].checking = waitingOn[d]
      BY <3>1 DEF IInv, NoStrandedWaiter
    <3>3. QED
      BY <3>1, <3>2, <1>1
  <2>2. QED
    BY <2>1, <1>1, <1>2, <1>3 DEF NoStrandedWaiter
<1>10. QED
  BY <1>5, <1>6, <1>7, <1>8, <1>9 DEF IInv

(* A readiness mark never touches a running check.                          *)
LEMMA MarkInv ==
    ASSUME IInv, TypeOK', NEW m \in marks, markGCSessionReady(m)
    PROVE  IInv'
<1> DEFINE k == currentGCSessionKey(m.app)
           checking == IF k \in DOMAIN gcSessions THEN gcSessions[k].checking ELSE NoCall
           v == [readyAt |-> "fresh", readyBy |-> m.client,
                 checking |-> checking, lastErr |-> FALSE]
<1>0. TypeOK
  BY DEF IInv
<1>1. UNCHANGED <<closed, pc, callKey, waitingOn>> /\ LookupKey
  BY DEF markGCSessionReady, callVars
<1>2. \/ gcSessions' = gcSessions
      \/ steamConnected /\ gcSessions' = Put(gcSessions, k, v)
  BY DEF markGCSessionReady
<1>3. v.checking = checking
  OBVIOUS
<1>4. k.epoch = SessionEpoch
  BY <1>0, CurrentKeyType DEF TypeOK
<1> HIDE DEF k, v
<1>5. /\ DOMAIN gcSessions \subseteq DOMAIN gcSessions'
      /\ \A x \in DOMAIN gcSessions : gcSessions'[x].checking = gcSessions[x].checking
      /\ \A x \in DOMAIN gcSessions' : x \notin DOMAIN gcSessions =>
            gcSessions'[x].checking = NoCall /\ x = k /\ steamConnected
  BY <1>2, <1>3 DEF Put
<1>6. /\ gcSessionEpoch <= gcSessionEpoch'
      /\ canceled' = canceled
      /\ \/ gcSessionEpoch' = gcSessionEpoch /\ gcSessionContext' = gcSessionContext
         \/ /\ gcSessionEpoch' = gcSessionEpoch + 1
            /\ gcSessionContext' = gcSessionEpoch'
            /\ DOMAIN gcSessions = {}
  BY <1>1, LookupKeyFacts
<1>7. /\ gcSessionEpoch \in Nat /\ gcSessionContext \in Nat /\ canceled \subseteq Nat
      /\ \A d \in Calls : callKey[d].epoch \in Nat
  BY <1>0 DEF TypeOK, AccountTypeOK, Key
<1>8. ContextInv'
  BY <1>6, <1>7 DEF IInv, ContextInv, NoContext
<1>9. steamConnected => /\ k.epoch = gcSessionEpoch' /\ gcSessionContext' = gcSessionEpoch'
                        /\ 0 < k.epoch /\ k.epoch \notin canceled'
  BY <1>1, <1>4, <1>7 DEF LookupKey, SessionEpoch, IInv, ContextInv, NoContext
<1>10. OnlyCurrentEpochKnown'
  BY <1>5, <1>6, <1>9 DEF IInv, OnlyCurrentEpochKnown
<1>11. KeysBegun' /\ SingleFlight'
  BY <1>1, <1>6, <1>7 DEF IInv, KeysBegun, SingleFlight
<1>12. LeadersRegistered'
  BY <1>1, <1>5, <1>6, <1>7 DEF IInv, LeadersRegistered, KeysBegun
<1>13. ChecksOwned'
  BY <1>1, <1>5, <1>9 DEF IInv, ChecksOwned
<1>14. NoStrandedWaiter'
  BY <1>1, <1>5, <1>6 DEF IInv, NoStrandedWaiter
<1>15. QED
  BY <1>8, <1>10, <1>11, <1>12, <1>13, <1>14 DEF IInv

LEMMA InitInv == Init => IInv
<1> SUFFICES ASSUME Init PROVE IInv
  OBVIOUS
<1>1. TypeOK
  BY InitTypeOK
<1>2. DOMAIN gcSessions = {} /\ \A c \in Calls : pc[c] = "idle"
  BY DEF Init, EmptyMap
<1>3. ContextInv
  BY DEF Init, AccountInit, ContextInv, NoContext
<1>4. QED
  BY <1>1, <1>2, <1>3 DEF IInv, KeysBegun, OnlyCurrentEpochKnown,
     LeadersRegistered, ChecksOwned, SingleFlight, NoStrandedWaiter, InFlight

LEMMA StepInv == ASSUME IInv, [Next]_vars PROVE IInv'
<1>0. TypeOK /\ TypeOK'
  BY StepType DEF IInv
<1>1. CASE AccountChange
  BY <1>0, <1>1, AccountChangeInv
<1>2. ASSUME NEW c \in Calls, NEW app \in Apps, EnsureStart(c, app) PROVE IInv'
  BY <1>0, <1>2, LoopHeadInv DEF EnsureStart
<1>3. ASSUME NEW c \in Calls, EnsureContinue(c) PROVE IInv'
  <2>1. callKey[c].app \in Apps
    BY <1>0 DEF TypeOK, Key
  <2>2. QED
    BY <1>0, <1>3, <2>1, LoopHeadInv DEF EnsureContinue
<1>4. ASSUME NEW c \in Calls, LeaderFinish(c) PROVE IInv'
  BY <1>0, <1>4, LeaderFinishInv
<1>5. ASSUME NEW c \in Calls,
             \/ WaitCtxDone(c) \/ WaitSuperseded(c) \/ WaitClosed(c) \/ Recheck(c)
             \/ SendRequest(c) \/ (\E ok \in BOOLEAN : RequestReturns(c, ok))
      PROVE  IInv'
  BY <1>0, <1>5, LocalStepInv
<1>6. ASSUME NEW m \in marks, markGCSessionReady(m) PROVE IInv'
  BY <1>0, <1>6, MarkInv
<1>7. ASSUME NEW k \in DOMAIN gcSessions, Expire(k) PROVE IInv'
  <2>1. /\ UNCHANGED <<closed, pc, callKey, waitingOn, gcSessionEpoch,
                       gcSessionContext, canceled>>
        /\ DOMAIN gcSessions' = DOMAIN gcSessions
        /\ \A x \in DOMAIN gcSessions : gcSessions'[x].checking = gcSessions[x].checking
    BY <1>0, <1>7 DEF Expire, accountVars, callVars, TypeOK, SessionState
  <2>2. QED
    BY <2>1, <1>0 DEF IInv, ContextInv, KeysBegun, OnlyCurrentEpochKnown,
       LeadersRegistered, ChecksOwned, SingleFlight, NoStrandedWaiter
<1>8. CASE (\E app \in Apps : RefreshAnswered(app)) \/ UNCHANGED vars
  <2>1. UNCHANGED <<closed, pc, callKey, waitingOn, gcSessionEpoch,
                    gcSessionContext, canceled, gcSessions>>
    BY <1>8 DEF RefreshAnswered, vars, accountVars, callVars
  <2>2. QED
    BY <2>1, <1>0 DEF IInv, ContextInv, KeysBegun, OnlyCurrentEpochKnown,
       LeadersRegistered, ChecksOwned, SingleFlight, NoStrandedWaiter
<1>9. QED
  BY <1>1, <1>2, <1>3, <1>4, <1>5, <1>6, <1>7, <1>8 DEF Next, CallStep, OwnStep
-----------------------------------------------------------------------------
LEMMA Inductive == Spec => []IInv
<1>1. Init => IInv
  BY InitInv
<1>2. IInv /\ [Next]_vars => IInv'
  BY StepInv
<1>3. QED
  BY <1>1, <1>2, PTL DEF Spec

(* Concurrent ensureGCSession calls for one session share one coordinator  *)
(* request, whatever sign-ins, sign-outs and readiness marks interleave.   *)
THEOREM SingleFlightHolds == Spec => []SingleFlight
<1>1. IInv => SingleFlight
  BY DEF IInv
<1>2. QED
  BY <1>1, Inductive, PTL

(* No waiter of ensureGCSession is left on a channel nobody will close.    *)
THEOREM NoStrandedWaiterHolds == Spec => []NoStrandedWaiter
<1>1. IInv => NoStrandedWaiter
  BY DEF IInv
<1>2. QED
  BY <1>1, Inductive, PTL

(* The readiness map never holds an entry of a session that has ended.     *)
THEOREM OnlyCurrentEpochKnownHolds == Spec => []OnlyCurrentEpochKnown
<1>1. IInv => OnlyCurrentEpochKnown
  BY DEF IInv
<1>2. QED
  BY <1>1, Inductive, PTL

(* A leader of ensureGCSession succeeds only for the session in use.  The   *)
(* key it captured equals the current one, and cannot be the key of a fresh *)
(* context because its epoch had begun.                                     *)
THEOREM LeaderSuccess == Spec => LeaderSuccessIsCurrent
<1> DEFINE A == \A c \in Calls :
         pc[c] \in InFlight /\ pc'[c] = "success" =>
            /\ connection.state = "connected"
            /\ callKey[c].account = connection.steamID
            /\ callKey[c].epoch = gcSessionEpoch
            /\ callKey[c].epoch \notin canceled
<1>1. ASSUME IInv, [Next]_vars PROVE [A]_vars
  <2> SUFFICES ASSUME NEW c \in Calls, pc[c] \in InFlight, pc'[c] = "success", Next
               PROVE  /\ connection.state = "connected"
                      /\ callKey[c].account = connection.steamID
                      /\ callKey[c].epoch = gcSessionEpoch
                      /\ callKey[c].epoch \notin canceled
    BY <1>1
  <2>0. TypeOK
    BY <1>1 DEF IInv
  <2>1. \A d \in Calls : pc[d] \in {"idle", "loop", "waiting", "woken"} => d # c
    BY DEF InFlight
  <2>2. ASSUME NEW d \in Calls, \/ \E app \in Apps : EnsureStart(d, app)
                                \/ WaitCtxDone(d) \/ EnsureContinue(d)
                                \/ WaitSuperseded(d) \/ WaitClosed(d) \/ Recheck(d)
        PROVE  FALSE
    BY <2>0, <2>1, <2>2 DEF EnsureStart, EnsureContinue, LoopHead, WaitCtxDone,
       WaitSuperseded, WaitClosed, Recheck, Return, TypeOK, InFlight
  <2>3. ASSUME NEW d \in Calls, \/ SendRequest(d)
                                \/ \E ok \in BOOLEAN : RequestReturns(d, ok)
        PROVE  FALSE
    BY <2>0, <2>3 DEF SendRequest, RequestReturns, TypeOK, InFlight
  <2>4. ASSUME UNCHANGED pc PROVE FALSE
    BY <2>4 DEF InFlight
  <2>5. PICK d \in Calls : LeaderFinish(d)
    BY <2>2, <2>3, <2>4 DEF Next, CallStep, OwnStep, AccountChange, RefreshAnswered,
       markGCSessionReady, Expire, callVars
  <2>6. d = c /\ IsCurrent(callKey[c])
    BY <2>0, <2>5 DEF LeaderFinish, Return, TypeOK, InFlight
  <2>7. /\ 0 < callKey[c].epoch /\ callKey[c].epoch <= gcSessionEpoch
        /\ callKey[c].epoch \in Nat /\ gcSessionEpoch \in Nat
        /\ callKey[c].app \in Apps
    BY <1>1, <2>0 DEF IInv, KeysBegun, TypeOK, AccountTypeOK, Key
  <2>8. /\ steamConnected /\ callKey[c].account = connection.steamID
        /\ callKey[c].epoch = SessionEpoch
    BY <2>0, <2>6, <2>7, CurrentKeyType DEF IsCurrent
  <2>9. callKey[c].epoch = gcSessionEpoch /\ gcSessionContext = gcSessionEpoch
    BY <1>1, <2>7, <2>8 DEF SessionEpoch, IInv, ContextInv
  <2>10. QED
    BY <1>1, <2>8, <2>9 DEF steamConnected, IInv, ContextInv
<1>2. QED
  BY <1>1, Inductive, PTL DEF Spec, LeaderSuccessIsCurrent
-----------------------------------------------------------------------------
(* The woken waiters.  While an account is signed in the map knows keys of  *)
(* that account only, for a sign-in empties it.                             *)
OneAccount == SignedIn => \A k \in DOMAIN gcSessions : k.account = connection.steamID

LEMMA StepOneAccount ==
    ASSUME TypeOK, OneAccount, [Next]_vars PROVE OneAccount'
<1>1. CASE AccountChange
  BY <1>1 DEF AccountChange, SwitchClient, PrepareAdditionalSession, LogOn, LoginFails,
     SessionConflict, Activate, DisconnectSteam, steamConnected, OneAccount, SignedIn,
     EmptyMap, TypeOK, AccountTypeOK
<1>2. ASSUME NEW app \in Apps, UNCHANGED connection, NEW v,
             \/ gcSessions' = gcSessions
             \/ steamConnected /\ gcSessions' = Put(gcSessions, currentGCSessionKey(app), v)
      PROVE  OneAccount'
  <2>1. \A k \in DOMAIN gcSessions' :
            k \in DOMAIN gcSessions \/ k.account = connection.steamID
    BY <1>2, CurrentKeyType DEF Put
  <2>2. QED
    BY <1>2, <2>1 DEF OneAccount, SignedIn
<1>3. ASSUME NEW c \in Calls, NEW app \in Apps, LoopHead(c, app) PROVE OneAccount'
  BY <1>2, <1>3 DEF LoopHead, loginVars
<1>4. ASSUME NEW c \in Calls, EnsureContinue(c) PROVE OneAccount'
  BY <1>3, <1>4 DEF EnsureContinue, TypeOK, Key
<1>5. ASSUME NEW m \in marks, markGCSessionReady(m) PROVE OneAccount'
  BY <1>2, <1>5 DEF markGCSessionReady, loginVars, TypeOK
<1>6. ASSUME DOMAIN gcSessions' = DOMAIN gcSessions, UNCHANGED connection
      PROVE  OneAccount'
  BY <1>6 DEF OneAccount, SignedIn
<1>7. ASSUME NEW c \in Calls, LeaderFinish(c) PROVE OneAccount'
  <2>1. DOMAIN gcSessions' = DOMAIN gcSessions /\ UNCHANGED connection
    BY <1>7 DEF LeaderFinish, loginVars
  <2>2. QED
    BY <1>6, <2>1
<1>8. ASSUME NEW k \in DOMAIN gcSessions, Expire(k) PROVE OneAccount'
  <2>1. DOMAIN gcSessions' = DOMAIN gcSessions /\ UNCHANGED connection
    BY <1>8 DEF Expire, accountVars
  <2>2. QED
    BY <1>6, <2>1
<1>9. CASE UNCHANGED <<gcSessions, connection>>
  BY <1>6, <1>9
<1>10. QED
  BY <1>1, <1>3, <1>4, <1>5, <1>7, <1>8, <1>9
     DEF Next, CallStep, OwnStep, EnsureStart, WaitCtxDone, WaitSuperseded, WaitClosed, Recheck,
         SendRequest, RequestReturns, RefreshAnswered, callerVars, accountVars, vars

LEMMA AlwaysOneAccount == Spec => []OneAccount
<1>1. Init => OneAccount
  BY DEF Init, AccountInit, OneAccount, SignedIn
<1>2. TypeOK /\ OneAccount /\ [Next]_vars => OneAccount'
  BY StepOneAccount
<1>3. QED
  BY <1>1, <1>2, TypeCorrect, PTL DEF Spec

(* A woken waiter of ensureGCSession succeeds only for the live context and *)
(* the account that is signed in, although it asks for neither: an account  *)
(* change empties the map that it looks at.                                 *)
THEOREM WaiterSuccess == Spec => WaiterSuccessIsLive
<1> DEFINE A == \A c \in Calls :
         pc[c] = "woken" /\ pc'[c] = "success" =>
            /\ callKey[c].epoch = gcSessionContext
            /\ callKey[c].epoch \notin canceled
            /\ SignedIn => callKey[c].account = connection.steamID
<1>1. ASSUME IInv, OneAccount, [Next]_vars PROVE [A]_vars
  <2> SUFFICES ASSUME NEW c \in Calls, pc[c] = "woken", pc'[c] = "success", Next
               PROVE  /\ callKey[c].epoch = gcSessionContext
                      /\ callKey[c].epoch \notin canceled
                      /\ SignedIn => callKey[c].account = connection.steamID
    BY <1>1
  <2>0. TypeOK
    BY <1>1 DEF IInv
  <2>1. ASSUME NEW d \in Calls, \/ \E app \in Apps : EnsureStart(d, app)
                                \/ EnsureContinue(d) \/ WaitCtxDone(d)
                                \/ WaitSuperseded(d) \/ WaitClosed(d)
                                \/ SendRequest(d)
                                \/ \E ok \in BOOLEAN : RequestReturns(d, ok)
                                \/ LeaderFinish(d)
        PROVE  FALSE
    BY <2>0, <2>1 DEF EnsureStart, EnsureContinue, LoopHead, WaitCtxDone, WaitSuperseded,
       WaitClosed, SendRequest, RequestReturns, LeaderFinish, Return, TypeOK
  <2>2. pc' # pc
    OBVIOUS
  <2>3. PICK d \in Calls : Recheck(d)
    BY <2>1, <2>2 DEF Next, CallStep, OwnStep, AccountChange, RefreshAnswered,
       markGCSessionReady, Expire, callVars
  <2>4. d = c /\ callKey[c] \in DOMAIN gcSessions
    BY <2>0, <2>3 DEF Recheck, Return, TypeOK
  <2>5. QED
    BY <1>1, <2>4 DEF IInv, OnlyCurrentEpochKnown, OneAccount
<1>2. QED
  BY <1>1, Inductive, AlwaysOneAccount, PTL DEF Spec, WaiterSuccessIsLive
-----------------------------------------------------------------------------
(* The session keys.  Whoever is signed in has a context, so that no        *)
(* look-up makes a new one and only a sign-in moves the epoch on under an   *)
(* account.                                                                 *)
NamedStep == SessionHasContext' /\ [Named!Next]_(Named!keyVars)

LEMMA SameSession ==
    ASSUME SessionHasContext, UNCHANGED <<connection, gcSessionEpoch, gcSessionContext>>
    PROVE  NamedStep
BY DEF NamedStep, SessionHasContext, SignedIn, currentSession, SessionEpoch, Named!keyVars

LEMMA LookupKeepsSession ==
    ASSUME SessionHasContext, LookupKey, UNCHANGED loginVars
    PROVE  NamedStep
<1>1. UNCHANGED <<connection, gcSessionEpoch, gcSessionContext>>
  BY DEF SessionHasContext, LookupKey, loginVars, steamConnected, SignedIn, SessionEpoch
<1>2. QED
  BY <1>1, SameSession

LEMMA SessionEnds ==
    ASSUME ~SignedIn', gcSessionEpoch \in Nat, gcSessionEpoch' \in Nat,
           gcSessionEpoch' >= gcSessionEpoch,
           gcSessionContext' \in {NoContext, gcSessionEpoch'}
    PROVE  NamedStep
BY DEF NamedStep, SessionHasContext, currentSession, Named!Next, Named!End

LEMMA SessionBegins ==
    ASSUME SignedIn', connection'.steamID \in Accounts, gcSessionEpoch \in Nat,
           gcSessionEpoch' = gcSessionEpoch + 1, gcSessionContext' = gcSessionEpoch'
    PROVE  NamedStep
<1>1. gcSessionContext' # NoContext /\ gcSessionEpoch' > gcSessionEpoch
  BY DEF NoContext
<1>2. currentSession' = [account |-> connection'.steamID, epoch |-> gcSessionEpoch']
  BY <1>1 DEF currentSession, SessionEpoch
<1>3. Named!Begin(connection'.steamID)
  BY <1>1, <1>2 DEF Named!Begin
<1>4. QED
  BY <1>1, <1>3 DEF NamedStep, SessionHasContext, Named!Next

LEMMA AccountChangeNamed ==
    ASSUME AccountTypeOK, SessionHasContext, AccountChange
    PROVE  NamedStep
<1> USE DEF AccountTypeOK
<1>1. CASE SwitchClient
  <2>1. CASE PrepareAdditionalSession \/ LoginFails
    BY <2>1, SessionEnds
       DEF PrepareAdditionalSession, LoginFails, epochVars, SignedIn, SessionHasContext
  <2>2. CASE \E a \in Accounts : LogOn(a)
    BY <2>2, SameSession DEF LogOn, epochVars
  <2>3. QED
    BY <1>1, <2>1, <2>2 DEF SwitchClient
<1>2. CASE SessionConflict
  BY <1>2 DEF SessionConflict, NamedStep, SessionHasContext, SignedIn, steamConnected,
              currentSession, SessionEpoch, epochVars, Named!keyVars
<1>3. CASE Activate
  BY <1>3, SessionBegins
     DEF Activate, activateAccountSession, SignedIn, SteamIDs
<1>4. CASE DisconnectSteam
  BY <1>4, SessionEnds
     DEF DisconnectSteam, invalidateAccountSession, SignedIn
<1>5. QED
  BY <1>1, <1>2, <1>3, <1>4 DEF AccountChange

LEMMA StepNamed ==
    ASSUME AccountTypeOK, SessionHasContext, [Next]_vars
    PROVE  NamedStep
<1>1. CASE AccountChange
  BY <1>1, AccountChangeNamed
<1>2. ASSUME NEW c \in Calls,
             CallStep(c) \/ WaitCtxDone(c) \/ \E app \in Apps : EnsureStart(c, app)
      PROVE  NamedStep
  BY <1>2, LookupKeepsSession, SameSession
     DEF CallStep, OwnStep, WaitCtxDone, EnsureStart, EnsureContinue, LoopHead, WaitSuperseded,
         WaitClosed, Recheck, SendRequest, RequestReturns, LeaderFinish, callerVars,
         accountVars
<1>3. ASSUME NEW m \in marks, markGCSessionReady(m) PROVE NamedStep
  BY <1>3, LookupKeepsSession DEF markGCSessionReady
<1>4. CASE UNCHANGED vars \/ (\E app \in Apps : RefreshAnswered(app))
           \/ \E k \in DOMAIN gcSessions : Expire(k)
  BY <1>4, SameSession DEF vars, RefreshAnswered, Expire, accountVars
<1>5. QED
  BY <1>1, <1>2, <1>3, <1>4 DEF Next

(* A captured key names one sign-in, whatever account changes, look-ups and *)
(* marks come in between (docs/multi-account-architecture.md:47).           *)
THEOREM KeysNameSignIns == Spec => ImplementsSessionKeys
<1>1. Init => SessionHasContext /\ Named!Init
  BY DEF Init, AccountInit, SessionHasContext, SignedIn, currentSession, Named!Init
<1>2. TypeOK => AccountTypeOK
  BY DEF TypeOK
<1>3. AccountTypeOK /\ SessionHasContext /\ [Next]_vars
      => SessionHasContext' /\ [Named!Next]_(Named!keyVars)
  BY StepNamed DEF NamedStep
<1>4. QED
  BY <1>1, <1>2, <1>3, TypeCorrect, PTL DEF Spec, ImplementsSessionKeys, Named!Spec
=============================================================================
