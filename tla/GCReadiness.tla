----------------------------- MODULE GCReadiness -----------------------------
(***************************************************************************)
(* Game Coordinator readiness (service_gc_sessions.go).  Every feature     *)
(* that needs a coordinator calls ensureGCSession first.  Calls for the    *)
(* same account, app and epoch share one request: the first makes a        *)
(* Checking channel and leads, the others wait for the channel, for their  *)
(* own context or for the account context.  Inventory refreshes mark the   *)
(* key ready directly (markGCSessionReady).                                *)
(*                                                                         *)
(* Time is reduced to what the code asks of it: a readiness mark is fresh  *)
(* until Expire.  A Checking channel is named by the call that made it; a  *)
(* call makes at most one, for a leader returns without looping.           *)
(***************************************************************************)
EXTENDS AccountSession

CONSTANTS
    Apps,        \* coordinator AppIDs
    Calls,       \* executions of ensureGCSession
    NoCall       \* a nil Checking channel

ASSUME CallAssumption ==
    /\ NoCall \notin Calls
    /\ Apps # {}

VARIABLES
    gcSessions,  \* Service.gcSessions: gcSessionKey -> gcSessionState
    closed,      \* Checking channels that were closed
    pc, callKey, waitingOn, requestClient,  \* the ensureGCSession calls
    marks        \* refreshes whose request was answered, not yet marked

callVars == <<pc, callKey, waitingOn, requestClient>>
vars == <<accountVars, gcSessions, closed, callVars, marks>>

Key == [account : SteamIDs, app : Apps, epoch : Nat]
NoKey == [account |-> NoAccount, app |-> CHOOSE app \in Apps : TRUE, epoch |-> 0]

(* gcSessionState.  readyAt is "zero", or set within the freshness window,  *)
(* or older than it; checking is the call whose channel it is.  readyBy is  *)
(* history: the account whose coordinator's answer set readyAt.             *)
SessionState == [readyAt : {"zero", "fresh", "expired"},
                 readyBy : SteamIDs,
                 checking : Calls \cup {NoCall},
                 lastErr : BOOLEAN]

Returned == {"success", "failure"}
InFlight == {"leading", "requesting", "answered", "refused"}
PCs      == {"idle", "loop", "waiting", "woken"} \cup InFlight \cup Returned

EmptyMap == [k \in {} |-> 0]
Put(m, k, v) == [x \in DOMAIN m \cup {k} |-> IF x = k THEN v ELSE m[x]]

TypeOK ==
    /\ AccountTypeOK
    /\ DOMAIN gcSessions \subseteq Key
    /\ gcSessions \in [DOMAIN gcSessions -> SessionState]
    /\ closed \subseteq Calls
    /\ pc \in [Calls -> PCs]
    /\ callKey \in [Calls -> Key]
    /\ waitingOn \in [Calls -> Calls \cup {NoCall}]
    /\ requestClient \in [Calls -> SteamIDs]
    /\ marks \subseteq [client : Accounts, app : Apps]

Init ==
    /\ AccountInit
    /\ gcSessions = EmptyMap
    /\ closed = {}
    /\ pc = [c \in Calls |-> "idle"]
    /\ callKey = [c \in Calls |-> NoKey]
    /\ waitingOn = [c \in Calls |-> NoCall]
    /\ requestClient = [c \in Calls |-> NoAccount]
    /\ marks = {}
-----------------------------------------------------------------------------
(* Mutant: signing out keeps the readiness map.                             *)
AccountChangeKeepsMap ==
    /\ \/ (SwitchClient \/ SessionConflict \/ DisconnectSteam) /\ UNCHANGED gcSessions
       \/ Activate /\ gcSessions' = EmptyMap
    /\ UNCHANGED <<closed, callVars, marks>>

(* An account change: a new epoch starts with an empty readiness map.      *)
AccountChange ==
    /\ \/ (SwitchClient \/ SessionConflict) /\ UNCHANGED gcSessions
       \/ (Activate \/ DisconnectSteam) /\ gcSessions' = EmptyMap
    /\ UNCHANGED <<closed, callVars, marks>>
-----------------------------------------------------------------------------
(* ensureGCSession(ctx, appID), one execution per call.                    *)

(* Returning nil or an error ends the call's locals.                        *)
Return(c, ok) ==
    /\ pc' = [pc EXCEPT ![c] = IF ok THEN "success" ELSE "failure"]
    /\ callKey' = [callKey EXCEPT ![c] = NoKey]
    /\ waitingOn' = [waitingOn EXCEPT ![c] = NoCall]
    /\ requestClient' = [requestClient EXCEPT ![c] = NoAccount]

(* Mutant: a call leads a check of its own although one is running.         *)
LoopHeadIgnoresCheck(c, app) ==
    LET k == currentGCSessionKey(app)
    IN /\ LookupKey
       /\ steamConnected
       /\ k \in DOMAIN gcSessions => gcSessions[k].readyAt # "fresh"
       /\ gcSessions' = Put(gcSessions, k, [readyAt |-> "zero", readyBy |-> NoAccount,
                                           checking |-> c, lastErr |-> FALSE])
       /\ pc' = [pc EXCEPT ![c] = "leading"]
       /\ callKey' = [callKey EXCEPT ![c] = k]
       /\ UNCHANGED <<loginVars, closed, marks, waitingOn, requestClient>>

(* The locked head of the loop: an error when not connected, success when   *)
(* the key is fresh, a wait when a check is running, else lead a new check. *)
LoopHead(c, app) ==
    LET k == currentGCSessionKey(app)
        known == k \in DOMAIN gcSessions
    IN /\ LookupKey
       /\ \/ /\ ~steamConnected
             /\ Return(c, FALSE)
             /\ UNCHANGED gcSessions
          \/ /\ steamConnected
             /\ known /\ gcSessions[k].readyAt = "fresh"
             /\ Return(c, TRUE)
             /\ UNCHANGED gcSessions
          \/ /\ steamConnected
             /\ known /\ gcSessions[k].readyAt # "fresh"
             /\ gcSessions[k].checking # NoCall
             /\ pc' = [pc EXCEPT ![c] = "waiting"]
             /\ callKey' = [callKey EXCEPT ![c] = k]
             /\ waitingOn' = [waitingOn EXCEPT ![c] = gcSessions[k].checking]
             /\ UNCHANGED <<gcSessions, requestClient>>
          \/ /\ steamConnected
             /\ known => /\ gcSessions[k].readyAt # "fresh"
                         /\ gcSessions[k].checking = NoCall
             /\ gcSessions' = Put(gcSessions, k,
                   [readyAt |-> "zero", readyBy |-> NoAccount,
                    checking |-> c, lastErr |-> FALSE])
             /\ pc' = [pc EXCEPT ![c] = "leading"]
             /\ callKey' = [callKey EXCEPT ![c] = k]
             /\ waitingOn' = [waitingOn EXCEPT ![c] = NoCall]
             /\ UNCHANGED <<requestClient>>
       /\ UNCHANGED <<loginVars, closed, marks>>

EnsureStart(c, app) == pc[c] = "idle" /\ LoopHead(c, app)

EnsureContinue(c) == pc[c] = "loop" /\ LoopHead(c, callKey[c].app)

callerVars == <<accountVars, marks>>

(* The waiter's select: its own context ends, its account context was       *)
(* cancelled, or the channel it waits on was closed.                        *)
WaitCtxDone(c) ==
    /\ pc[c] = "waiting"
    /\ Return(c, FALSE)
    /\ UNCHANGED <<callerVars, gcSessions, closed>>

WaitSuperseded(c) ==
    /\ pc[c] = "waiting"
    /\ callKey[c].epoch \in canceled
    /\ Return(c, FALSE)
    /\ UNCHANGED <<callerVars, gcSessions, closed>>

WaitClosed(c) ==
    /\ pc[c] = "waiting"
    /\ waitingOn[c] \in closed
    /\ pc' = [pc EXCEPT ![c] = "woken"]
    /\ UNCHANGED <<callerVars, gcSessions, closed, callKey, waitingOn,
                   requestClient>>

(* The locked section of a woken waiter: the finished check's error or      *)
(* success, and another round when neither is there.                        *)
Recheck(c) ==
    LET k == callKey[c]
        settled == k \in DOMAIN gcSessions /\ gcSessions[k].checking = NoCall
    IN /\ pc[c] = "woken"
       /\ \/ settled /\ gcSessions[k].lastErr /\ Return(c, FALSE)
          \/ /\ settled /\ ~gcSessions[k].lastErr
             /\ gcSessions[k].readyAt # "zero"
             /\ Return(c, TRUE)
          \/ /\ settled => ~gcSessions[k].lastErr /\ gcSessions[k].readyAt = "zero"
             /\ pc' = [pc EXCEPT ![c] = "loop"]
             /\ UNCHANGED <<callKey, waitingOn, requestClient>>
       /\ UNCHANGED <<callerVars, gcSessions, closed>>

(* The leader reads Service.gcClient after it has released the mutex.       *)
SendRequest(c) ==
    /\ pc[c] = "leading"
    /\ pc' = [pc EXCEPT ![c] = "requesting"]
    /\ requestClient' = [requestClient EXCEPT ![c] = gcClient]
    /\ UNCHANGED <<callerVars, gcSessions, closed, callKey, waitingOn>>

(* RequestInventory or RequestGameInventory returns: with an error, or, for *)
(* a client that is logged on, with the coordinator's answer.               *)
RequestReturns(c, ok) ==
    /\ pc[c] = "requesting"
    /\ ok => requestClient[c] # NoAccount
    /\ pc' = [pc EXCEPT ![c] = IF ok THEN "answered" ELSE "refused"]
    /\ UNCHANGED <<callerVars, gcSessions, closed, callKey, waitingOn,
                   requestClient>>

(* Mutant: only a success closes the Checking channel.                      *)
LeaderFinishClosesOnSuccess(c) ==
    LET k == callKey[c]
        own == k \in DOMAIN gcSessions /\ gcSessions[k].checking = c
        ok == pc[c] = "answered"
    IN /\ pc[c] \in {"answered", "refused"}
       /\ LookupKey
       /\ gcSessions' = IF own
            THEN [gcSessions EXCEPT ![k].checking = NoCall, ![k].lastErr = ~ok,
                                    ![k].readyAt = IF ok THEN "fresh" ELSE @]
            ELSE gcSessions
       /\ closed' = IF own /\ ok THEN closed \cup {c} ELSE closed
       /\ Return(c, ok /\ IsCurrent(k))
       /\ UNCHANGED <<loginVars, marks>>

(* Mutant: the leader reports the answer without asking whether its session *)
(* is still the current one.                                                *)
LeaderFinishTrustsAnswer(c) ==
    LET k == callKey[c]
        own == k \in DOMAIN gcSessions /\ gcSessions[k].checking = c
        ok == pc[c] = "answered"
    IN /\ pc[c] \in {"answered", "refused"}
       /\ gcSessions' = IF own
            THEN [gcSessions EXCEPT ![k].checking = NoCall, ![k].lastErr = ~ok,
                                    ![k].readyAt = IF ok THEN "fresh" ELSE @]
            ELSE gcSessions
       /\ closed' = IF own THEN closed \cup {c} ELSE closed
       /\ Return(c, ok)
       /\ UNCHANGED <<accountVars, marks>>

(* The leader's last locked section: settle its own check, mark the key     *)
(* ready only when it is still current, and wake the waiters.               *)
LeaderFinish(c) ==
    LET k == callKey[c]
        own == k \in DOMAIN gcSessions /\ gcSessions[k].checking = c
        ok == pc[c] = "answered"
    IN /\ pc[c] \in {"answered", "refused"}
       /\ LookupKey
       /\ gcSessions' =
            IF own
            THEN [gcSessions EXCEPT ![k] =
                    [readyAt |-> IF ok /\ IsCurrent(k) THEN "fresh" ELSE @.readyAt,
                     readyBy |-> IF ok /\ IsCurrent(k) THEN requestClient[c]
                                                       ELSE @.readyBy,
                     checking |-> NoCall, lastErr |-> ~ok]]
            ELSE gcSessions
       /\ closed' = IF own THEN closed \cup {c} ELSE closed
       /\ Return(c, ok /\ IsCurrent(k))
       /\ UNCHANGED <<loginVars, marks>>
-----------------------------------------------------------------------------
(* Mutant: a refresh is answered without a client that is logged on.        *)
RefreshAnsweredByNobody(app) ==
    /\ marks' = marks \cup {[client |-> gcClient, app |-> app]}
    /\ UNCHANGED <<accountVars, gcSessions, closed, callVars>>

(* fetchInventory and RefreshGameInventory, as far as readiness goes: their *)
(* own request was answered by the coordinator of the client they read, and *)
(* then, in a locked section of its own, the key that is current by then is *)
(* marked ready.                                                            *)
RefreshAnswered(app) ==
    /\ gcClient # NoAccount
    /\ marks' = marks \cup {[client |-> gcClient, app |-> app]}
    /\ UNCHANGED <<accountVars, gcSessions, closed, callVars>>

markGCSessionReady(m) ==
    LET k == currentGCSessionKey(m.app)
        checking == IF k \in DOMAIN gcSessions THEN gcSessions[k].checking ELSE NoCall
    IN /\ LookupKey
       /\ gcSessions' =
            IF steamConnected
            THEN Put(gcSessions, k,
                     [readyAt |-> "fresh", readyBy |-> m.client,
                      checking |-> checking, lastErr |-> FALSE])
            ELSE gcSessions
       /\ marks' = marks \ {m}
       /\ UNCHANGED <<loginVars, closed, callVars>>

(* The freshness window of a readiness mark passes.                         *)
Expire(k) ==
    /\ gcSessions[k].readyAt = "fresh"
    /\ gcSessions' = [gcSessions EXCEPT ![k].readyAt = "expired"]
    /\ UNCHANGED <<accountVars, closed, callVars, marks>>
-----------------------------------------------------------------------------
(* What the call does itself, and what it waits for without its context.    *)
OwnStep(c)  == \/ EnsureContinue(c)
               \/ WaitSuperseded(c)
               \/ WaitClosed(c)
               \/ Recheck(c)
               \/ SendRequest(c)
               \/ LeaderFinish(c)
CallStep(c) == OwnStep(c) \/ \E ok \in BOOLEAN : RequestReturns(c, ok)

Next == \/ AccountChange
        \/ \E c \in Calls : \/ \E app \in Apps : EnsureStart(c, app)
                            \/ WaitCtxDone(c)
                            \/ CallStep(c)
        \/ \E app \in Apps : RefreshAnswered(app)
        \/ \E m \in marks : markGCSessionReady(m)
        \/ \E k \in DOMAIN gcSessions : Expire(k)

Spec == Init /\ [][Next]_vars

(* The goroutine of a call is scheduled.  Nothing is assumed of a request:  *)
(* RequestInventory waits for requestMu (gc_inventory_send.go) and for room  *)
(* in the client's event queue (sendGamesPlayed) without looking at its      *)
(* context, and may never return (RequestReturns of GCClient, which fails).  *)
(* Nothing is assumed of the user, the caller's own deadline or the clock.   *)
FairSpec == Spec /\ \A c \in Calls : WF_vars(OwnStep(c))
-----------------------------------------------------------------------------
(* Properties.                                                             *)

(* Concurrent ensureGCSession calls share one coordinator request: no two  *)
(* calls are between making their Checking channel and settling it for the *)
(* same account, app and epoch, whatever sign-ins and readiness marks come *)
(* in between (service_gc_sessions.go, the Checking channel).              *)
SingleFlight ==
    \A c, d \in Calls :
        pc[c] \in InFlight /\ pc[d] \in InFlight /\ callKey[c] = callKey[d] => c = d

(* A waiter of ensureGCSession can always be released: the channel it      *)
(* selects on is closed, or its account context is cancelled, or the call  *)
(* that made the channel is still in flight and the map still leads to it  *)
(* (a leader closes the channel only when the map still holds it).         *)
NoStrandedWaiter ==
    \A c \in Calls : pc[c] = "waiting" =>
        \/ waitingOn[c] \in closed
        \/ callKey[c].epoch \in canceled
        \/ /\ waitingOn[c] \in Calls
           /\ pc[waitingOn[c]] \in InFlight
           /\ callKey[waitingOn[c]] = callKey[c]
           /\ callKey[c] \in DOMAIN gcSessions
           /\ gcSessions[callKey[c]].checking = waitingOn[c]

(* Readiness of an ended session cannot be found again: every entry of the *)
(* map is of the current epoch, whose context is live, so a sign-in, a     *)
(* sign-out or a reconnect of the same account starts from nothing.        *)
OnlyCurrentEpochKnown ==
    \A k \in DOMAIN gcSessions :
        k.epoch = gcSessionEpoch /\ gcSessionContext = gcSessionEpoch
        /\ k.epoch \notin canceled

(* What makes the three invariants above inductive.  The context is nil or *)
(* of the current epoch, and contexts are cancelled at most once; a call   *)
(* carries a key of an epoch that has begun; a leader of the current epoch *)
(* is the one the map names, and whoever the map names is a leader.        *)
ContextInv ==
    /\ gcSessionContext \in {NoContext, gcSessionEpoch}
    /\ \A e \in canceled : 0 < e /\ e <= gcSessionEpoch /\ e # gcSessionContext

KeysBegun ==
    \A c \in Calls : pc[c] \in InFlight \cup {"waiting", "woken", "loop"} =>
        0 < callKey[c].epoch /\ callKey[c].epoch <= gcSessionEpoch

LeadersRegistered ==
    \A c \in Calls :
        pc[c] \in InFlight /\ callKey[c].epoch = gcSessionEpoch =>
            /\ callKey[c] \in DOMAIN gcSessions
            /\ gcSessions[callKey[c]].checking = c

ChecksOwned ==
    \A k \in DOMAIN gcSessions :
        /\ 0 < k.epoch
        /\ gcSessions[k].checking # NoCall =>
              /\ pc[gcSessions[k].checking] \in InFlight
              /\ callKey[gcSessions[k].checking] = k

(* The inductive invariant of the module: TLC checks it on the instance,   *)
(* GCReadinessProofs proves it for all constants.                          *)
IInv == /\ TypeOK /\ ContextInv /\ KeysBegun
        /\ OnlyCurrentEpochKnown /\ LeadersRegistered /\ ChecksOwned
        /\ SingleFlight /\ NoStrandedWaiter

(* A leader reports success only while its own session is still the one in *)
(* use: the request may have been answered after the account was switched, *)
(* and is then reported as superseded.                                     *)
LeaderSuccessIsCurrent ==
    [][\A c \in Calls :
         pc[c] \in InFlight /\ pc'[c] = "success" =>
            /\ connection.state = "connected"
            /\ callKey[c].account = connection.steamID
            /\ callKey[c].epoch = gcSessionEpoch
            /\ callKey[c].epoch \notin canceled]_vars

(* A waiter that is woken looks at the map only, neither at the connection  *)
(* nor at its own key's epoch; its success is nevertheless of the live      *)
(* context, and of the connected account when there is one                  *)
(* (service_gc_sessions.go, ensureGCSession after its select).              *)
WaiterSuccessIsLive ==
    [][\A c \in Calls :
         pc[c] = "woken" /\ pc'[c] = "success" =>
            /\ callKey[c].epoch = gcSessionContext
            /\ callKey[c].epoch \notin canceled
            /\ SignedIn => callKey[c].account = connection.steamID]_vars

(* A call that never returns is in a coordinator request that never does,   *)
(* or waits for the leader of one.                                          *)
Stuck(c) == \/ pc[c] = "requesting"
            \/ /\ pc[c] = "waiting"
               /\ \E d \in Calls : waitingOn[c] = d /\ pc[d] = "requesting"

(* Every ensureGCSession call returns, or is stuck in the transport for good: *)
(* no order of failures, account changes and readiness marks leaves one       *)
(* waiting for a check that has ended, or going round its loop for ever.      *)
EveryCallReturns ==
    \A c \in Calls : (pc[c] # "idle" ~> pc[c] \in Returned) \/ <>[]Stuck(c)
-----------------------------------------------------------------------------
(* What the repository says of the program and the code does not keep: a   *)
(* counterexample takes one call.                                          *)

(* service_gc_sessions_test.go: an account does not reuse the readiness of *)
(* another; a key is ready only by an answer of its own account's GC.      *)
ReadinessNotReused ==
    \A k \in DOMAIN gcSessions :
        gcSessions[k].readyAt # "zero" => gcSessions[k].readyBy = k.account
=============================================================================
