------------------------- MODULE CS2InventoryProofs -------------------------
(***************************************************************************)
(* Proofs about CS2Inventory, for every set of accounts and of requests    *)
(* and every bound on the epoch: type correctness, that a refresh and the  *)
(* opening of a container store a snapshot only for the account whose      *)
(* items it holds, and that a message goes to its own account.             *)
(***************************************************************************)
EXTENDS CS2Inventory, TLAPS

(* Signed in, the account has a context, and the client serves it or is     *)
(* closed; a sign-in in flight has not been connected to anything yet.  A   *)
(* context is of the current epoch.                                         *)
SessionInv ==
    /\ SignedIn => /\ connection.steamID \in Accounts
                   /\ gcClient \in {NoAccount, connection.steamID}
                   /\ gcSessionContext # NoContext
    /\ pendingLogin # NoAccount => /\ connection.state = "disconnected"
                                   /\ gcClient \in {NoAccount, pendingLogin}
    /\ gcSessionContext # NoContext => gcSessionContext = gcSessionEpoch

(* What a request got from clients it read under the epoch of key k is the  *)
(* signed-in account's as long as that epoch lasts: a sign-in that replaced *)
(* the client blanked the connection, and only the next epoch connects      *)
(* again.                                                                   *)
Served(k, me) ==
    /\ k.epoch <= gcSessionEpoch
    /\ k.epoch = gcSessionEpoch /\ SignedIn =>
          /\ me.client \in {NoAccount, connection.steamID}
          /\ me.items \subseteq {connection.steamID}

(* Between its check and its last message an operation has the context of   *)
(* its account, which was cancelled or is still the current one.            *)
Sends(me) == /\ me.kind # "feature"
             /\ me.pc \in {"checked", "preflight", "send", "sending", "sent"}
OwnContext(me) ==
    Sends(me) =>
       /\ me.ctx.epoch # NoContext
       /\ me.ctx.epoch \in canceled \cup {gcSessionContext}
       /\ me.ctx.epoch = gcSessionEpoch /\ SignedIn =>
             me.ctx.account = connection.steamID

(* A request that is checked has received nothing; at its commit, if it     *)
(* succeeded, it has.                                                       *)
Received(me) ==
    /\ me.pc = "checked" => me.client = NoAccount /\ me.items = {}
    /\ me.pc = "commit" /\ me.outcome = "ok" => me.items # {}
    /\ me.pc = "commit" /\ me.kind # "refresh" => me.outcome = "ok"

TaskInv(me) == Served(me.key, me) /\ Served(me.ctx, me) /\ OwnContext(me) /\ Received(me)

IInv == TypeOK /\ SessionInv /\ \A t \in Tasks : TaskInv(task[t])
-----------------------------------------------------------------------------
LEMMA NoTaskType == NoTask \in Task
  BY DEF NoTask, Task, Key, NoKey, SteamIDs, Operations

(* A request that is over claims nothing.                                   *)
LEMMA NoTaskInv == ASSUME gcSessionEpoch \in Nat PROVE TaskInv(NoTask)
  BY DEF TaskInv, Served, OwnContext, Sends, Received, NoTask, NoKey

LEMMA InitIInv == Init => IInv
<1> SUFFICES ASSUME Init PROVE IInv
  OBVIOUS
<1>1. TypeOK
  BY NoTaskType DEF Init, AccountInit, TypeOK, AccountTypeOK, States, SteamIDs,
     NoContext, Inventory, emptyInventory
<1>2. SessionInv
  BY DEF Init, AccountInit, SessionInv, SignedIn, NoContext
<1>3. ASSUME NEW t \in Tasks PROVE TaskInv(task[t])
  BY <1>3, NoTaskInv DEF Init, AccountInit
<1>4. QED
  BY <1>1, <1>2, <1>3 DEF IInv
-----------------------------------------------------------------------------
(* The account.  A step of it leads out of the signed-in states, or into    *)
(* them in a new epoch, and forgets no context it did not cancel.           *)
LEMMA AccountFacts ==
    ASSUME IInv, AccountChange
    PROVE  /\ AccountTypeOK' /\ SessionInv'
           /\ gcSessionEpoch <= gcSessionEpoch'
           /\ SignedIn' => gcSessionEpoch' = gcSessionEpoch + 1
           /\ canceled \cup {gcSessionContext} \subseteq
                 canceled' \cup {gcSessionContext', NoContext}
<1>1. CASE SwitchClient
  <2>1. CASE PrepareAdditionalSession
    BY <2>1 DEF IInv, TypeOK, AccountTypeOK, SessionInv, SignedIn,
                PrepareAdditionalSession, epochVars, States, SteamIDs
  <2>2. ASSUME NEW a \in Accounts, LogOn(a)
        PROVE  /\ AccountTypeOK' /\ SessionInv' /\ ~SignedIn' /\ UNCHANGED epochVars
    BY <2>2 DEF IInv, TypeOK, AccountTypeOK, SessionInv, SignedIn, LogOn, epochVars,
                SteamIDs
  <2>3. CASE LoginFails
    BY <2>3 DEF IInv, TypeOK, AccountTypeOK, SessionInv, SignedIn, LoginFails,
                epochVars, States, SteamIDs
  <2>4. QED
    BY <1>1, <2>1, <2>2, <2>3 DEF SwitchClient, epochVars, IInv, TypeOK, AccountTypeOK
<1>2. CASE Activate
  BY <1>2, AccountAssumption
     DEF IInv, TypeOK, AccountTypeOK, SessionInv, SignedIn, Activate,
         activateAccountSession, CancelContext, NoContext, States, SteamIDs
<1>3. CASE DisconnectSteam
  BY <1>3, AccountAssumption
     DEF IInv, TypeOK, AccountTypeOK, SessionInv, SignedIn, DisconnectSteam,
         invalidateAccountSession, CancelContext, NoContext, States, SteamIDs
<1>4. QED
  BY <1>1, <1>2, <1>3 DEF AccountChange

LEMMA AccountChangeStep ==
    ASSUME IInv, AccountChange PROVE IInv'
<1>1. UNCHANGED task /\ inventory' \in Inventory
  BY DEF IInv, TypeOK, AccountChange, Inventory, emptyInventory
<1>2. ASSUME NEW t \in Tasks PROVE TaskInv(task[t])'
  <2>1. /\ TaskInv(task[t]) /\ task[t].key.epoch \in Nat /\ task[t].ctx.epoch \in Nat
        /\ gcSessionEpoch \in Nat /\ gcSessionEpoch' \in Nat
    BY AccountFacts DEF IInv, TypeOK, AccountTypeOK, Task, Key
  <2>2. Served(task[t].key, task[t])' /\ Served(task[t].ctx, task[t])'
    BY <1>1, <2>1, AccountFacts DEF TaskInv, Served
  <2>3. OwnContext(task[t])'
    BY <1>1, <2>1, AccountFacts DEF TaskInv, Served, OwnContext, Sends
  <2>4. QED
    BY <1>1, <2>1, <2>2, <2>3 DEF TaskInv, Received
<1>3. QED
  BY <1>1, <1>2, AccountFacts DEF IInv, TypeOK

(* Signed in, a look-up finds a context and leaves the epoch alone; signed  *)
(* out it does nothing.                                                     *)
LEMMA LookupIdle ==
    ASSUME IInv, LookupKey PROVE UNCHANGED epochVars
  BY DEF IInv, SessionInv, SignedIn, LookupKey, steamConnected, SessionEpoch, epochVars

(* The key of a connected account is of the current epoch.                  *)
LEMMA CurrentKey ==
    ASSUME IInv, steamConnected
    PROVE  /\ SignedIn
           /\ currentGCSessionKey(CS2) \in Key
           /\ currentGCSessionKey(CS2).account = connection.steamID
           /\ currentGCSessionKey(CS2).epoch = gcSessionEpoch
           /\ gcSessionEpoch = gcSessionContext /\ gcSessionContext # NoContext
  BY DEF IInv, TypeOK, AccountTypeOK, SessionInv, SignedIn, steamConnected,
         currentGCSessionKey, SessionEpoch, Key, SteamIDs

LEMMA KeyOrZeroType ==
    ASSUME IInv PROVE KeyOrZero \in Key /\ KeyOrZero.epoch <= gcSessionEpoch
  BY CurrentKey DEF IInv, TypeOK, AccountTypeOK, KeyOrZero, NoKey, Key, SteamIDs

(* A step of one request that leaves the account alone keeps the invariant  *)
(* if the request it leaves does.                                           *)
LEMMA OneTask ==
    ASSUME IInv, NEW t \in Tasks, NEW me \in Task, TaskInv(me),
           task' = [task EXCEPT ![t] = me],
           UNCHANGED accountVars, inventory' \in Inventory
    PROVE  IInv'
<1>1. TypeOK' /\ SessionInv'
  BY DEF IInv, TypeOK, AccountTypeOK, SessionInv, SignedIn, accountVars
<1>2. ASSUME NEW u \in Tasks PROVE TaskInv(task'[u])
  BY <1>2 DEF IInv, TypeOK
<1>3. \A u \in Tasks : TaskInv(task[u])'
  BY <1>2 DEF TaskInv, Served, OwnContext, Sends, Received, SignedIn, accountVars
<1>4. QED
  BY <1>1, <1>3 DEF IInv
-----------------------------------------------------------------------------
(* The first locked sections.                                               *)
LEMMA RefreshStartStep ==
    ASSUME IInv, NEW t \in Tasks, RefreshStart(t) PROVE IInv'
<1> DEFINE me == [NoTask EXCEPT !.pc = "fetch", !.key = KeyOrZero]
<1>1. UNCHANGED accountVars
  BY LookupIdle DEF RefreshStart, accountVars, loginVars, epochVars
<1>2. inventory' \in Inventory
  BY DEF IInv, TypeOK, RefreshStart, Inventory
<1>3. me \in Task /\ me.key = KeyOrZero /\ me.ctx = NoKey /\ me.client = NoAccount
      /\ me.items = {} /\ me.pc = "fetch"
  BY KeyOrZeroType, NoTaskType DEF NoTask, Task
<1>4. task' = task \/ task' = [task EXCEPT ![t] = me]
  BY DEF RefreshStart
<1> HIDE DEF me
<1>5. TaskInv(me)
  BY <1>3, KeyOrZeroType
     DEF IInv, TypeOK, AccountTypeOK, TaskInv, Served, OwnContext, Sends, Received, NoKey
<1>6. CASE task' = [task EXCEPT ![t] = me]
  BY <1>1, <1>2, <1>3, <1>5, <1>6, OneTask
<1>7. CASE task' = task
  BY <1>1, <1>2, <1>7
     DEF IInv, TypeOK, AccountTypeOK, SessionInv, SignedIn, TaskInv, Served,
         OwnContext, Sends, Received, accountVars
<1>8. QED
  BY <1>4, <1>6, <1>7

LEMMA CheckOperationStep ==
    ASSUME IInv, NEW t \in Tasks, NEW kind \in Operations, CheckOperation(t, kind)
    PROVE  IInv'
<1> DEFINE k  == currentGCSessionKey(CS2)
           me == [NoTask EXCEPT !.pc = FirstStage(kind), !.kind = kind, !.ctx = k]
<1>1. UNCHANGED accountVars /\ inventory' \in Inventory
  BY LookupIdle DEF IInv, TypeOK, CheckOperation, accountVars, loginVars, epochVars
<1>2. k \in Key /\ SignedIn /\ k.account = connection.steamID
      /\ k.epoch = gcSessionEpoch
      /\ gcSessionEpoch = gcSessionContext /\ gcSessionContext # NoContext
  BY CurrentKey DEF CheckOperation
<1>3. FirstStage(kind) \in {"checked", "preflight", "send"}
  BY DEF FirstStage
<1> HIDE DEF k
<1>4. me \in Task /\ me.ctx = k /\ me.key = NoKey /\ me.client = NoAccount /\ me.items = {}
      /\ me.pc # "commit"
  BY <1>2, <1>3, NoTaskType DEF NoTask, Task
<1>5. task' = [task EXCEPT ![t] = me]
  BY DEF CheckOperation, k
<1> HIDE DEF me
<1>6. TaskInv(me)
  BY <1>2, <1>4
     DEF IInv, TypeOK, AccountTypeOK, TaskInv, Served, OwnContext, Received, NoKey
<1>7. QED
  BY <1>1, <1>4, <1>5, <1>6, OneTask

LEMMA CheckFeatureStep ==
    ASSUME IInv, NEW t \in Tasks, CheckFeature(t) PROVE IInv'
<1> DEFINE k  == [NoKey EXCEPT !.account = connection.steamID]
           me == [NoTask EXCEPT !.pc = "send", !.kind = "feature", !.ctx = k]
<1>1. /\ k \in Key /\ k.epoch = 0
      /\ gcSessionEpoch \in Nat /\ inventory \in Inventory
  BY DEF IInv, TypeOK, AccountTypeOK, NoKey, Key, SteamIDs
<1> HIDE DEF k
<1>2. me \in Task /\ me.ctx = k /\ me.key = NoKey /\ me.client = NoAccount /\ me.items = {}
      /\ me.pc = "send" /\ me.kind = "feature"
  BY <1>1, NoTaskType DEF NoTask, Task
<1>3. task' = [task EXCEPT ![t] = me]
  BY DEF CheckFeature, k
<1> HIDE DEF me
<1>4. TaskInv(me)
  BY <1>1, <1>2 DEF TaskInv, Served, OwnContext, Sends, Received, NoKey
<1>5. QED
  BY <1>1, <1>2, <1>3, <1>4, OneTask DEF CheckFeature

LEMMA CaptureKeyStep ==
    ASSUME IInv, NEW t \in Tasks, CaptureKey(t) PROVE IInv'
<1> DEFINE me == [task[t] EXCEPT !.pc = "preflight", !.key = KeyOrZero]
<1>1. UNCHANGED accountVars /\ inventory' \in Inventory
  BY LookupIdle DEF IInv, TypeOK, CaptureKey, accountVars, loginVars, epochVars
<1>2. task[t] \in Task /\ TaskInv(task[t])
  BY DEF IInv, TypeOK
<1>3. /\ me \in Task /\ me.key = KeyOrZero /\ me.ctx = task[t].ctx /\ me.pc = "preflight"
      /\ me.client = task[t].client /\ me.items = task[t].items
      /\ me.kind = task[t].kind
  BY <1>2, KeyOrZeroType DEF Task
<1>4. task' = [task EXCEPT ![t] = me]
  BY <1>2 DEF CaptureKey, Task
<1>5. task[t].client = NoAccount /\ task[t].items = {}
  BY <1>2 DEF CaptureKey, TaskInv, Received
<1> HIDE DEF me
<1>6. TaskInv(me)
  BY <1>2, <1>3, <1>5, KeyOrZeroType
     DEF CaptureKey, TaskInv, Served, OwnContext, Sends, Received
<1>7. QED
  BY <1>1, <1>3, <1>4, <1>6, OneTask
-----------------------------------------------------------------------------
(* Without the mutex.  The client read here serves the signed-in account,   *)
(* hence whichever session it is read for, as long as its epoch lasts.      *)
LEMMA ReadsClient ==
    ASSUME IInv, NEW k, NEW me, NEW n, Served(k, me),
           n.client = gcClient, n.items = me.items
    PROVE  Served(k, n)
  BY DEF IInv, SessionInv, SignedIn, Served

(* What a request received from its client is the same account's.           *)
LEMMA TakesItems ==
    ASSUME NEW k, NEW me, NEW n, Served(k, me), n.client = NoAccount,
           n.items \subseteq me.items
              \cup (IF me.client = NoAccount THEN {} ELSE {me.client})
    PROVE  Served(k, n)
  BY DEF Served

LEMMA MessageStep ==
    ASSUME IInv, NEW t \in Tasks, Message(t) PROVE IInv'
<1>1. task[t] \in Task /\ TaskInv(task[t]) /\ gcClient \in SteamIDs
      /\ inventory \in Inventory /\ gcSessionEpoch \in Nat
  BY DEF IInv, TypeOK, AccountTypeOK
<1>2. CASE CaptureKey(t)
  BY <1>2, CaptureKeyStep
<1>3. CASE Preflight(t)
  <2> DEFINE me == [task[t] EXCEPT !.pc = "send"]
  <2>1. me \in Task /\ TaskInv(me)
    BY <1>1, <1>3 DEF Preflight, Task, TaskInv, Served, OwnContext, Sends, Received
  <2>2. task' = [task EXCEPT ![t] = me]
    BY <1>1, <1>3 DEF Preflight, Task
  <2>3. QED
    BY <1>1, <1>3, <2>1, <2>2, OneTask DEF Preflight, StaysOut
<1>4. CASE ReadClient(t)
  <2> DEFINE me == [task[t] EXCEPT !.pc = "sending", !.client = gcClient]
  <2>1. /\ me \in Task /\ me.pc = "sending" /\ me.client = gcClient
        /\ me.items = task[t].items /\ me.ctx = task[t].ctx /\ me.key = task[t].key
        /\ me.kind = task[t].kind
    BY <1>1 DEF Task
  <2>2. task' = [task EXCEPT ![t] = me]
    BY <1>1, <1>4 DEF ReadClient, Task
  <2> HIDE DEF me
  <2>3. Served(me.key, me) /\ Served(me.ctx, me)
    BY <1>1, <2>1, ReadsClient DEF TaskInv
  <2>4. TaskInv(me)
    BY <1>1, <1>4, <2>1, <2>3 DEF ReadClient, TaskInv, OwnContext, Sends, Received
  <2>5. QED
    BY <1>1, <1>4, <2>1, <2>2, <2>4, OneTask DEF ReadClient, StaysOut
<1>5. CASE Send(t)
  <2> DEFINE me == [task[t] EXCEPT !.pc = "sent"]
  <2>1. me \in Task /\ TaskInv(me)
    BY <1>1, <1>5 DEF Send, Task, TaskInv, Served, OwnContext, Sends, Received
  <2>2. task' = [task EXCEPT ![t] = me]
    BY <1>1, <1>5 DEF Send, Task
  <2>3. QED
    BY <1>1, <1>5, <2>1, <2>2, OneTask DEF Send, StaysOut
<1>6. CASE NextMessage(t)
  <2> DEFINE me == [task[t] EXCEPT !.pc = "send", !.client = NoAccount]
  <2>1. me \in Task /\ TaskInv(me)
    BY <1>1, <1>6
       DEF NextMessage, Task, SteamIDs, TaskInv, Served, OwnContext, Sends, Received
  <2>2. task' = [task EXCEPT ![t] = me]
    BY <1>1, <1>6 DEF NextMessage, Task
  <2>3. QED
    BY <1>1, <1>6, <2>1, <2>2, OneTask DEF NextMessage, StaysOut
<1>7. CASE AwaitAnswer(t)
  <2> DEFINE me == [task[t] EXCEPT !.pc = "waiting", !.ctx = NoKey, !.client = gcClient]
  <2>1. /\ me \in Task /\ me.pc = "waiting" /\ me.client = gcClient
        /\ me.items = task[t].items /\ me.ctx = NoKey /\ me.key = task[t].key
    BY <1>1, NoTaskType DEF Task, NoTask
  <2>2. task' = [task EXCEPT ![t] = me]
    BY <1>1, <1>7 DEF AwaitAnswer, Task
  <2> HIDE DEF me
  <2>3. Served(me.key, me)
    BY <1>1, <2>1, ReadsClient DEF TaskInv
  <2>4. Served(me.ctx, me)
    <3>1. ASSUME SignedIn PROVE gcSessionEpoch # 0
      BY <3>1 DEF IInv, SessionInv, NoContext
    <3>2. QED
      BY <1>1, <2>1, <3>1 DEF Served, NoKey
  <2>5. TaskInv(me)
    BY <2>1, <2>3, <2>4 DEF TaskInv, OwnContext, Sends, Received
  <2>6. QED
    BY <1>1, <1>7, <2>1, <2>2, <2>5, OneTask DEF AwaitAnswer, StaysOut
<1>8. CASE Answered(t)
  <2>1. PICK p \in {"fetch", "append"},
             i \in SUBSET Accounts :
             /\ task' = [task EXCEPT ![t].pc = p, ![t].client = NoAccount, ![t].items = i]
             /\ i \subseteq task[t].items
                   \cup (IF task[t].client = NoAccount THEN {} ELSE {task[t].client})
    <3>1. CASE task' = [task EXCEPT ![t].pc = "fetch", ![t].client = NoAccount]
      <4>1. /\ task[t].items \in SUBSET Accounts
            /\ task' = [task EXCEPT ![t].pc = "fetch", ![t].client = NoAccount,
                                    ![t].items = task[t].items]
        BY <1>1, <3>1 DEF Task, IInv, TypeOK
      <4>2. QED
        BY <4>1
    <3>2. CASE ~(task' = [task EXCEPT ![t].pc = "fetch", ![t].client = NoAccount])
      BY <1>1, <1>8, <3>2 DEF Answered, Task, SteamIDs
    <3>3. QED
      BY <3>1, <3>2
  <2> DEFINE me == [task[t] EXCEPT !.pc = p, !.client = NoAccount, !.items = i]
  <2>2. /\ me \in Task /\ me.pc = p /\ me.client = NoAccount
        /\ me.items = i /\ me.ctx = task[t].ctx /\ me.key = task[t].key
        /\ me.kind = task[t].kind
    BY <1>1 DEF Task, SteamIDs
  <2>3. task' = [task EXCEPT ![t] = me]
    BY <1>1, <2>1 DEF Task
  <2> HIDE DEF me
  <2>4. TaskInv(me)
    BY <1>1, <2>1, <2>2, TakesItems DEF TaskInv, OwnContext, Sends, Received
  <2>5. QED
    BY <1>1, <1>8, <2>2, <2>3, <2>4, OneTask DEF Answered, StaysOut
<1>9. CASE GiveUp(t)
  BY <1>1, <1>9, NoTaskType, NoTaskInv, OneTask DEF GiveUp, StaysOut
<1>10. QED
  BY <1>2, <1>3, <1>4, <1>5, <1>6, <1>7, <1>8, <1>9 DEF Message

(* The result of a fetch is of the account its clients served.              *)
LEMMA FetchStep ==
    ASSUME IInv, NEW t \in Tasks, Fetch(t) PROVE IInv'
<1>1. task[t] \in Task /\ TaskInv(task[t]) /\ gcClient \in SteamIDs
      /\ inventory \in Inventory
  BY DEF IInv, TypeOK, AccountTypeOK
<1>2. CASE FetchSend(t)
  <2> DEFINE me == [task[t] EXCEPT !.pc = "requesting", !.client = gcClient]
  <2>1. /\ me \in Task /\ me.pc = "requesting" /\ me.client = gcClient
        /\ me.items = task[t].items /\ me.ctx = task[t].ctx /\ me.key = task[t].key
        /\ me.kind = task[t].kind
    BY <1>1 DEF Task
  <2>2. task' = [task EXCEPT ![t] = me]
    BY <1>1, <1>2 DEF FetchSend, Task
  <2> HIDE DEF me
  <2>3. TaskInv(me)
    BY <1>1, <2>1, ReadsClient DEF TaskInv, OwnContext, Sends, Received
  <2>4. QED
    BY <1>1, <1>2, <2>1, <2>2, <2>3, OneTask DEF FetchSend, StaysOut
<1>3. ASSUME NEW i \in SUBSET Accounts,
             task' = [task EXCEPT ![t].pc = "fetch", ![t].client = NoAccount,
                                  ![t].items = i],
             i \subseteq task[t].items
                \cup (IF task[t].client = NoAccount THEN {} ELSE {task[t].client}),
             StaysOut
      PROVE  IInv'
  <2> DEFINE me == [task[t] EXCEPT !.pc = "fetch", !.client = NoAccount, !.items = i]
  <2>1. /\ me \in Task /\ me.pc = "fetch" /\ me.client = NoAccount
        /\ me.items = i /\ me.ctx = task[t].ctx /\ me.key = task[t].key
        /\ me.kind = task[t].kind
    BY <1>1 DEF Task, SteamIDs
  <2>2. task' = [task EXCEPT ![t] = me]
    BY <1>1, <1>3 DEF Task
  <2> HIDE DEF me
  <2>3. TaskInv(me)
    BY <1>1, <1>3, <2>1, TakesItems DEF TaskInv, OwnContext, Sends, Received
  <2>4. QED
    BY <1>1, <1>3, <2>1, <2>2, <2>3, OneTask DEF StaysOut
<1>4. CASE FetchAgain(t)
  <2>1. {task[t].client} \in SUBSET Accounts
    BY <1>1, <1>4 DEF FetchAgain, Task, SteamIDs
  <2>2. QED
    BY <1>4, <2>1, <1>3 DEF FetchAgain
<1>5. CASE RetryFetch(t)
  <2>1. /\ {} \in SUBSET Accounts
        /\ {} \subseteq task[t].items
              \cup (IF task[t].client = NoAccount THEN {} ELSE {task[t].client})
    OBVIOUS
  <2>2. QED
    BY <1>5, <2>1, <1>3 DEF RetryFetch
<1>6. ASSUME NEW o \in {"ok", "err", "conflict"}, FetchReturns(t, o) PROVE IInv'
  <2> DEFINE i  == IF o = "ok" THEN task[t].items \cup {task[t].client} ELSE {}
             me == [task[t] EXCEPT !.pc = "commit", !.client = NoAccount,
                                   !.outcome = o, !.items = i]
  <2>1. /\ i \in SUBSET Accounts
        /\ o = "ok" => i # {}
        /\ i \subseteq task[t].items
              \cup (IF task[t].client = NoAccount THEN {} ELSE {task[t].client})
    BY <1>1, <1>6 DEF FetchReturns, Task, SteamIDs
  <2>2. task' = [task EXCEPT ![t] = me]
    BY <1>1, <1>6 DEF FetchReturns, Task
  <2> HIDE DEF i
  <2>3. /\ me \in Task /\ me.pc = "commit" /\ me.client = NoAccount /\ me.outcome = o
        /\ me.items = i /\ me.ctx = task[t].ctx /\ me.key = task[t].key
        /\ me.kind = task[t].kind
    BY <1>1, <2>1 DEF Task, SteamIDs
  <2> HIDE DEF me
  <2>4. TaskInv(me)
    BY <1>1, <1>6, <2>1, <2>3, TakesItems
       DEF FetchReturns, TaskInv, OwnContext, Sends, Received
  <2>5. QED
    BY <1>1, <1>6, <2>2, <2>3, <2>4, OneTask DEF FetchReturns, StaysOut
<1>7. QED
  BY <1>2, <1>4, <1>5, <1>6 DEF Fetch
-----------------------------------------------------------------------------
(* The last locked sections.  A stored snapshot of a request whose key is   *)
(* current is the connected account's.                                      *)
LEMMA CurrentResult ==
    ASSUME IInv, NEW t \in Tasks, IsCurrent(task[t].key),
           task[t].pc = "commit", task[t].outcome = "ok"
    PROVE  SignedIn /\ task[t].items = {connection.steamID}
<1>1. task[t] \in Task /\ TaskInv(task[t])
  BY DEF IInv, TypeOK
<1>2. SignedIn /\ task[t].key.epoch = gcSessionEpoch
  BY <1>1 DEF IInv, SessionInv, SignedIn, IsCurrent, steamConnected,
              currentGCSessionKey, SessionEpoch, Task, Key
<1>3. task[t].items # {} /\ task[t].items \subseteq {connection.steamID}
  BY <1>1, <1>2 DEF TaskInv, Served, Received
<1>4. QED
  BY <1>2, <1>3

LEMMA SnapshotType ==
    ASSUME IInv, NEW t \in Tasks
    PROVE  /\ Snapshot(t) \in Inventory
           /\ inventoryError \in Inventory
           /\ inventory \in Inventory
           /\ [inventory EXCEPT !.owners = @ \cup task[t].items] \in Inventory
  BY DEF IInv, TypeOK, Task, Inventory, Snapshot, inventoryError

(* What RefreshInventory may do to the connection, and what it stores.      *)
LEMMA CommitStores ==
    ASSUME IInv, NEW t \in Tasks, RefreshCommit(t)
    PROVE  /\ inventory' \in Inventory
           /\ connection' \in [state : States, steamID : SteamIDs]
           /\ SignedIn' <=> SignedIn
           /\ connection'.steamID = connection.steamID
           /\ ~SignedIn => connection' = connection
           /\ inventory' # inventory /\ inventory'.status = "ready" =>
                 inventory'.owners = {connection'.steamID}
<1>1. connection \in [state : States, steamID : SteamIDs] 
  BY DEF IInv, TypeOK, AccountTypeOK
<1>2. CASE ~IsCurrent(task[t].key)
  BY <1>1, <1>2, SnapshotType DEF RefreshCommit, SignedIn
<1>3. CASE IsCurrent(task[t].key)
  <2>1. SignedIn
    BY <1>3 DEF IsCurrent, steamConnected, SignedIn
  <2>2. task[t].outcome = "ok" => task[t].items = {connection.steamID}
    BY <1>3, CurrentResult DEF RefreshCommit
  <2>3. connection' = connection
        \/ connection' = [connection EXCEPT !.state = "session_conflict"]
        \/ connection' = [connection EXCEPT !.state = "connected"]
    BY <1>3 DEF RefreshCommit
  <2>4. /\ connection' \in [state : States, steamID : SteamIDs]
        /\ SignedIn' /\ connection'.steamID = connection.steamID
    BY <1>1, <2>1, <2>3 DEF SignedIn, States
  <2>5. \/ inventory' = inventoryError
        \/ task[t].outcome = "ok" /\ inventory' = Snapshot(t)
    BY <1>3 DEF RefreshCommit
  <2>6. CASE inventory' = inventoryError
    BY <2>1, <2>4, <2>6, SnapshotType DEF inventoryError
  <2>7. CASE task[t].outcome = "ok" /\ inventory' = Snapshot(t)
    BY <2>1, <2>2, <2>4, <2>7, SnapshotType DEF Snapshot
  <2>8. QED
    BY <2>5, <2>6, <2>7
<1>4. QED
  BY <1>2, <1>3

LEMMA RefreshCommitStep ==
    ASSUME IInv, NEW t \in Tasks, RefreshCommit(t) PROVE IInv'
<1>1. UNCHANGED <<epochVars, gcClient, pendingLogin>>
  BY LookupIdle DEF RefreshCommit, epochVars
<1>2. task' = [task EXCEPT ![t] = NoTask]
  BY DEF RefreshCommit
<1>3. TypeOK'
  BY <1>1, <1>2, CommitStores, NoTaskType DEF IInv, TypeOK, AccountTypeOK, epochVars
<1>4. SessionInv'
  BY <1>1, CommitStores DEF IInv, SessionInv, SignedIn, epochVars
<1>5. ASSUME NEW u \in Tasks PROVE TaskInv(task[u])'
  <2>1. TaskInv(task'[u])
    BY <1>2, NoTaskInv DEF IInv, TypeOK, AccountTypeOK
  <2>2. QED
    BY <1>1, <2>1, CommitStores
       DEF TaskInv, Served, OwnContext, Sends, Received, epochVars
<1>6. QED
  BY <1>3, <1>4, <1>5 DEF IInv

LEMMA OpenCommitStores ==
    ASSUME IInv, NEW t \in Tasks, OpenCommit(t)
    PROVE  /\ UNCHANGED accountVars /\ inventory' \in Inventory
           /\ inventory' # inventory => inventory'.owners = {connection'.steamID}
<1>1. UNCHANGED accountVars
  BY LookupIdle DEF OpenCommit, accountVars, loginVars, epochVars
<1>2. IsCurrent(task[t].key) => task[t].items = {connection.steamID}
  BY CurrentResult DEF OpenCommit, IInv, TaskInv, Received
<1>3. QED
  BY <1>1, <1>2, SnapshotType DEF OpenCommit, Snapshot, accountVars

LEMMA StoreStep ==
    ASSUME IInv, NEW t \in Tasks, Store(t) PROVE IInv'
<1>1. TaskInv(NoTask) /\ NoTask \in Task
  BY NoTaskInv, NoTaskType DEF IInv, TypeOK, AccountTypeOK
<1>2. CASE OpenCommit(t)
  BY <1>1, <1>2, OpenCommitStores, OneTask DEF OpenCommit
<1>3. CASE StoreUnchecked(t)
  BY <1>1, <1>3, SnapshotType, OneTask DEF StoreUnchecked
<1>4. CASE AppendReward(t)
  BY <1>1, <1>4, SnapshotType, OneTask DEF AppendReward
<1>5. QED
  BY <1>2, <1>3, <1>4, RefreshCommitStep DEF Store
-----------------------------------------------------------------------------
LEMMA StepIInv == IInv /\ [Next]_vars => IInv'
<1> SUFFICES ASSUME IInv, [Next]_vars PROVE IInv'
  OBVIOUS
<1>1. CASE UNCHANGED vars
  BY <1>1 DEF vars, accountVars, IInv, TypeOK, AccountTypeOK, SessionInv, SignedIn,
              TaskInv, Served, OwnContext, Sends, Received
<1>2. QED
  BY <1>1, AccountChangeStep, RefreshStartStep, CheckOperationStep, CheckFeatureStep,
     MessageStep, FetchStep, StoreStep DEF Next

LEMMA Invariance == Spec => []IInv
  BY InitIInv, StepIInv, PTL DEF Spec

(* Every variable keeps its type.                                           *)
THEOREM TypeCorrect == Spec => []TypeOK
<1>1. IInv => TypeOK
  BY DEF IInv
<1>2. QED
  BY <1>1, Invariance, PTL

(* A step that ends the commit of a task is that task's commit.             *)
LEMMA OnlyItsCommit ==
    ASSUME IInv, Next, NEW t \in Tasks,
           task[t].pc = "commit", task'[t].pc = "idle"
    PROVE  Store(t)
<1>1. task[t] \in Task
  BY DEF IInv, TypeOK
<1>2. ~AccountChange
  BY DEF AccountChange
<1>3. PICK u \in Tasks : \/ RefreshStart(u)
                         \/ \E kind \in Operations : CheckOperation(u, kind)
                         \/ CheckFeature(u)
                         \/ Message(u) \/ Fetch(u) \/ Store(u)
  BY <1>2 DEF Next
<1>4. \A r : task' = [task EXCEPT ![u] = r] => u = t
  BY DEF IInv, TypeOK
<1>5. u = t
  BY <1>3 DEF IInv, TypeOK, RefreshStart, CheckOperation, CheckFeature, Message,
     CaptureKey, Preflight, ReadClient, Send, NextMessage, AwaitAnswer, Answered, GiveUp, Fetch, FetchSend,
     FetchAgain, RetryFetch, FetchReturns, Store, RefreshCommit, OpenCommit,
     StoreUnchecked, AppendReward
<1>6. QED
  BY <1>3, <1>5 DEF RefreshStart, CheckOperation, CheckFeature, Message, CaptureKey,
     Preflight, ReadClient, Send, NextMessage, AwaitAnswer, Answered, GiveUp, Fetch, FetchSend,
     FetchAgain, RetryFetch, FetchReturns

(* A snapshot is stored under a key only for the account that is connected  *)
(* when it is stored, however the client was switched while it was fetched. *)
THEOREM CommitHolds == Spec => CommitBelongsToConnectedAccount
<1> DEFINE Owned ==
      \A t \in Tasks :
         /\ task[t].kind \in {"refresh", "open"} /\ task[t].pc = "commit"
         /\ task'[t].pc = "idle"
         /\ inventory' # inventory /\ inventory'.status = "ready"
         => inventory'.owners = {connection'.steamID}
<1>1. IInv /\ [Next]_vars => [Owned]_vars
  <2> SUFFICES ASSUME IInv, Next, NEW t \in Tasks,
                      task[t].kind \in {"refresh", "open"}, task[t].pc = "commit",
                      task'[t].pc = "idle",
                      inventory' # inventory, inventory'.status = "ready"
               PROVE  inventory'.owners = {connection'.steamID}
    OBVIOUS
  <2>1. RefreshCommit(t) \/ OpenCommit(t)
    BY OnlyItsCommit DEF Store, StoreUnchecked, AppendReward
  <2>2. QED
    BY <2>1, CommitStores, OpenCommitStores
<1>2. QED
  BY <1>1, Invariance, PTL DEF Spec, CommitBelongsToConnectedAccount

(* A message goes to the coordinator of the account it is sent for, unless  *)
(* nobody is signed in.                                                     *)
THEOREM MessageHolds == Spec => MessageStaysWithAccount
<1> DEFINE Stays ==
      \A t \in Tasks :
         /\ task[t].pc = "sending" /\ task'[t].pc = "sent" /\ SignedIn
         /\ task[t].kind # "feature"
         => task[t].client = task[t].ctx.account
<1>1. IInv /\ [Next]_vars => [Stays]_vars
  <2> SUFFICES ASSUME IInv, Next, NEW t \in Tasks,
                      task[t].pc = "sending", task'[t].pc = "sent", SignedIn,
                      task[t].kind # "feature"
               PROVE  task[t].client = task[t].ctx.account
    OBVIOUS
  <2>1. task[t] \in Task /\ TaskInv(task[t])
    BY DEF IInv, TypeOK
  <2>2. ~AccountChange
    BY DEF AccountChange
  <2>3. PICK u \in Tasks : \/ RefreshStart(u)
                           \/ \E kind \in Operations : CheckOperation(u, kind)
                           \/ CheckFeature(u)
                           \/ Message(u) \/ Fetch(u) \/ Store(u)
    BY <2>2 DEF Next
  <2>4. u = t
    BY <2>3 DEF IInv, TypeOK, RefreshStart, CheckOperation, CheckFeature, Message, CaptureKey,
       Preflight, ReadClient, Send, NextMessage, AwaitAnswer, Answered, GiveUp, Fetch,
       FetchSend, FetchAgain, RetryFetch, FetchReturns, Store, RefreshCommit,
       OpenCommit, StoreUnchecked, AppendReward
  <2>5. Send(t)
    <3>1. Message(t)
      BY <2>3, <2>4
         DEF RefreshStart, CheckOperation, CheckFeature, Fetch, FetchSend, FetchAgain,
             RetryFetch, FetchReturns, Store, RefreshCommit, OpenCommit, StoreUnchecked, AppendReward
    <3>2. ~GiveUp(t)
      BY DEF GiveUp, IInv, TypeOK, NoTask
    <3>3. QED
      BY <3>1, <3>2
         DEF Message, CaptureKey, Preflight, ReadClient, NextMessage, AwaitAnswer, Answered
  <2>6. task[t].ctx.epoch = gcSessionContext /\ task[t].client # NoAccount
    BY <2>1, <2>5 DEF Send, TaskInv, OwnContext, Sends
  <2>7. task[t].ctx.epoch = gcSessionEpoch
    BY <2>6 DEF IInv, SessionInv
  <2>8. QED
    BY <2>1, <2>6, <2>7 DEF TaskInv, Served, OwnContext, Sends
<1>2. QED
  BY <1>1, Invariance, PTL DEF Spec, MessageStaysWithAccount
-----------------------------------------------------------------------------
(* The session keys.  Whoever is signed in has a context, so that no        *)
(* look-up makes a new one and only a sign-in moves the epoch on under an   *)
(* account.                                                                 *)
NamedStep == SessionHasContext' /\ [Named!Next]_(Named!keyVars)

LEMMA SameSession ==
    ASSUME SessionHasContext, SignedIn' <=> SignedIn,
           UNCHANGED <<connection.steamID, gcSessionEpoch, gcSessionContext>>
    PROVE  NamedStep
BY DEF NamedStep, SessionHasContext, currentSession, SessionEpoch, Named!keyVars

LEMMA LookupKeeps ==
    ASSUME SessionHasContext, LookupKey
    PROVE  UNCHANGED <<gcSessionEpoch, gcSessionContext>>
BY DEF SessionHasContext, LookupKey, steamConnected, SignedIn, SessionEpoch

LEMMA SessionEnds ==
    ASSUME ~SignedIn', gcSessionEpoch \in Nat, gcSessionEpoch' \in Nat,
           gcSessionEpoch' >= gcSessionEpoch,
           gcSessionContext' \in {NoContext, gcSessionEpoch'}
    PROVE  NamedStep
BY DEF NamedStep, SessionHasContext, currentSession, Named!Next, Named!End

LEMMA SessionBegins ==
    ASSUME SignedIn', connection'.steamID \in Accounts, gcSessionEpoch \in Nat,
           gcSessionEpoch' = gcSessionEpoch + 1, gcSessionContext' = gcSessionEpoch'
    PROVE  NamedStep
<1>1. gcSessionContext' # NoContext /\ gcSessionEpoch' > gcSessionEpoch
  BY DEF NoContext
<1>2. currentSession' = [account |-> connection'.steamID, epoch |-> gcSessionEpoch']
  BY <1>1 DEF currentSession, SessionEpoch
<1>3. Named!Begin(connection'.steamID)
  BY <1>1, <1>2 DEF Named!Begin
<1>4. QED
  BY <1>1, <1>3 DEF NamedStep, SessionHasContext, Named!Next

LEMMA AccountChangeNamed ==
    ASSUME AccountTypeOK, SessionHasContext, AccountChange
    PROVE  NamedStep
<1> USE DEF AccountTypeOK
<1>1. CASE SwitchClient
  <2>1. CASE PrepareAdditionalSession \/ LoginFails
    BY <2>1, SessionEnds
       DEF PrepareAdditionalSession, LoginFails, epochVars, SignedIn, SessionHasContext
  <2>2. CASE \E a \in Accounts : LogOn(a)
    BY <2>2, SameSession DEF LogOn, epochVars, SignedIn
  <2>3. QED
    BY <1>1, <2>1, <2>2 DEF SwitchClient
<1>2. CASE Activate
  BY <1>2, SessionBegins
     DEF Activate, activateAccountSession, SignedIn, SteamIDs
<1>3. CASE DisconnectSteam
  BY <1>3, SessionEnds
     DEF DisconnectSteam, invalidateAccountSession, SignedIn
<1>4. QED
  BY <1>1, <1>2, <1>3 DEF AccountChange

(* A conflict, and its end, are of the account that is signed in.           *)
LEMMA RefreshCommitNamed ==
    ASSUME AccountTypeOK, SessionHasContext, NEW t \in Tasks, RefreshCommit(t)
    PROVE  NamedStep
<1>1. connection'.steamID = connection.steamID /\ (SignedIn' <=> SignedIn)
  BY DEF RefreshCommit, AccountTypeOK, IsCurrent, steamConnected, SignedIn
<1>2. QED
  BY <1>1, SameSession, LookupKeeps DEF RefreshCommit

LEMMA StepNamed ==
    ASSUME AccountTypeOK, SessionHasContext, [Next]_vars
    PROVE  NamedStep
<1>1. CASE AccountChange
  BY <1>1, AccountChangeNamed
<1>2. ASSUME NEW t \in Tasks,
             \/ RefreshStart(t) \/ CaptureKey(t) \/ OpenCommit(t)
             \/ \E kind \in Operations : CheckOperation(t, kind)
      PROVE  NamedStep
  BY <1>2, LookupKeeps, SameSession
     DEF RefreshStart, CaptureKey, OpenCommit, CheckOperation, loginVars, epochVars, SignedIn
<1>3. ASSUME NEW t \in Tasks,
             \/ CheckFeature(t) \/ (Message(t) /\ ~CaptureKey(t)) \/ Fetch(t)
             \/ StoreUnchecked(t) \/ AppendReward(t)
      PROVE  NamedStep
  <2>1. UNCHANGED accountVars
    BY <1>3 DEF CheckFeature, Message, Fetch, StoreUnchecked, AppendReward, Preflight,
       ReadClient, Send, NextMessage, AwaitAnswer, Answered, GiveUp, FetchSend, FetchAgain,
       RetryFetch, FetchReturns, StaysOut
  <2>2. QED
    BY <2>1, SameSession DEF accountVars, SignedIn
<1>4. CASE UNCHANGED vars
  BY <1>4, SameSession DEF vars, accountVars, SignedIn
<1>5. QED
  BY <1>1, <1>2, <1>3, <1>4, RefreshCommitNamed DEF Next, Store, Message

(* A captured key names one sign-in (docs/multi-account-architecture.md:47),*)
(* also while refreshes record conflicts.                                   *)
THEOREM KeysNameSignIns == Spec => ImplementsSessionKeys
<1>1. Init => SessionHasContext /\ Named!Init
  BY DEF Init, AccountInit, SessionHasContext, SignedIn, currentSession, Named!Init
<1>2. TypeOK => AccountTypeOK
  BY DEF TypeOK
<1>3. AccountTypeOK /\ SessionHasContext /\ [Next]_vars
      => SessionHasContext' /\ [Named!Next]_(Named!keyVars)
  BY StepNamed DEF NamedStep
<1>4. QED
  BY <1>1, <1>2, <1>3, TypeCorrect, PTL DEF Spec, ImplementsSessionKeys, Named!Spec
=============================================================================
