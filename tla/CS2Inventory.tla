---------------------------- MODULE CS2Inventory ----------------------------
(***************************************************************************)
(* The CS2 inventory snapshot of the active account and the requests that  *)
(* read it, act on it and replace it while accounts are switched: a        *)
(* refresh (service_operation_state.go), and the operations that send one  *)
(* irreversible message to the coordinator, which are trade-ups, armory    *)
(* redemptions, containers, storage moves and the feature operations of    *)
(* CS2 and TF2.  Whatever reads the inventory shares fetchInventory        *)
(* (service_inventory.go).                                                 *)
(*                                                                         *)
(* Abstractions.  The snapshot is its status and the accounts whose items  *)
(* it holds.  Feature flags, the checks of the chosen items, the armory's  *)
(* own snapshot and the receipts are left out; whatever fails before a     *)
(* message is sent, or leaves the receipt unconfirmed, is GiveUp.  The     *)
(* readiness check before some messages is its outcome, which needs a      *)
(* connected account (GCReadiness).  The requests to load storage units    *)
(* are part of the fetch.  Sending tests the account context and *)
(* hands the packet over in one step.  openContainer after a sign-out got  *)
(* between its two checks of the connection, which has no context to send  *)
(* with, is left out.                                                      *)
(***************************************************************************)
EXTENDS AccountSession

CONSTANTS
    CS2,     \* protocol.AppIDCS2
    Tasks    \* concurrent requests, each in its own goroutine

VARIABLES
    task,        \* what each request does
    inventory    \* Service.inventory

vars == <<accountVars, task, inventory>>

(* "redeem" is RedeemArmory of one offer, which waits for its reward, and   *)
(* "redeemMany" one of several, which does not.                             *)
Operations == {"tradeup", "redeem", "redeemMany", "open", "storage"}

Key   == [account : SteamIDs, app : {CS2}, epoch : Nat]
NoKey == [account |-> NoAccount, app |-> CS2, epoch |-> 0]

Task ==
    [pc : {"idle", "checked", "preflight", "send", "sending", "sent", "waiting",
           "append", "fetch", "requesting", "commit"},
     kind : Operations \cup {"feature", "refresh"},
     ctx : Key,                  \* the session whose context it sends under
     key : Key,                  \* what it compares before it stores
     client : SteamIDs,          \* the client of the call it is in
     items : SUBSET Accounts,    \* whose items it has received
     outcome : {"none", "ok", "err", "conflict"}]
NoTask == [pc |-> "idle", kind |-> "refresh", ctx |-> NoKey, key |-> NoKey,
           client |-> NoAccount, items |-> {}, outcome |-> "none"]

Inventory == [status : {"requires_connection", "loading", "ready", "error"},
              owners : SUBSET Accounts]
emptyInventory == [status |-> "requires_connection", owners |-> {}]
inventoryError == [status |-> "error", owners |-> {}]
Snapshot(t) == [status |-> "ready", owners |-> task[t].items]

TypeOK ==
    /\ AccountTypeOK
    /\ task \in [Tasks -> Task]
    /\ inventory \in Inventory

Init ==
    /\ AccountInit
    /\ task = [t \in Tasks |-> NoTask]
    /\ inventory = emptyInventory
-----------------------------------------------------------------------------
(* An account change and what it does to the snapshot.                     *)
AccountChange ==
    /\ \/ SwitchClient /\ UNCHANGED inventory
       \/ /\ Activate
          /\ inventory' = IF DropsSnapshots(pendingLogin) THEN emptyInventory
                                                          ELSE inventory
       \/ DisconnectSteam /\ inventory' = emptyInventory
    /\ UNCHANGED task

(* The key a request gets when it ignores the error of the look-up.         *)
KeyOrZero == IF steamConnected THEN currentGCSessionKey(CS2) ELSE NoKey

(* RefreshInventory's first locked section.  In a session conflict the key  *)
(* lookup fails, its error is ignored, and the zero key is kept.            *)
RefreshStart(t) ==
    /\ task[t].pc = "idle"
    /\ \/ /\ connection.state \notin {"connected", "session_conflict"}
          /\ inventory' = [inventory EXCEPT !.status = "requires_connection"]
          /\ UNCHANGED <<task, epochVars>>
       \/ /\ connection.state \in {"connected", "session_conflict"}
          /\ inventory' = [inventory EXCEPT !.status = "loading"]
          /\ LookupKey
          /\ task' = [task EXCEPT ![t] =
                        [NoTask EXCEPT !.pc = "fetch", !.key = KeyOrZero]]
    /\ UNCHANGED loginVars

(* The locked check of an operation takes the account context along.  Items *)
(* are chosen from the snapshot, an offer from the armory's.                *)
FirstStage(kind) == CASE kind = "open"                     -> "checked"
                      [] kind \in {"redeem", "redeemMany"} -> "preflight"
                      [] OTHER                             -> "send"
CheckOperation(t, kind) ==
    /\ task[t].pc = "idle"
    /\ steamConnected
    /\ kind \notin {"redeem", "redeemMany"} => inventory.owners # {}
    /\ LookupKey
    /\ task' = [task EXCEPT ![t] =
         [NoTask EXCEPT !.pc = FirstStage(kind), !.kind = kind,
                        !.ctx = currentGCSessionKey(CS2)]]
    /\ UNCHANGED <<loginVars, inventory>>

(* A feature operation of CS2 or TF2 checks the account and sends under a   *)
(* context of its own: the key without an epoch only names the account.     *)
CheckFeature(t) ==
    /\ task[t].pc = "idle"
    /\ steamConnected
    /\ task' = [task EXCEPT ![t] =
         [NoTask EXCEPT !.pc = "send", !.kind = "feature",
                        !.ctx = [NoKey EXCEPT !.account = connection.steamID]]]
    /\ UNCHANGED <<accountVars, inventory>>

(* Opening a container looks its key up in a section of its own.            *)
CaptureKey(t) ==
    /\ task[t].pc = "checked"
    /\ LookupKey
    /\ task' = [task EXCEPT ![t].pc = "preflight", ![t].key = KeyOrZero]
    /\ UNCHANGED <<loginVars, inventory>>
-----------------------------------------------------------------------------
(* Without the mutex: the message and the wait for its answer.              *)

StaysOut == UNCHANGED <<accountVars, inventory>>

(* ensureGCSession finds the session of whoever is connected ready.         *)
Preflight(t) ==
    /\ task[t].pc = "preflight" /\ steamConnected
    /\ task' = [task EXCEPT ![t].pc = "send"]
    /\ StaysOut

(* The argument s.gcClient is evaluated before the client tests the context.*)
ReadClient(t) ==
    /\ task[t].pc = "send"
    /\ task' = [task EXCEPT ![t].pc = "sending", ![t].client = gcClient]
    /\ StaysOut

(* Mutant: the message is sent under a context of its own.                  *)
SendUnderAnyContext(t) ==
    /\ task[t].pc = "sending"
    /\ task[t].client # NoAccount
    /\ task' = [task EXCEPT ![t].pc = "sent"]
    /\ StaysOut

(* sendToGC refuses a cancelled context and a client without a connection.  *)
Send(t) ==
    /\ task[t].pc = "sending"
    /\ task[t].ctx.epoch \notin canceled
    /\ task[t].client # NoAccount
    /\ task' = [task EXCEPT ![t].pc = "sent"]
    /\ StaysOut

(* RedeemArmory's loop over the quantity.                                   *)
NextMessage(t) ==
    /\ task[t].pc = "sent" /\ task[t].kind = "redeemMany"
    /\ task' = [task EXCEPT ![t].pc = "send", ![t].client = NoAccount]
    /\ StaysOut

(* The wait for the craft answer, the reward or the confirmation.  Nothing  *)
(* is sent after it, and the context is forgotten.                          *)
AwaitAnswer(t) ==
    /\ task[t].pc = "sent" /\ task[t].kind \in {"tradeup", "redeem", "open"}
    /\ task' = [task EXCEPT ![t].pc = "waiting", ![t].ctx = NoKey,
                            ![t].client = gcClient]
    /\ StaysOut

(* A trade-up and a container go on with an answer, a redemption with an    *)
(* item, which it appends, or without one.                                  *)
Answered(t) ==
    /\ task[t].pc = "waiting"
    /\ \/ task' = [task EXCEPT ![t].pc = "fetch", ![t].client = NoAccount]
       \/ /\ task[t].kind = "redeem" /\ task[t].client # NoAccount
          /\ task' = [task EXCEPT ![t].pc = "append", ![t].client = NoAccount,
                                  ![t].items = {task[t].client}]
    /\ StaysOut

(* The request ends without storing anything: a check, a send or a wait     *)
(* failed, or the message needs no confirmation.                            *)
GiveUp(t) ==
    /\ \/ task[t].pc \in {"checked", "preflight", "send", "sending"}
       \/ task[t].pc = "sent" /\ task[t].kind \in {"storage", "redeemMany", "feature"}
       \/ task[t].pc = "waiting" /\ task[t].kind # "redeem"
       \/ task[t].pc = "requesting" /\ task[t].kind # "refresh"
    /\ task' = [task EXCEPT ![t] = NoTask]
    /\ StaysOut

(* fetchInventory reads Service.gcClient before each of its requests.       *)
FetchSend(t) ==
    /\ task[t].pc = "fetch"
    /\ task' = [task EXCEPT ![t].pc = "requesting", ![t].client = gcClient]
    /\ StaysOut

(* With storage units to load it asks a second time and merges the answers. *)
FetchAgain(t) ==
    /\ task[t].pc = "requesting" /\ task[t].items = {}
    /\ task[t].client # NoAccount
    /\ task' = [task EXCEPT ![t].pc = "fetch", ![t].client = NoAccount,
                            ![t].items = {task[t].client}]
    /\ StaysOut

(* It returns the items of the account its client is logged on as, or an    *)
(* error, which only a refresh records, or the error that Steam ended the   *)
(* session for another one.                                                 *)
FetchReturns(t, outcome) ==
    /\ task[t].pc = "requesting"
    /\ outcome = "ok" => task[t].client # NoAccount
    /\ outcome # "ok" => task[t].kind = "refresh"
    /\ task' = [task EXCEPT ![t].pc = "commit", ![t].client = NoAccount,
                  ![t].outcome = outcome,
                  ![t].items = IF outcome = "ok" THEN @ \cup {task[t].client} ELSE {}]
    /\ StaysOut

(* reconcileArmoryReward did not find the reward, or failed, and asks again.*)
RetryFetch(t) ==
    /\ task[t].pc = "requesting" /\ task[t].kind = "redeem"
    /\ task' = [task EXCEPT ![t].pc = "fetch", ![t].client = NoAccount, ![t].items = {}]
    /\ StaysOut
-----------------------------------------------------------------------------
(* The last locked sections.                                               *)

(* Mutant: a result is stored without comparing the key.                    *)
RefreshCommitAnyKey(t) ==
    /\ task[t].pc = "commit" /\ task[t].kind = "refresh"
    /\ LookupKey
    /\ inventory' = IF task[t].outcome = "ok" THEN Snapshot(t) ELSE inventoryError
    /\ task' = [task EXCEPT ![t] = NoTask]
    /\ UNCHANGED loginVars

(* Mutant: a conflict is recorded under a state that nobody else knows.     *)
RefreshCommitOtherState(t) ==
    /\ task[t].pc = "commit" /\ task[t].kind = "refresh"
    /\ LookupKey
    /\ IsCurrent(task[t].key) /\ task[t].outcome = "conflict"
    /\ inventory' = inventoryError
    /\ connection' = [connection EXCEPT !.state = "conflict"]
    /\ task' = [task EXCEPT ![t] = NoTask]
    /\ UNCHANGED <<gcClient, pendingLogin>>

(* RefreshInventory: a superseded result is dropped, an error and a         *)
(* conflict are recorded, a snapshot replaces the inventory.                *)
RefreshCommit(t) ==
    LET me == task[t]
    IN /\ me.pc = "commit" /\ me.kind = "refresh"
       /\ LookupKey
       /\ \/ ~IsCurrent(me.key) /\ UNCHANGED <<connection, inventory>>
          \/ /\ IsCurrent(me.key) /\ me.outcome \in {"err", "conflict"}
             /\ inventory' = inventoryError
             /\ connection' = IF me.outcome = "conflict"
                              THEN [connection EXCEPT !.state = "session_conflict"]
                              ELSE connection
          \/ /\ IsCurrent(me.key) /\ me.outcome = "ok"
             /\ inventory' = Snapshot(t)
             /\ connection' = IF connection.state = "session_conflict"
                              THEN [connection EXCEPT !.state = "connected"]
                              ELSE connection
       /\ task' = [task EXCEPT ![t] = NoTask]
       /\ UNCHANGED <<gcClient, pendingLogin>>

(* openOrdinaryContainer compares its key as well.                          *)
OpenCommit(t) ==
    /\ task[t].pc = "commit" /\ task[t].kind = "open"
    /\ LookupKey
    /\ inventory' = IF IsCurrent(task[t].key) THEN Snapshot(t) ELSE inventory
    /\ task' = [task EXCEPT ![t] = NoTask]
    /\ UNCHANGED loginVars

(* reconcileCS2TradeUp and RedeemArmory store what they fetched, for        *)
(* whichever account is active by then.                                     *)
StoreUnchecked(t) ==
    /\ task[t].pc = "commit" /\ task[t].kind \in {"tradeup", "redeem"}
    /\ inventory' = Snapshot(t)
    /\ task' = [task EXCEPT ![t] = NoTask]
    /\ UNCHANGED accountVars

(* RedeemArmory appends a reward to the snapshot that is there.             *)
AppendReward(t) ==
    /\ task[t].pc = "append"
    /\ inventory' = [inventory EXCEPT !.owners = @ \cup task[t].items]
    /\ task' = [task EXCEPT ![t] = NoTask]
    /\ UNCHANGED accountVars
-----------------------------------------------------------------------------
Message(t) == \/ CaptureKey(t) \/ Preflight(t) \/ ReadClient(t) \/ Send(t)
              \/ NextMessage(t) \/ AwaitAnswer(t) \/ Answered(t) \/ GiveUp(t)

Fetch(t) == \/ FetchSend(t) \/ FetchAgain(t) \/ RetryFetch(t)
            \/ \E o \in {"ok", "err", "conflict"} : FetchReturns(t, o)

Store(t) == RefreshCommit(t) \/ OpenCommit(t) \/ StoreUnchecked(t) \/ AppendReward(t)

Next == \/ AccountChange
        \/ \E t \in Tasks : \/ RefreshStart(t)
                            \/ \E kind \in Operations : CheckOperation(t, kind)
                            \/ CheckFeature(t)
                            \/ Message(t) \/ Fetch(t) \/ Store(t)

Spec == Init /\ [][Next]_vars
-----------------------------------------------------------------------------
(* A refresh, and the opening of a container, store only items of the      *)
(* account that is connected when they store them, however many sign-ins   *)
(* happened since they were started, one after another, and although both  *)
(* read the client anew for each request: the key captured before decides  *)
(* (service_operation_state.go:38, service_containers.go:184).  It does    *)
(* not hold of trade-ups and redemptions, nor of a second sign-in that     *)
(* logs the connected client on as another account (OverlappingLogOn).     *)
CommitBelongsToConnectedAccount ==
    [][\A t \in Tasks :
         /\ task[t].kind \in {"refresh", "open"} /\ task[t].pc = "commit"
         /\ task'[t].pc = "idle"
         /\ inventory' # inventory /\ inventory'.status = "ready"
         => inventory'.owners = {connection'.steamID}]_vars

(* A message that cannot be taken back is never sent on behalf of one       *)
(* account to the coordinator of another that is signed in, although each  *)
(* send reads the client long after the account was checked: by then the   *)
(* account's context is cancelled (gc_inventory_send.go:23).  While the    *)
(* next sign-in has logged on and not yet registered it can still happen,  *)
(* and to the feature operations of CS2 and TF2, which do not take the     *)
(* account's context along, it happens at any time.                        *)
MessageStaysWithAccount ==
    [][\A t \in Tasks :
         /\ task[t].pc = "sending" /\ task'[t].pc = "sent" /\ SignedIn
         /\ task[t].kind # "feature"
         => task[t].client = task[t].ctx.account]_vars

(* The same of the feature operations.  Known not to hold.                 *)
FeatureStaysWithAccount ==
    [][\A t \in Tasks :
         /\ task[t].pc = "sending" /\ task'[t].pc = "sent" /\ SignedIn
         /\ task[t].kind = "feature"
         => task[t].client = task[t].ctx.account]_vars

(* service_gc_sessions_test.go: an account does not inherit the inventory  *)
(* of the one before it.                                                   *)
InventoryNotInherited ==
    connection.state = "connected" => inventory.owners \subseteq {connection.steamID}

(* service_operation_state.go: in a session conflict the user is told to   *)
(* retry the inventory sync; a retry, started in the conflict, that fetched *)
(* the account's own inventory ends the conflict.  Known not to hold, with *)
(* one task.                                                               *)
RetryRecoversFromConflict ==
    [][\A t \in Tasks :
         /\ task[t].pc = "commit" /\ task[t].kind = "refresh"
         /\ task[t].outcome = "ok" /\ task[t].key = NoKey
         /\ task'[t].pc = "idle"
         /\ connection.state = "session_conflict"
         /\ task[t].items = {connection.steamID}
         => connection'.state = "connected"]_vars
=============================================================================
