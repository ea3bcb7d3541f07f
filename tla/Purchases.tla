------------------------------ MODULE Purchases ------------------------------
(***************************************************************************)
(* The purchase sessions of the cash stores: placed by                     *)
(* InitializeStorePurchase (service_store.go) or InitializeTF2StorePurchase *)
(* (service_tf2_store.go), authorized by the user on Steam's own pages and *)
(* finalized by ReconcileStorePurchase (service_store_state.go), which the *)
(* interface may call again while an earlier call still runs.              *)
(*                                                                         *)
(* A client sends one store request at a time (requestMu), but an answer   *)
(* is told from another only by its message type: what a request that      *)
(* timed out left in the channel is read by the next one of that game.  A  *)
(* request keeps the client it read when the account is switched, and a    *)
(* client that is closed still hears from its connection (see GCClient).   *)
(* Prices, offers and the checks of the request are left out.              *)
(***************************************************************************)
EXTENDS AccountSession, Sequences

CONSTANTS
    Sessions,      \* the ids of purchase sessions; an id is used once
    TF2,           \* those that buy from the TF2 store, the others from CS2's
    Reconcilers,   \* concurrent executions of ReconcileStorePurchase
    NoSession,     \* no purchase
    MaxClients,    \* bound on the clients made
    MaxResponses   \* bound on the answers waiting in a channel

ASSUME SessionAssumption ==
    /\ TF2 \subseteq Sessions
    /\ NoSession \notin Sessions
    /\ MaxClients \in Nat \ {0}
    /\ MaxResponses \in Nat

VARIABLES
    purchaseSessions,  \* Service.purchaseSessions: status, account of the order
    placing,           \* the execution that initializes a session
    call,              \* the executions of ReconcileStorePurchase
    authorized,        \* the orders the user authorized on Steam
    client,            \* the number of the client that is Service.gcClient
    accountOf,         \* the accounts the clients before it stay logged on as
    responses          \* finalize answers in the channels of the clients

clientVars   == <<client, accountOf>>
serviceVars  == <<accountVars, clientVars>>
purchaseVars == <<purchaseSessions, placing, call, authorized, responses>>
vars == <<serviceVars, purchaseVars>>

Clients  == 1..MaxClients
NoClient == 0

Statuses == {"none", "initializing", "awaiting_user", "finalizing", "completed",
             "failed"}
Session  == [status : Statuses, order : SteamIDs]
Absent   == [status |-> "none", order |-> NoAccount]
Placing  == [pc : {"new", "loadingStore", "ready", "queued", "requesting",
                   "done"},
             client : Clients \cup {NoClient},
             account : SteamIDs]   \* who asks for the order
NotPlaced == [pc |-> "new", client |-> NoClient, account |-> NoAccount]
Placed    == [NotPlaced EXCEPT !.pc = "done"]
Response  == [id : Sessions, ok : BOOLEAN]
Call      == [pc : {"idle", "waiting", "queued", "requesting", "refreshing"},
              id : Sessions \cup {NoSession},
              order : SteamIDs,   \* the order the first locked section read
              client : Clients \cup {NoClient},
              open : BOOLEAN,     \* the client was not closed since
              former : Seq(Response)]  \* the channel it had, if it was
NoCall    == [pc |-> "idle", id |-> NoSession, order |-> NoAccount,
              client |-> NoClient, open |-> FALSE, former |-> <<>>]

TypeOK ==
    /\ AccountTypeOK
    /\ purchaseSessions \in [Sessions -> Session]
    /\ placing \in [Sessions -> Placing]
    /\ call \in [Reconcilers -> Call]
    /\ authorized \subseteq Sessions
    /\ client \in Clients
    /\ accountOf \in [Clients -> SteamIDs]
    /\ responses \in [Clients -> Seq(Response)]

Init ==
    /\ AccountInit
    /\ purchaseSessions = [p \in Sessions |-> Absent]
    /\ placing = [p \in Sessions |-> NotPlaced]
    /\ call = [c \in Reconcilers |-> NoCall]
    /\ authorized = {}
    /\ client = 1
    /\ accountOf = [o \in Clients |-> NoAccount]
    /\ responses = [o \in Clients |-> <<>>]
-----------------------------------------------------------------------------
(* Account changes.  A client is given up connected when another account is *)
(* added, closed in every other state.  Closing it takes the connection and *)
(* the channel from the requests to come; the one in flight reads on in the *)
(* channel it waits on.                                                     *)
AccountOf(o) == IF o = client THEN gcClient ELSE accountOf[o]

CloseConnection ==
    /\ responses' = [responses EXCEPT ![client] = <<>>]
    /\ call' = [c \in Reconcilers |->
                  IF call[c].client = client /\ call[c].open
                    THEN [call[c] EXCEPT !.open = FALSE,
                                         !.former = responses[client]]
                    ELSE call[c]]

ReplaceClient ==
    /\ PrepareAdditionalSession
    /\ client < MaxClients
    /\ client' = client + 1
    /\ accountOf' = [accountOf EXCEPT ![client] =
                                   IF steamConnected THEN gcClient ELSE NoAccount]
    /\ IF steamConnected THEN UNCHANGED <<call, responses>> ELSE CloseConnection
    /\ UNCHANGED purchaseSessions

(* A sign-out leaves the purchases as they are.                             *)
SignOut ==
    /\ DisconnectSteam
    /\ CloseConnection
    /\ UNCHANGED <<clientVars, purchaseSessions>>

(* Only a sign-in that finds another account connected empties the map.     *)
ActivateAccount ==
    /\ Activate
    /\ purchaseSessions' = IF DropsSnapshots(pendingLogin)
                           THEN [p \in Sessions |-> Absent]
                           ELSE purchaseSessions
    /\ UNCHANGED <<clientVars, call, responses>>

AccountChange ==
    /\ UNCHANGED <<authorized, placing>>
    /\ \/ ReplaceClient
       \/ SignOut
       \/ ActivateAccount
       \/ /\ LoginFails \/ \E a \in Accounts : LogOn(a) \/ OverlappingLogOn(a)
          /\ UNCHANGED <<clientVars, purchaseSessions, call, responses>>

SetStatus(p, status) ==
    purchaseSessions' = [purchaseSessions EXCEPT ![p].status = status]

requestMuFree(o) ==
    /\ \A c \in Reconcilers : ~(call[c].pc = "requesting" /\ call[c].client = o)
    /\ \A p \in Sessions : ~(placing[p].pc = "requesting" /\ placing[p].client = o)
-----------------------------------------------------------------------------
(* Initializing a purchase.                                                *)

(* The first locked section.  The CS2 store may have to be loaded first,    *)
(* without the mutex, after which the connection is not looked at again.    *)
InitializeStart(p) ==
    /\ placing[p].pc = "new"
    /\ steamConnected
    /\ \/ /\ p \notin TF2
          /\ placing' = [placing EXCEPT ![p].pc = "loadingStore"]
          /\ UNCHANGED purchaseSessions
       \/ /\ placing' = [placing EXCEPT ![p].pc = "ready"]
          /\ SetStatus(p, "initializing")
    /\ UNCHANGED <<serviceVars, call, authorized, responses>>

StoreLoaded(p) ==
    /\ placing[p].pc = "loadingStore"
    /\ placing' = [placing EXCEPT ![p].pc = "ready"]
    /\ SetStatus(p, "initializing")
    /\ UNCHANGED <<serviceVars, call, authorized, responses>>

(* The placing of p ends, with a status and the account of its order.       *)
PlacingEnds(p, status, order) ==
    /\ placing' = [placing EXCEPT ![p] = Placed]
    /\ purchaseSessions' = [purchaseSessions EXCEPT ![p] =
                              [status |-> status, order |-> order]]
    /\ UNCHANGED <<serviceVars, call, authorized, responses>>

(* A coupon is bought on Steam's own page; the GC never hears of an order.  *)
CouponCheckout(p) ==
    /\ placing[p].pc = "ready" /\ p \notin TF2
    /\ PlacingEnds(p, "awaiting_user", NoAccount)

(* Service.gcClient is read without Service.mu; the client then waits for   *)
(* its requestMu.                                                           *)
ReadInitClient(p) ==
    /\ placing[p].pc = "ready"
    /\ placing' = [placing EXCEPT ![p].pc = "queued", ![p].client = client]
    /\ UNCHANGED <<serviceVars, purchaseSessions, call, authorized, responses>>

SendInit(p) ==
    LET o == placing[p].client
    IN /\ placing[p].pc = "queued"
       /\ requestMuFree(o)
       /\ AccountOf(o) # NoAccount
       /\ placing' = [placing EXCEPT ![p].pc = "requesting",
                                     ![p].account = AccountOf(o)]
       /\ UNCHANGED <<serviceVars, purchaseSessions, call, authorized, responses>>

(* No readiness (CS2), no connection, a rejection, or 45 seconds.           *)
InitCanFail(p) ==
    \/ placing[p].pc = "ready" /\ p \notin TF2
    \/ placing[p].pc = "queued" /\ requestMuFree(placing[p].client)
    \/ placing[p].pc = "requesting"

(* Mutant: a failure has a status that the interface does not know.         *)
InitFailsOtherStatus(p) == InitCanFail(p) /\ PlacingEnds(p, "error", NoAccount)

(* Mutant: a failure is reported to the caller only.                        *)
InitFailsSilently(p) ==
    /\ InitCanFail(p)
    /\ placing' = [placing EXCEPT ![p] = Placed]
    /\ UNCHANGED <<serviceVars, purchaseSessions, call, authorized, responses>>

(* The session that is stored is the caller's copy, whether or not the map  *)
(* still has it.                                                            *)
InitFails(p) == InitCanFail(p) /\ PlacingEnds(p, "failed", NoAccount)

OrderPlaced(p) ==
    /\ placing[p].pc = "requesting"
    /\ PlacingEnds(p, "awaiting_user", placing[p].account)

(* The user approves the order in the browser (external).                   *)
Authorize(p) ==
    /\ purchaseSessions[p].order # NoAccount
    /\ authorized' = authorized \cup {p}
    /\ UNCHANGED <<serviceVars, purchaseSessions, placing, call, responses>>
-----------------------------------------------------------------------------
(* ReconcileStorePurchase.                                                 *)

(* A second call is let in while the first is finalizing.                   *)
ReconcileStart(c, p) ==
    /\ call[c].pc = "idle"
    /\ purchaseSessions[p].status \in {"awaiting_user", "finalizing"}
    /\ SetStatus(p, "finalizing")
    /\ call' = [call EXCEPT ![c] = [NoCall EXCEPT !.pc = "waiting", !.id = p,
                                      !.order = purchaseSessions[p].order]]
    /\ UNCHANGED <<serviceVars, placing, authorized, responses>>

(* A session without an order cannot be finalized.                          *)
NoOrder(c) ==
    /\ call[c].pc = "waiting" /\ call[c].order = NoAccount
    /\ SetStatus(call[c].id, "failed")
    /\ call' = [call EXCEPT ![c] = NoCall]
    /\ UNCHANGED <<serviceVars, placing, authorized, responses>>

ReadClient(c) ==
    /\ call[c].pc = "waiting" /\ call[c].order # NoAccount
    /\ call' = [call EXCEPT ![c].pc = "queued", ![c].client = client]
    /\ UNCHANGED <<serviceVars, purchaseSessions, placing, authorized, responses>>

(* The GC accepts the order of the account that asks once it is authorized; *)
(* the answer may come in time, late or never.                              *)
FinalizeSend(c) ==
    LET p == call[c].id
        o == call[c].client
    IN /\ call[c].pc = "queued"
       /\ requestMuFree(o)
       /\ AccountOf(o) # NoAccount
       /\ call' = [call EXCEPT ![c].pc = "requesting", ![c].open = TRUE]
       /\ \/ UNCHANGED responses
          \/ /\ Len(responses[o]) < MaxResponses
             /\ responses' = [responses EXCEPT ![o] = Append(@,
                  [id |-> p,
                   ok |-> p \in authorized /\ call[c].order = AccountOf(o)])]
       /\ UNCHANGED <<serviceVars, purchaseSessions, placing, authorized>>

SameGame(p, q) == p \in TF2 <=> q \in TF2

(* The request reads answers until one has the message type it waits for;   *)
(* those before are gone.  When the client was closed it waits in the       *)
(* channel of before, but with every event it skips it looks at             *)
(* SteamGCClient.events again, which may be the next connection's by then.  *)
ReadAnswer(c, ok) ==
    /\ call[c].pc = "requesting"
    /\ \E former \in {FALSE, ~call[c].open} :
         LET channel == IF former THEN call[c].former
                                  ELSE responses[call[c].client]
         IN \E i \in 1..Len(channel) :
              /\ SameGame(channel[i].id, call[c].id)
              /\ \A j \in 1..(i - 1) : ~SameGame(channel[j].id, call[c].id)
              /\ channel[i].ok = ok
              /\ responses' = IF former THEN responses
                   ELSE [responses EXCEPT ![call[c].client] =
                           SubSeq(channel, i + 1, Len(channel))]

Refreshing(c) ==
    call' = [call EXCEPT ![c] =
               [NoCall EXCEPT !.pc = "refreshing", !.id = call[c].id]]

FinalizeAccepted(c) ==
    /\ ReadAnswer(c, TRUE)
    /\ Refreshing(c)
    /\ UNCHANGED <<serviceVars, purchaseSessions, placing, authorized>>

(* Mutant: a rejection is taken for an acceptance.                          *)
RejectedIsIgnored(c) ==
    /\ ReadAnswer(c, FALSE)
    /\ Refreshing(c)
    /\ UNCHANGED <<serviceVars, purchaseSessions, placing, authorized>>

FinalizeRejected(c) ==
    /\ ReadAnswer(c, FALSE)
    /\ SetStatus(call[c].id, "awaiting_user")
    /\ call' = [call EXCEPT ![c] = NoCall]
    /\ UNCHANGED <<serviceVars, placing, authorized>>

(* Mutant: the request has no deadline of its own.                          *)
FinalizeWaitsForEver(c) ==
    /\ call[c].pc = "queued" /\ requestMuFree(call[c].client)
    /\ SetStatus(call[c].id, "awaiting_user")
    /\ call' = [call EXCEPT ![c] = NoCall]
    /\ UNCHANGED <<serviceVars, placing, authorized, responses>>

(* No connection, or 12 seconds, which may pass while it waits for          *)
(* requestMu, though they do not end that wait.                             *)
FinalizeFails(c) ==
    /\ \/ call[c].pc = "queued" /\ requestMuFree(call[c].client)
       \/ call[c].pc = "requesting"
    /\ SetStatus(call[c].id, "awaiting_user")
    /\ call' = [call EXCEPT ![c] = NoCall]
    /\ UNCHANGED <<serviceVars, placing, authorized, responses>>

(* The inventory refresh shows the purchase, or does not.  For TF2 a        *)
(* refresh counts that ended well or was superseded by another one; for CS2 *)
(* the items the answer named have to be there.                             *)
ReconcileCommit(c) ==
    /\ call[c].pc = "refreshing"
    /\ \E status \in {"completed", "awaiting_user"} : SetStatus(call[c].id, status)
    /\ call' = [call EXCEPT ![c] = NoCall]
    /\ UNCHANGED <<serviceVars, placing, authorized, responses>>
-----------------------------------------------------------------------------
PlacingStep(p) == \/ StoreLoaded(p)
                  \/ CouponCheckout(p)
                  \/ ReadInitClient(p)
                  \/ SendInit(p)
                  \/ InitFails(p)
                  \/ OrderPlaced(p)

ReconcileStep(c) == \/ NoOrder(c)
                    \/ ReadClient(c)
                    \/ FinalizeSend(c)
                    \/ FinalizeAccepted(c)
                    \/ FinalizeRejected(c)
                    \/ FinalizeFails(c)
                    \/ ReconcileCommit(c)

Next == \/ AccountChange
        \/ \E p \in Sessions : \/ InitializeStart(p)
                               \/ PlacingStep(p)
                               \/ Authorize(p)
        \/ \E c \in Reconcilers : \/ ReconcileStep(c)
                                  \/ \E p \in Sessions : ReconcileStart(c, p)

Spec == Init /\ [][Next]_vars

(* A goroutine runs, and the wait for an answer ends after 12 seconds.       *)
(* Nothing is assumed of the waits that have no deadline: for requestMu, the *)
(* loop that sends the request (queued), and the refresh, a request as well; *)
(* whoever holds requestMu may be blocked on a full event queue for ever     *)
(* (RequestReturns of GCClient, which fails).                                *)
TimedStep(c) == call[c].pc \in {"waiting", "requesting"} /\ ReconcileStep(c)
FairSpec     == Spec /\ \A c \in Reconcilers : WF_vars(TimedStep(c))
-----------------------------------------------------------------------------
(* A purchase is initializing or finalizing only while an execution runs    *)
(* that will move it on: no error path, no second call and no account       *)
(* change in between strands it (service_store_state.go).                   *)
NoStrandedPurchase ==
    \A p \in Sessions :
        /\ purchaseSessions[p].status = "initializing" =>
              placing[p].pc \in {"ready", "queued", "requesting"}
        /\ purchaseSessions[p].status = "finalizing" =>
              \E c \in Reconcilers : call[c].pc # "idle" /\ call[c].id = p

(* docs/cs2-store-purchases.md: an order that is not approved is not        *)
(* treated as a success.  Of the orders of a game at least one was          *)
(* authorized when one of its sessions completes.                           *)
CompletedNeedsAcceptance ==
    \A p \in Sessions : purchaseSessions[p].status = "completed" =>
        \E q \in authorized : SameGame(p, q)

(* A purchase that is being finalized leaves that state whatever the other  *)
(* calls and the account do, or a call on it is stuck in the transport for  *)
(* good, before it has sent its request or in the refresh after it.  None   *)
(* is left over by an answer that another call took or that never comes.    *)
Stuck(p) == \E c \in Reconcilers :
               call[c].id = p /\ call[c].pc \in {"queued", "refreshing"}

ReconcileEnds ==
    \A p \in Sessions :
       \/ purchaseSessions[p].status = "finalizing" ~>
                                    purchaseSessions[p].status # "finalizing"
       \/ <>[]Stuck(p)

(* docs/cs2-store-purchases.md: a session completes only when its own order *)
(* was authorized.                                                          *)
CompletedIsAuthorized ==
    \A p \in Sessions : purchaseSessions[p].status = "completed" => p \in authorized
=============================================================================
