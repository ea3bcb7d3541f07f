# Specifications of cs-inv-edit

TLA+ specifications of the parts of this program whose behaviour depends on
order: what happens when sign-ins, account switches, coordinator requests, price
queries, events and the clock fall between one another's steps. TLC checks them on small
instances; TLAPS proves the main results for every value of the constants.

Paths below are relative to `src/`; `app/` is `backend/internal/app/`.

## 1. The system

Two Go processes and several shells around them.

| Component | Code | State it keeps | Operations |
| --- | --- | --- | --- |
| Account session | `app/service.go`, `service_state.go`, `service_gc_sessions.go` | connection, current GC client, session epoch and context, registry of sessions | activate, invalidate, look up the current key |
| Sign-in flows | `app/service_auth*.go` | pending challenge, auth epoch, cancel function, saved credential | password, QR, Steam Guard, mobile approval, restore, sign-out |
| GC readiness | `app/service_gc_sessions.go` | map from (account, app, epoch) to a readiness mark, a running check, its error | `ensureGCSession`, `markGCSessionReady` |
| CS2 inventory | `app/service_operation_state.go`, `service_inventory.go` | one snapshot | `RefreshInventory` |
| Multi-game inventories | `app/service_multigame.go` | snapshots, generations, cancels per account and game | refresh, probe, feature switches |
| Operations and receipts | `app/service_operations.go`, `operations/` | receipts, events | submit, update, reconcile |
| Trade-ups, armory, stores, containers, terminals, storage units, TF2, trades | `app/service_*.go`, `steamtrade/` | snapshots, purchase sessions | check a snapshot, send one irreversible message, wait or reconcile |
| GC client transport | `backend/internal/transport/` | CM connection, event channel, last welcome, credentials for re-logon | connect, log on, request, send, close |
| CM connection | `backend/internal/steamcm/` | job table, encryption, socket | handshake, framing, dispatch |
| Credential stores | `backend/internal/sessionstore/` | one file or keyring entry | save, load, clear |
| Shared Data Service | `backend/internal/dataservice/`, `backend/pricescanner/` | price cache, running scans, observation history | query, search, history |
| Codecs, metadata, RPC, UI | `proto/`, `protocol/`, `econ/`, `rpc/`, `packages/app`, `apps/`, `android/` | none of their own, or presentation | |

How they interact. The RPC layer calls one Service method per request, each in
its own goroutine. One mutex, `Service.mu`, guards all Service state, but no
method holds it across a network call: every operation reads what it needs under
the mutex, releases it, talks to Steam through `Service.gcClient`, which it
reads *without* the mutex, and takes the mutex again to store the result. An
account change between the two critical sections replaces the client, the
account and the meaning of every snapshot. The session epoch and the account
context are the program's means against that. The data service is a separate
process with the same pattern in small: one mutex, a scan outside it.

What is hard, therefore, and what each part has to keep:

* readiness: one request per key, nobody waits for ever, nothing of an ended
  session is found again, success is reported of the session it is true of;
* inventories: a snapshot belongs to the account it is shown for, a superseded
  refresh writes nothing, and what was removed stays removed;
* sign-in: a superseded flow changes nothing, a session has a client of its own,
  signing out is final;
* price cache: identical queries share one scan, labels of age are true, answers
  do not go back in time, every query returns;
* operations that cannot be undone: sent for the account that was checked;
* receipts: what completes one was done by the coordinator, and each gets a last
  word;
* purchases: none is left half-way, and only an authorized order completes;
* transport: an old connection never ends the session of a new one, a session
  that is up is kept alive, and a request returns.

`PROJECT.json` lists every component with its status, and under `hazards` each
of these dangers at the line where it bites.

## 2. The modules

| Module | Models | Built on |
| --- | --- | --- |
| `AccountSession` | the Service's active account: sign-in, sign-out, epoch, context | |
| `GCReadiness` | `ensureGCSession`, `markGCSessionReady` | extends `AccountSession` |
| `CS2Inventory` | the CS2 snapshot: refreshes, trade-ups, redemptions, containers, storage moves, feature operations | extends `AccountSession`; `MCCS2Inventory` adds symmetry for TLC |
| `GameInventories` | the inventories of the other games | extends `AccountSession`; `MCGameInventories` adds symmetry |
| `TradeUps` | the receipts of trade-ups, from request to last word | `MCTradeUps` gives it an instance |
| `Purchases` | the purchase sessions of the cash stores | extends `AccountSession` |
| `SteamAuth` | the sign-in flows side by side, sign-out, the registry of sessions, the saved credential | |
| `GCClient` | the transport's client: connections, logon, heartbeat, the event queue, inventory requests | `MCGCClient` adds a view for TLC |
| `PriceReads` | abstract: what a price query promises | refined by the next |
| `SessionKeys` | abstract: a key names one sign-in of one account | refined by `AccountSession` as each module that extends it uses it |
| `GameSnapshots` | abstract: which answer may change which snapshot | refined by `GameInventories` |
| `CraftLedger` | abstract: a receipt is settled once, on a craft of its own | refined by `TradeUps` |
| `PriceCache` | `PriceCache.Query` over `Scanner.Scan` and the history store | instantiates `PriceReads` |
| `GCReadinessProofs`, `CS2InventoryProofs`, `GameInventoriesProofs`, `TradeUpsProofs`, `PurchasesProofs`, `SteamAuthProofs`, `GCClientProofs`, `PriceCacheProofs` | theorems | extend the module they are about |

`AccountSession` is composed with each of the four modules that use the account
by extension: their actions conjoin its actions with what they do to the
component's own state. `GCClient` stands beside them, and so does `TradeUps`, for
which the epochs of a session make no difference but its connections do. What the Service's modules
assume of a client (it is logged on as one account, may be closed, answers in any
order or not at all) is what `GCClient` allows.

### AccountSession

One critical section of `Service.mu` is one action. `connection`, `gcClient`,
`gcSessionEpoch`, `gcSessionContext` are the fields of those names. A context is
named by the epoch in which it was made and `canceled` is the set of contexts
whose cancel function was called. A GC client is named by the account it is
logged on as. `PrepareAdditionalSession` is `prepareAdditionalSteamSession`,
`LogOn`, `LoginFails` and `Activate` are the stages of `ConnectSteam`,
`DisconnectSteam` is the sign-out, and `SessionConflict` is what other features
see of an inventory refresh that learns of a session conflict. `LookupKey` is the
side effect of `currentGCSessionKeyLocked`, which opens a new epoch when there is
no context: a look-up changes state, so every action that looks up conjoins it.

`OverlappingLogOn` is a second sign-in that was prepared before the connected
account registered and logs the same client on as another account; the modules
in which that makes a difference include it (`GameInventories`, `Purchases`),
and `CS2Inventory` says what would no longer hold with it (section 4).

`SessionKeys` is what the epoch is for
(`docs/multi-account-architecture.md:47`): every sign-in gets an epoch above all
before it, keeps it while it lasts, and does not come back. It knows sign-ins and
their ends only. The refinement maps the account signed in and its epoch to
`session` and `gcSessionEpoch` to `newest`; a session conflict, a look-up, a
client that is replaced and everything the extending module does are stutters. An
account in a session conflict is still signed in. A comparison of keys before a
commit is enough only because of this refinement.

Left out: the operations "steam.connect", "steam.guard" and "steam.disconnect"
of `SubmitOperation` (`app/service_operations.go:250-261`), which overwrite
`connection.State` and nothing else, and which nothing in the repository sends.
With them an account could be taken for signed out and its key come back later.

Abstractions: otherwise one sign-in at a time (`pendingLogin`); every state of an
unfinished sign-in is "error"; the registry of sessions is left out (it is in
`SteamAuth`, which in turn has no session epochs); a connected
account always has a SteamID (the fall-back to the account name in
`currentGCSessionKeyLocked` is for a connection no sign-in produces).

### GCReadiness

A call of `ensureGCSession` is a member of `Calls` with a program counter: idle,
the locked head of the loop (`LoopHead`, with its four branches), `waiting` in
the select, `woken` before the locked recheck, `leading` before the unlocked read
of the client, `requesting`, `answered` or `refused`, and the locked end
(`LeaderFinish`). A Checking channel is named by the call that made it; `closed`
is the set of closed channels. A readiness mark is zero, fresh or expired;
`Expire` is the passing of the 30 seconds. `RefreshAnswered` and
`markGCSessionReady` are the two steps of an inventory refresh that matter to
readiness: its answer, and the mark it sets later.

Waiters of the same kind are only released by the three cases of the select, and
`WaitCtxDone` is the caller's own deadline, which may come at any time but is
never assumed.

### CS2Inventory

A member of `Tasks` is a request in its own goroutine. A refresh is `RefreshStart`
(the first critical section, with the look-up whose error the code ignores), the
fetch, and `RefreshCommit` with its three branches. An operation starts with
`CheckOperation`, the critical section that checks the connection and takes the
account's context along (`CheckFeature` for the feature operations, which take
none), and goes on without the mutex: `Preflight` is `ensureGCSession`,
`ReadClient` the evaluation of `s.gcClient`, `Send` the call of `sendToGC`, which
tests the context it was given, `NextMessage` the loop over a quantity,
`AwaitAnswer` and `Answered` the wait for the craft answer, the reward or the
confirmation. The fetch (`FetchSend`, `FetchAgain`, `FetchReturns`, `RetryFetch`)
reads the client anew for each of its requests, and its result is stored by
`OpenCommit`, which compares the key, or by `StoreUnchecked` or `AppendReward`,
which compare nothing.

The snapshot is its status and the *set* of accounts whose items it holds: a
fetch that asked twice may have asked two accounts. Left out: feature flags, the
checks of the chosen items (pure functions of the snapshot), the armory's own
snapshot and its balances, receipts and events (those of trade-ups are in
`TradeUps`), terminals, and a nil context
that `openContainer` gets when a sign-in falls between its two checks of the
connection (section 4).

### TradeUps

A member of `Ops` is a trade-up; `operations` has its receipt with what was asked
for, `run` the execution of `reconcileCS2TradeUp` that was started for it.
`submitTradeUp` sends and starts the goroutine, `addEvent` appends the receipt
afterwards, and `updateTradeUpReceipt` rewrites a receipt only if it is there
already. `StartWait` and `TakeAnswer` are `WaitForCS2CraftResponse`, `Fetch` the
inventory, `Compare` the test of what is missing and what is present, `GiveUp` the
two early returns. Every connection has an event channel. A wait starts on the
newest one of the client and, since the loop reads `s.events` anew in each turn,
may go on in that of a later connection of the same client (`Channels`); a
sign-in after a sign-out connects the same client again, another account gets a
client of its own. `OtherWaitReads` is any other loop over the channel, which
drops what it does not wait for. `Craft` is the coordinator, external: it does a
craft if the account has the inputs, and its answer may be lost.

An item given by a craft is named by the trade-up that gave it. The history that
the properties need (whose answer an execution took, which crafts were done) is
kept beside the state and read by no guard but the contents of an answer. Inputs
may be any items there have been, since the snapshot they are chosen from may be
old or of another account; that there are ten of a kind is left out.

`CraftLedger` keeps of this the state of each receipt, the craft on whose answer
it was completed, and the crafts that were done. The refinement reads the first
from `operations`, the second from the answer an execution took, once its receipt
says completed, and the third is `applied`.

### GameInventories

A key is an account and a game. `gameInventories`, `gameRefreshes` and
`gameCancels` are the fields of those names, the last as the set of keys with a
cancel function. A refresh is `RefreshStart` (both `RefreshGameInventory` and
`refreshSteamInventory`, which are alike up to the request), `RequestSend` (the
unlocked read of the client, for games whose items come from a coordinator) and
`RefreshCommit` with the comparison of generations. `CancelRefreshes` and
`DeleteSnapshots` are the helpers that sign-in, sign-out and settings use on
their sets of keys. `ProbeStart`, `ProbeReturns` and one `ProbeStore` per game are
`SteamInventoryServiceGames`. A snapshot is its status and the account its items
are of; item mapping and prices are left out. A service inventory is a key of its
own, which no setting clears (`Cleared`).

`GameSnapshots` has no generations, cancel functions, clients or settings: of
every key at most one request is awaited, the newest, and a snapshot changes by
its answer, by a removal, or by a probe, for the keys of a probe and with items of
their account. The refinement maps the refreshes whose generation is the newest of
their key to `awaited`. For the games of a coordinator the answer may hold
anybody's items (`Shared`), as the code has it (section 4).

### Purchases

`purchaseSessions` is the map of that name; `placing` is the execution of
`InitializeStorePurchase` or `InitializeTF2StorePurchase` that makes a session,
`call` the executions of `ReconcileStorePurchase`. Clients are numbered, since a
call keeps the client it read when the account is switched: `ReplaceClient` is
`prepareAdditionalSteamSession`, which leaves a connected client to its calls and
closes any other. A client lets one store request at a time through
(`requestMuFree`); `FinalizeSend` is the request that passed it, and the answer
the coordinator may give then waits in the client's channel, where `ReadAnswer`
takes the first of the game, whichever order it is about. A call whose client was
closed reads the channel it had (`former`) or the new one, as the code's loop
does. `Authorize` is the user's approval in a browser, outside this code.

Left out: catalogues, prices, currencies and countries, the checks of a request,
and the item IDs of the inventory check at the end, which is a nondeterministic
outcome (`ReconcileCommit`). An id is used once. Without the check the properties
hold in more behaviours than the code has.

### SteamAuth

A flow is one request of the user (password, QR, Guard code, sign-out) with the
goroutine it leaves behind, or the restored session `main` starts; its program
counter says which critical section or which call of the transport comes next. A
client is named by the flow that made it, a context by the flow it was made for,
and usernames are accounts. A password sign-in that needs a code becomes its own
mobile approval (`SteamGuardRequired`); `SubmitSteamGuard` and `GuardAnswered`
are the two ends of a Guard submission, the second with everything it does
without releasing the mutex. A QR sign-in keeps the client and the epoch it
captured (`ClientOf`, `Superseded`), except where the code does not: the presence
and the registration use the current client.

The transport is what its calls return. `Connect` keeps a connection that is
there; `LogOn` succeeds, asks for a Guard code (passwords only) or fails, and a
failure may close the connection; a cancelled context ends a call unless its
answer came first. Abstractions: closing the old client in
`prepareAdditionalSteamSession` is merged with the critical section before it,
and Close, Connect and BeginQRAuth of one QR stage into one step, since nothing
between them touches Service state; a connection lost on its own and the
transport's re-logon belong to the transport's model. Trade tokens, avatars,
settings and the text of a status are left out. Sign-in here does not change the
session epoch: that is `AccountSession`.

### GCClient

The fields of `SteamGCClient` are the variables of their names; `link` is what
loop and Steam know of a connection, `queue` the event channels, one per
`Connect`, and `thread` the sign-ins and the requests. `SignIn` to `ConnectFails`
are `Connect`, `LogOnSend` to `MoveOn` are `logOn`, `Request` to
`RequestEnds` are `RequestInventory` with `ensureSteamSession` and its retries,
`SessionEnded` is `handleSteamSessionEnded`, and the `Steam...` actions put the
events the handlers put. A channel send that may block is a guard (`Room`, or
`LoopFree` for a handler, which holds one event more than the queue has places).

A critical section of `SteamGCClient.mu` is an action, and a send that follows one
is the next. So a logon is completed in four: `LogOnAccepted` reads the answer and
sets the state, `activateAuthenticatedAccount` and `rememberAuthenticatedSession`
follow, and `Announce` puts "steam.logged_on". A failure is two: the state is set
to "error", then `ClearConn` forgets the connection. `Close`, the end of a session
and the sections of other threads fall between any two of them.

Abstractions. Requests are `RequestInventory`; the others that hold `requestMu`
differ in the message they wait for. What the client tells its own queue is not
kept in it, but the thread that puts it waits for room. A thread looks at the
clock when there is nothing to read. Nothing closes a connection, because nothing
does: `SteamConnection` has no `Close`. Steam Guard within `logOn`, craft, UGC and
feature messages, and the decoding of inventories are left out.

What is still one step although the code does not hold the mutex throughout: the
look at `conn`, the packet sent on it and the event that tells of it (`LogOnSend`,
`sendGamesPlayed`, `SendHello`; a connection that is forgotten in between is
sent on as one that is lost, without anybody noticing, and the thread blocks on a
full queue before or after the packet); the reset of the feature
snapshots, which are left out, in `activateAuthenticatedAccount`; the read of an
answer and the `setState` after it (a queue belongs to the threads that wait on
it, and a `Close` before the answer is read leads to the same state as one before
`setState`); the send of "try another CM" and `closeAndClearConn` after it
(`MoveOn`); and `setState("error")` of `logOn` after a `Connect` that failed and has
set it already.

### PriceCache and PriceReads

A query is a member of `Queries`: `Ask` makes its key and reads the clock,
*before* the mutex is taken; `Lookup` is the first critical section, `WaitDone`
and `WaitCtxDone` the select, `Scan` the scan, `Settle` the last critical
section. `entries` and `active` are the fields of those names; an inflight
record is named by the query that made it. Prices are left out: an observation is
a number, the how-manieth of its key, with the flag whether any provider quoted.
The stale window is `StaleTTLs` lifetimes (6 in the code). `ScanOutcomes` is a
constant because two things can be meant by the scanner: the interface
`Scanner`, which may fail in any way, and `pricescanner.Scanner`, which returns
an error only for a query it rejects before it asks anybody. The cache is checked
and proved for the first and the findings use the second.

`PriceReads` knows only observations, questions and answers. The refinement maps
a query's program counter to its status; `latest` and `floor` are history
variables of `PriceCache` with the same meaning in both.

## 3. The runs

| Run | Checks | Bounds |
| --- | --- | --- |
| `gc_readiness` | `TypeOK`, `SingleFlight`, `NoStrandedWaiter`, `OnlyCurrentEpochKnown`, `LeaderSuccessIsCurrent`, `WaiterSuccessIsLive`, `EveryCallReturns`, `ImplementsSessionKeys` | 2 accounts, 1 app, 2 calls, 2 epochs |
| `cs2_inventory` | `TypeOK`, `CommitBelongsToConnectedAccount`, `MessageStaysWithAccount` | 2 accounts, 2 requests of any kind, 2 epochs, symmetric (2.3 million states) |
| `inventory_inherited` | finding: `InventoryNotInherited` is violated | 1 request |
| `game_inventories` | `TypeOK`, `CancelReachesTheWriter`, `DisabledGameIsEmpty`, `RemovedStaysRemoved`, `ImplementsGameSnapshots` | 2 accounts, one coordinator game, one service inventory, 2 refreshes at a time and 3 in all, the probe, 2 epochs, symmetric |
| `trade_ups` | `TypeOK`, `CompletedIsBacked`, `AnswerTakenOnce`, `InputsWereSpent`, `ImplementsCraftLedger`, `ReceiptSettles` | 2 trade-ups of one item each, 3 items, 2 accounts, 2 connections |
| `purchases` | `TypeOK`, `NoStrandedPurchase`, `CompletedNeedsAcceptance`, `ReconcileEnds` | 2 accounts, 1 purchase, 2 calls to reconcile, 2 clients, 3 epochs |
| `purchase_unauthorized` | finding: `CompletedIsAuthorized` | 2 purchases, 2 epochs |
| `steam_auth` | `TypeOK`, `ActiveIsRegistered`, `GuardPromptPending`, `SupersededQRSilent`, `SupersededQRWindsDown`, `SupersededQREnds` | 2 accounts, 2 flows, one of which may be the restored session |
| `sign_out` | finding: `SignOutRemovesCredential` | 1 account, 2 flows |
| `gc_client` | `TypeOK`, `LoggedOnIsKeptAlive`, `OwnEndsOnly` | 1 account, 1 sign-in, 1 request, each any number of times, 2 connections, a queue of 1 (2.2 million states, under a view) |
| `client_queue` | finding: `RequestReturns` | 1 connection |
| `price_cache` | `TypeOK`, `Coalesced`, `AnswerAge`, `ImplementsReads`, `EveryQueryReturns` | 1 key, 3 queries, lifetime 1, stale window 1, time 0..2 |

Why the bounds are enough. Two calls of `ensureGCSession` are a leader and its
waiter, or the leaders of two epochs; keys of different apps never meet in the
map, so one app loses nothing. (Three calls were checked for safety, without
liveness.) Two epoch changes are a switch and a switch back, or a sign-out and a
sign-in of the same account, which is where an epoch matters although the account
is equal. Two requests are one that is overtaken and the one that overtakes it;
`cs2_inventory` was also run with three epochs (ten million states, no error).
Three refreshes of a game are two that overlap and one that follows a
cancellation. Two trade-ups are one that takes the answer of the other; two
connections are those of two clients, or of one before and after a sign-out. One
purchase with two calls has every race of the calls with each
other, with `requestMu` and with the account; two purchases, of which one takes
the other's answer, are needed for the finding only, and the theorems are about
any number. Two connections of a client are the current one and the one before
it, whose end comes late; a queue of one place is empty, full, or full with a
loop that holds one more, and 64 places only take longer to fill. The view of
`gc_client` (`LiveView`) takes two states for one when they differ only in what no
step reads: the two variables that are only written, and what is in a queue that
nobody can read any more, except whether it is full. The rest of both states and
all that can follow are the same, so nothing the run checks is lost. In the cache
keys do not interact; three queries are a leader, its waiter and a later query
that finds an entry, an expired one or a running scan; three times with a
lifetime and a window of one put a query before, at and after each boundary.
Two flows are any pair: two QR sign-ins of which one supersedes the other, a
sign-out or a Guard submission against a sign-in, a restored session against a
new one. Three flows are beyond TLC's reach within minutes (over fourteen million
states without an error when the search was stopped), so the safety properties
of `SteamAuth` are proved for any number. Every flow runs once, which bounds the
epoch. `MaxEpoch`, `MaxRefreshes`, `MaxClients`, `MaxResponses`, `MaxConns` (of `GCClient` and `TradeUps`) and
`MaxTime` are guards of the actions that count; no theorem depends on their
values.

Deadlock checking is off where a bound stops the model: the price cache, when
every query has returned and the clock is at its end; the sign-in flows, when
each of them has ended; the trade-ups, when all have a last word and the
connections are used up; the purchases, when every session is done and the epochs
and clients are used up; the client, when its connections are used up and a queue
stays full.

### Fairness

No fairness is assumed of a coordinator request. `RequestInventory`,
`RequestGameInventory` and the store requests take `requestMu` without a look at
their context (`transport/gc_inventory_send.go:76`, `gc_inventory.go:81`,
`gc_store_finalize.go:19`), `sendGamesPlayed` puts an event into the client's queue
without one (`gc_inventory.go:56`), and `SendPacket` waits for a loop that may be
blocked on the same queue (`steamcm/conn.go:95`). `client_queue` shows that such a
request may never return, deadline or not. What waits for one may wait for ever,
and three liveness properties say so: what they promise is promised unless
something is stuck in the transport for good (`<>[]`).

`GCReadiness!FairSpec`: weak fairness of a call's own steps (`OwnStep`). Its
goroutine is scheduled, and the channels it selects on stay closed once closed.
Nothing is assumed of the leader's request, of users, of the caller's deadline
while it waits, or of the clock. `EveryCallReturns`: a call returns, or is a leader
whose request never does, or waits for one.
`Purchases!FairSpec`: weak fairness of the steps of a reconciliation before it
asks for the client and while it waits for an answer, which ends after 12 seconds
(`TimedStep`). Nothing is assumed of the waits without a deadline, for `requestMu`
and the loop (`queued`) and in the inventory refresh at the end (`refreshing`), of
those who place orders, of the coordinator or the user. `ReconcileEnds`: a purchase
is finalizing for good only while a call on it is in one of those two waits.
`TradeUps!FairSpec`: weak fairness of `addEvent`, the next statement after the
request, and of the steps of the goroutine but the fetch (`TimedStep`): its wait for
an answer has a deadline of 45 seconds, and the fetch is a `RequestInventory`.
Nothing of the coordinator, of other readers of the channel or of the user.
`ReceiptSettles`: a receipt gets its last word, or its goroutine is in the fetch for
good.
`GCClient!FairSpec`: strong fairness of the threads, for blocked senders on a
channel get the room there is in their turn, and of the deadline of a request,
which sends its hello again and again; weak fairness of a loop that has to report
an end. Nothing of Steam or the network. `client_queue` is violated in spite of it.
`SteamAuth!FairSpec`: the next step of a flow is taken. A handler or goroutine
that does not wait is scheduled; the poll of a QR code ends with its context,
which has a deadline of five minutes; a logon and a handshake have timeouts; and
its sends into the event queue find room, since a QR sign-in closes and connects
first and a new connection has a new queue (`transport/gcclient.go:67`). Not
assumed: that a user asks for anything, or that Steam rotates a code. That a
mobile approval ends is not claimed, since its loop logs on again for as long as
Steam asks for a code; `SupersededQREnds` is only about QR sign-ins, whose
renewals could otherwise go on for ever.
`PriceCache!FairSpec`: a scan ends, since a query has a deadline of 25 seconds and
every provider an HTTP timeout.

## 4. The findings

Each is a run that TLC must find violated; `PROJECT.json` quotes the line that
says otherwise.

1. `inventory_inherited`: a sign-in first blanks the connection, so the clearing
   of account-owned snapshots, which compares with it, does nothing. Account B
   starts with A's inventory, armory, stores and purchase sessions.
2. `sign_out`: a sign-in that is about to store its credential stores it after a
   sign-out has removed the stored one.
3. `purchase_unauthorized`: an answer is told from another by its message type
   only, so the late acceptance of one order completes another order of that game
   which nobody approved.
4. `client_queue`: events nobody reads fill the client's queue between requests,
   and the next request waits for room in it, for ever, while it holds
   `requestMu`.

### Known not to hold

These are stated in the modules, and TLC finds them violated under `Spec` with
the instances given, but no run repeats that.

* `ReadinessNotReused` (`GCReadiness`, one call): a refresh marks whichever
  account is active when its answer comes as ready (`app/service_inventory.go:78`).
* `RetryRecoversFromConflict` (`CS2Inventory`, one request, two epochs): the code
  that ends a session conflict after a successful retry cannot be reached, since
  the look-up of the key fails in exactly that state
  (`app/service_operation_state.go:38`).
* `FeatureStaysWithAccount` (`CS2Inventory`, one request, two epochs): the feature
  operations of CS2 and TF2 send under `context.Background()`
  (`app/service_cs2_features.go:38`, `service_tf2_operations.go:75`), so after a
  switch of accounts between check and send nothing stops the message.
* `SnapshotIsAccountScoped` (`GameInventories`, two accounts, one coordinator
  game, two epochs): a refresh names its snapshot by the account it started for
  and reads the client later (`app/service_multigame.go:195`); when a second
  sign-in has logged that client on as another account, the other account's items
  are stored under the first one's key.
* `TradeUpWasDone` (`TradeUps`, the instance of `trade_ups`): a trade-up the
  coordinator refused takes the answer of another one and fetches the inventory
  of an account that never had its inputs, or whose inputs the other one used, so
  that "CS2 trade-up completed and inventory reconciled"
  (`app/service_tradeups.go:160`) is said of a craft that was not done. What does
  hold is `CompletedIsBacked`: some craft was done, and the inputs are gone from
  the account it was done for.
* `NoReceiptLost` (`TradeUps`, the same): the goroutine is started at
  `app/service_tradeups.go:121` and the receipt appended at line 123. If the
  goroutine is over by then, its update finds no receipt, and the one appended
  says `awaiting_gc_confirmation` for good. `ReceiptSettles` therefore speaks of
  receipts that are listed while their goroutine still runs.
* `StaleServedWhenRefreshFails` (`PriceCache`, outcomes quotes and nothing, two
  queries, `TTL` 1, `StaleTTLs` 2, `MaxTime` 3): when all providers fail the last
  price is overwritten by nothing, where `docs/item-price-scanner.md:73-75`
  promises a stale one.
* `RecordedIsFound` (`PriceCache`, the same with `AppIDOmitted` = {q1}):
  observations of a query without app ID are filed under app 0 and asked for
  under 730.
* `CommitBelongsToConnectedAccount` and `MessageStaysWithAccount` are about
  sign-ins one after another. A second sign-in that logs the connected client on
  as another account (`OverlappingLogOn`) breaks both, as it breaks
  `SnapshotIsAccountScoped` for the other games. They leave out trade-ups and redemptions, which store what they
  fetched, up to 45 seconds later, without looking at the key
  (`app/service_tradeups.go:153`, `service_armory.go:193`, `:206`), although
  `docs/multi-account-architecture.md:47` asks for it. And while a sign-in has
  logged on and not registered its account yet, a message sent at that moment can
  go to its coordinator.

* `ClosedForgetsAccount` (`GCClient`, the instance of `gc_client`): `Close` empties
  `reauthCredentials` (`transport/gcclient.go:172`), and a logon that is in its last
  sections fills them again (`transport/gc_auth_session.go:135-137`). A request on
  the closed client can then sign in again by itself.
* `HeartbeatHasConnection` (`GCClient`, the same): the same logon starts a heartbeat
  for the connection that is there by then, which may be none. If the answer was
  read after `Close`, the state is "logged_on" as well, the heartbeat finds its nil
  connection equal to the client's and sends on it
  (`transport/gc_auth_session.go:176-181`).

### Seen while modelling

* Sign-in: `DisconnectSteam` does not advance `authEpoch`, so a QR sign-in past
  its approval still registers after a sign-out; a password sign-in does not
  either, so an older QR flow goes on beside it; the session of a renewed code has
  no `OnChallengeURL`; an account in a session conflict has its client closed when
  another one is added.
* Transport: `closeSteamConnection` does nothing, because `SteamConnection` has no
  `Close`, although the comment at `app/service.go:101-104` relies on it;
  `SendPacket` never returns an error, so a lost connection is only noticed by
  deadlines; a handler that fails ends the loop of its connection, after which
  `SendPacket` blocks; two Connects at once may both find no connection
  (`transport/gcclient.go:64`) and share a queue; a request that
  waits while its client logs on again stores the old account's welcome
  (`transport/gcclient.go:201-202`).
* Purchases: of two calls to reconcile one purchase the slower may take it from
  completed back to `awaiting_user`; a session is written into the map of
  whichever account is active when its order was placed.
* Armory: nothing reserves the stars between check and confirmation; a refresh
  that falls between sending and confirming subtracts the cost twice
  (`app/service_armory.go:294-301`); `RefreshArmory` compares the SteamID it
  started with and not the epoch (`:67`).
* Containers: `openContainer` ignores the error of its look-up
  (`app/service_containers.go:75`), so a sign-in that falls between the check of
  the connection in `SubmitOperation` and that line leaves a nil context, on which
  `context.WithTimeout` panics.
* Receipts of feature operations: `docs/protobuf-extension-opportunities.md:49-53`
  has them complete only after the matching update, while
  `app/service_feature_reconciliation.go:27` confirms them from state that may
  have been there before; `docs/tf2-items-game.md:50` has every enabled operation
  wait for the cache's reconciliation, while `tf2ReceiptConfirmed` has no case for
  crafts, tools and uses, whose receipts fail after 15 seconds.
* Stores: `RefreshStore` writes a readiness error into the store of the account
  that is active by then (`app/service_store.go:45`).

## 5. The proofs

Eight modules, each for every set of accounts, apps, calls, requests, games,
purchases, clients, flows, connections, keys and queries and every bound, from
the named assumptions of the modules it extends (`AccountAssumption`,
`CallAssumption`, `GameAssumption`, `TradeUpAssumption`, `SessionAssumption`, `ClientAssumption`,
`AuthAssumption`, `CacheAssumption`: the null values are not elements, the bounds
are numbers, ids of different kinds are different). Every invariant and every
action property that a run checks is proved; so are the refinements of the four
abstract specifications.

**Readiness.** `NoStrandedWaiter` and `SingleFlight` are not inductive. What is
missing is the relation of the map to the calls: `LeadersRegistered` (a leader of
the current epoch is the call its entry names) and `ChecksOwned` (whoever an
entry names is a leader of that key), and of the epochs: `ContextInv` (the
context is nil or of the current epoch and was not cancelled), `KeysBegun` (no
call carries a key of an epoch still to come), `OnlyCurrentEpochKnown`. Together
they are `IInv`. An account change empties the map; the waiters it leaves behind
have a key of an epoch whose context it cancels, which is the second disjunct of
`NoStrandedWaiter`. A leader of the current epoch finds its own entry, so it
closes its channel, which is the first. `LeaderSuccess` is an action property
from the same invariant. `WaiterSuccess` says the same of a waiter, who returns
without a look at the account: it is woken by any closed channel and finds
readiness in the map, which by `OnlyCurrentEpochKnown` only has keys of the
current epoch. That such a key is of the account signed in is `OneAccount`, an
invariant of its own: activation empties the map, and until the next one the
connection names the same account or nobody.

**Session keys.** `KeysNameSignIns` is proved in the modules of the three
components that extend `AccountSession` and compare keys, for their own actions
look keys up, and a look-up may open an epoch. It rests on `SessionHasContext`: a
context is nil or of the current epoch, and whoever is signed in, in a conflict
too, has one. Without it a look-up could open an epoch, and thereby a new session,
for an account that stays signed in. The run `gc_readiness` checks the refinement;
for `CS2Inventory` and `GameInventories` it is proved only, though TLC found no
error in the instance of `cs2_inventory` either.

**CS2 inventory.** Both properties rest on `SessionInv` (signed in, there is a
context of the current epoch, and the client is the account's or closed) and on
`Served`: as long as the epoch of a key lasts and somebody is signed in, the
client a request read and all the items it has received under that key are that
account's. A sign-in that replaces the client first blanks the connection, and
only the activation, in the next epoch, connects again (`AccountFacts`), so the
unlocked reads are harmless here (`ReadsClient`, `TakesItems`). `Served` is needed
twice, for the key that is compared and for the context that is sent under:
`CommitHolds` follows from the first with `Received` (a commit that succeeded has
items), `MessageHolds` from the second with `OwnContext` (the context of an
operation was cancelled, or is the current one and the account's).

**Game inventories.** That a key has a cancel function exactly while its newest
refresh runs needs `Numbered` (a refresh has a generation already given out) and
`Distinct` (no generation is given out twice). `RemovedStaysRemoved` and
`DisabledGameIsEmpty` need `Loading`: as long as there is a cancel function the
snapshot is loading, so what is empty has none, and no refresh in flight has its
newest generation. `RefreshesImplementSnapshots` uses the same two facts: since
generations are not given out twice, a request replaces the one awaited request
of its key, and since a removal or a sign-out advances the generation of every
key with a cancel function, nobody is awaited afterwards. `ProbeHasAccount` (a
probe past its start works for a real account) keeps a probe's store to a key of
its own.

**Trade-ups.** An answer is in one place, with the coordinator, in one channel or
with one execution (`AnswerInOnePlace`), which makes `AnswerTakenOnce` inductive.
`CompletedIsBacked` rests on `FetchedFromOne`: what an execution fetched was the
inventory of one account, and what it lacked of the inputs that account lacks
still, since an item that is gone does not come back and a new one is nobody's
input yet (`Requested`; `MatchIsBacked` puts the two together). The gained item tells whose inventory it was
(`ProductsInPlace`). `InputsWereSpent` follows with `SpentByCraft`: an account
loses items to its own crafts only. `ReceiptsImplementLedger` says that the
evidence of a completed receipt is a craft that was done (`MatchIsBacked`) and the
evidence of no other (`AnswerTakenOnce`), and that a settled receipt stays as it
is, which needs `SettledIsOver`: the execution that settled it has ended, and
`updateTradeUpReceipt` is called by nobody else.

**Purchases.** `NoStrandedPurchase` is inductive with `Asked` (a call in flight is
about a session; one that refreshes has read an acceptance of its game) and
`ClientsKnown`. `CompletedNeedsAcceptance` rests on `Answered`: an acceptance in
any channel, a former one included, is about an order that was authorized.

**GC client.** `LoggedOnIsKeptAlive` is inductive with `Over` (a thread that
connects or logs on, or gives that up, does so over a connection). Its second and
third disjunct are threads that will replace the state or start the heartbeat with
their next section but one at the latest: as long as one of them is at it nothing
else needs to be known, and a thread that leaves such a section either is the one
that starts the heartbeat, for the connection of that moment, or sets another state
(`StillAlive` is the case of every other step). `OwnEndsOnly` follows from `Ending`
(a connection with an end to report was ended) and `Over`.

**Sign-in.** `ActiveIsRegistered` and `GuardPromptPending` need to know that a
flow which is about to register or to ask for a code has an account, and
`SupersededQRSilent` that a QR sign-in with an epoch is always at a section of
its own kind: `Placed`, a condition on one flow that every action keeps
(`FlowsStep`, by the lemmas `OneFlow` and `GotoPlaces`). A step that changes a
superseded flow is a step of that flow, hence one of a section that asks for the
epoch first, or a call of the transport, which leaves the Service alone
(`SupersededStep`). `SupersededWindsDown` is the safety half of
`SupersededQREnds`: a superseded flow stays superseded, since epochs only grow and
none is in use before it was begun (`EpochsBegun`), and every step it still takes
lowers `StepsLeft`, so it takes at most four and cannot renew its code again. That
it does take them is the fairness the run assumes.

**Price cache.** `IInv` says that the entry of a key is its newest observation
(`EntryInv`); that a leader holds that entry, expired for it (`LeaderInv`); that a
waiter's leader is still leading, with an entry expired for the waiter too, or has
a result that will do for the waiter (`WaiterInv`); and that what a query was given
is well dated and not older than its floor (`ResultInv`). `AnswerAgeHolds` and the
refinement `CacheImplementsReads` follow: `Settle` with an observation is
`Observe`, `Return` is `Answer` or `Fail`, and every other step is `Ask` or a
stutter.

Only model-checked: the liveness properties (`EveryCallReturns`, `ReceiptSettles`,
`ReconcileEnds`, `SupersededQREnds`, `EveryQueryReturns`), which are out of the
prover's reach. Of the first and the fourth the safety part is proved
(`NoStrandedWaiter`, `SupersededQRWindsDown`).

## 6. Not modelled

* The other receipts and events: lists that only grow. The reconciliation of
  feature operations reads a snapshot and a clock and rewrites receipts in one
  critical section.
* The terminals' offers, a dialogue of several messages whose meaning only the
  coordinator knows, and the contents of all confirmations.
* The armory's balances and catalogue, store catalogues and prices: whether the
  coordinator grants a second redemption or a changed price is not in this code.
* Trade offers: HTTP calls with what was captured before them and one commit after
  them, without the comparison an inventory refresh makes.
* The session stores: a save is one step that happens or does not, which the
  rename gives its readers; a temporary file left by a crash is only garbage.
* The CM protocol stack below the event loop (framing, handshake, encryption), the
  codecs and the economy metadata: functions of their input, without an ordering
  of their own.
* RPC routing, process start and the user interface: one Service call per
  request, or presentation.
* The generated protobufs, which are by far the largest part of the Go code
  (`backend/internal/proto/`), and the vendored definitions.
