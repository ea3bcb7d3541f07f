--------------------------- MODULE GameInventories ---------------------------
(***************************************************************************)
(* The inventories of the games beside CS2 (service_multigame.go): one     *)
(* snapshot per account and game, refreshed by requests that run while     *)
(* accounts are switched and games are disabled.  A newer refresh of a key *)
(* supersedes an older one by its generation, and whoever ends a refresh   *)
(* early advances the generation too.  A snapshot is abstracted to its     *)
(* status and to the account whose items it holds.                         *)
(***************************************************************************)
EXTENDS AccountSession, Functions

CONSTANTS
    GCGames,      \* games whose items come from the GC client: tf2, dota2
    WebGames,     \* games read from the web with the account's token: steam
    ServiceApps,  \* the "steam-service:N" inventories
    SteamFlag,    \* enableSteamInventory, the flag of the last two
    DefaultFlags, \* the flags that are on by default
    Refreshers,   \* concurrent executions of a refresh
    MaxRefreshes  \* bound: a refresh starts while the generations sum up to less

Flags == GCGames \cup {SteamFlag}
Games == GCGames \cup WebGames \cup ServiceApps
Keys  == Accounts \X Games
NoKey == <<NoAccount, SteamFlag>>
FlagOf(g) == IF g \in GCGames THEN g ELSE SteamFlag

(* The games whose snapshots a setting removes: those of a service are not  *)
(* among them (no key of theirs ends in "steam").                           *)
Cleared(flags) == {k \in Keys : k[2] \notin ServiceApps /\ FlagOf(k[2]) \in flags}

ASSUME GameAssumption ==
    /\ ServiceApps \cap (GCGames \cup WebGames) = {}
    /\ SteamFlag \notin GCGames
    /\ DefaultFlags \subseteq Flags
    /\ MaxRefreshes \in Nat

VARIABLES
    enabled,          \* the inventory flags of Service.settings
    gameInventories,  \* Service.gameInventories
    gameRefreshes,    \* Service.gameRefreshes: the newest generation of a key
    gameCancels,      \* the keys for which Service.gameCancels has a cancel
    refresh,          \* the executions of a refresh
    probe             \* the execution of SteamInventoryServiceGames

entryVars == <<gameInventories, gameRefreshes, gameCancels>>
vars == <<accountVars, enabled, entryVars, refresh, probe>>

Snapshot == [status : {"none", "loading", "ready", "error"}, owner : SteamIDs]
NoSnapshot    == [status |-> "none",  owner |-> NoAccount]
(* Mutant: an error has the status of a receipt, not of a snapshot.         *)
failedSnapshot == [status |-> "failed", owner |-> NoAccount]
errorSnapshot == [status |-> "error", owner |-> NoAccount]
Ready(a)      == [status |-> "ready", owner |-> a]

Refresh == [pc : {"idle", "started", "requesting"}, key : Keys \cup {NoKey},
            generation : Nat, client : SteamIDs]
NoRefresh == [pc |-> "idle", key |-> NoKey, generation |-> 0, client |-> NoAccount]
Probe == [pc : {"idle", "requesting", "storing"}, account : SteamIDs,
          found : SUBSET ServiceApps]
NoProbe == [pc |-> "idle", account |-> NoAccount, found |-> {}]

TypeOK ==
    /\ AccountTypeOK
    /\ enabled \subseteq Flags
    /\ gameInventories \in [Keys -> Snapshot]
    /\ gameRefreshes \in [Keys -> Nat]
    /\ gameCancels \subseteq Keys
    /\ refresh \in [Refreshers -> Refresh]
    /\ probe \in Probe

Init ==
    /\ AccountInit
    /\ enabled = DefaultFlags
    /\ gameInventories = [k \in Keys |-> NoSnapshot]
    /\ gameRefreshes = [k \in Keys |-> 0]
    /\ gameCancels = {}
    /\ refresh = [r \in Refreshers |-> NoRefresh]
    /\ probe = NoProbe
-----------------------------------------------------------------------------
gameInventoryEnabled(g) == FlagOf(g) \in enabled

(* Mutant: the generation of a cancelled refresh stays the newest one.      *)
CancelKeepsGeneration(ks) ==
    /\ gameCancels' = gameCancels \ ks
    /\ UNCHANGED gameRefreshes

(* Cancelling the refreshes of the keys ks advances their generations, so   *)
(* that the result of a cancelled request is superseded.                    *)
CancelRefreshes(ks) ==
    /\ gameCancels' = gameCancels \ ks
    /\ gameRefreshes' = [k \in Keys |-> IF k \in ks \cap gameCancels
                                        THEN gameRefreshes[k] + 1
                                        ELSE gameRefreshes[k]]

DeleteSnapshots(ks) ==
    gameInventories' = [k \in Keys |-> IF k \in ks THEN NoSnapshot
                                                   ELSE gameInventories[k]]
-----------------------------------------------------------------------------
(* Account changes.                                                        *)

(* The snapshots survive; the refreshes of every account are cancelled, but *)
(* only where the connection still names another account.                   *)
ActivateAccount ==
    /\ Activate
    /\ IF DropsSnapshots(pendingLogin) THEN CancelRefreshes(Keys)
                                       ELSE UNCHANGED <<gameRefreshes, gameCancels>>
    /\ UNCHANGED gameInventories

SignOut ==
    /\ DisconnectSteam
    /\ CancelRefreshes(Keys)
    /\ DeleteSnapshots(Keys)

AccountChange ==
    /\ \/ /\ SwitchClient \/ \E a \in Accounts : OverlappingLogOn(a)
          /\ UNCHANGED entryVars
       \/ ActivateAccount
       \/ SignOut
    /\ UNCHANGED <<enabled, refresh, probe>>

(* Mutant: only the account that is connected loses its snapshots.          *)
UpdateSettingsOneAccount(flags) ==
    LET off == Cleared(Flags \ flags)
    IN /\ enabled' = flags
       /\ CancelRefreshes(off)
       /\ DeleteSnapshots({k \in off : k[1] = connection.steamID})
       /\ UNCHANGED <<accountVars, refresh, probe>>

(* Settings, by either endpoint: a game whose flag is off afterwards loses  *)
(* its refreshes and snapshots, for every account.                          *)
UpdateSettings(flags) ==
    LET off == Cleared(Flags \ flags)
    IN /\ enabled' = flags
       /\ CancelRefreshes(off)
       /\ DeleteSnapshots(off)
       /\ UNCHANGED <<accountVars, refresh, probe>>
-----------------------------------------------------------------------------
(* RefreshGameInventory and RefreshSteamInventoryService.                  *)

(* The first locked section: an earlier refresh of the key is cancelled and *)
(* superseded, its items stay on display while the new one loads.           *)
RefreshStart(r, g) ==
    LET k == <<connection.steamID, g>>
    IN /\ refresh[r].pc = "idle"
       /\ gameInventoryEnabled(g)
       /\ steamConnected
       /\ FoldFunction(+, 0, gameRefreshes) < MaxRefreshes
       /\ gameRefreshes' = [gameRefreshes EXCEPT ![k] = @ + 1]
       /\ gameInventories' = [gameInventories EXCEPT ![k].status = "loading"]
       /\ gameCancels' = gameCancels \cup {k}
       /\ refresh' = [refresh EXCEPT ![r] =
            [NoRefresh EXCEPT !.pc = "started", !.key = k,
                              !.generation = gameRefreshes[k] + 1]]
       /\ UNCHANGED <<accountVars, enabled, probe>>

(* The client is read without the mutex.                                    *)
RequestSend(r) ==
    /\ refresh[r].pc = "started"
    /\ refresh' = [refresh EXCEPT ![r].pc = "requesting", ![r].client =
                   IF refresh[r].key[2] \in GCGames THEN gcClient ELSE NoAccount]
    /\ UNCHANGED <<accountVars, enabled, entryVars, probe>>

(* What the request comes back with: a GC answers with the items of the     *)
(* account its client is logged on as, the requests of the other games name *)
(* the account; or it fails, is cancelled or runs into its deadline.        *)
Fetched(me) ==
    LET owner == IF me.key[2] \in GCGames THEN me.client ELSE me.key[1]
    IN {errorSnapshot} \cup (IF owner = NoAccount THEN {} ELSE {Ready(owner)})

(* Mutant: a superseded refresh removes the cancel function it finds.       *)
CommitDropsCancel(r) ==
    LET me == refresh[r]
    IN /\ me.pc = "requesting"
       /\ gameCancels' = gameCancels \ {me.key}
       /\ IF gameRefreshes[me.key] # me.generation THEN UNCHANGED gameInventories
          ELSE \E result \in Fetched(me) :
                 gameInventories' = [gameInventories EXCEPT ![me.key] = result]
       /\ refresh' = [refresh EXCEPT ![r] = NoRefresh]
       /\ UNCHANGED <<accountVars, enabled, gameRefreshes, probe>>

(* Mutant: a result is stored whatever its generation.                      *)
CommitAnyGeneration(r) ==
    LET me == refresh[r]
    IN /\ me.pc = "requesting"
       /\ gameCancels' = gameCancels \ {me.key}
       /\ \E result \in Fetched(me) :
             gameInventories' = [gameInventories EXCEPT ![me.key] = result]
       /\ UNCHANGED gameRefreshes
       /\ refresh' = [refresh EXCEPT ![r] = NoRefresh]
       /\ UNCHANGED <<accountVars, enabled, probe>>

(* The last locked section, after the request: a superseded result is       *)
(* dropped.                                                                 *)
RefreshCommit(r) ==
    LET me == refresh[r]
    IN /\ me.pc = "requesting"
       /\ \/ /\ gameRefreshes[me.key] # me.generation
             /\ UNCHANGED entryVars
          \/ /\ gameRefreshes[me.key] = me.generation
             /\ gameCancels' = gameCancels \ {me.key}
             /\ \E result \in Fetched(me) :
                   gameInventories' = [gameInventories EXCEPT ![me.key] = result]
             /\ UNCHANGED gameRefreshes
       /\ refresh' = [refresh EXCEPT ![r] = NoRefresh]
       /\ UNCHANGED <<accountVars, enabled, probe>>
-----------------------------------------------------------------------------
(* SteamInventoryServiceGames looks for games with a service inventory and  *)
(* stores each one it found, one locked section at a time, under the        *)
(* account it captured first.                                               *)
ProbeStart ==
    /\ probe.pc = "idle"
    /\ SteamFlag \in enabled
    /\ steamConnected
    /\ probe' = [NoProbe EXCEPT !.pc = "requesting", !.account = connection.steamID]
    /\ UNCHANGED <<accountVars, enabled, entryVars, refresh>>

ProbeReturns(found) ==
    /\ probe.pc = "requesting"
    /\ found # {} => gcClient # NoAccount
    /\ probe' = IF found = {} THEN NoProbe
                ELSE [probe EXCEPT !.pc = "storing", !.found = found]
    /\ UNCHANGED <<accountVars, enabled, entryVars, refresh>>

ProbeStore(g) ==
    /\ probe.pc = "storing"
    /\ g \in probe.found
    /\ gameInventories' = [gameInventories EXCEPT
                             ![<<probe.account, g>>] = Ready(probe.account)]
    /\ probe' = IF probe.found = {g} THEN NoProbe
                ELSE [probe EXCEPT !.found = @ \ {g}]
    /\ UNCHANGED <<accountVars, enabled, gameRefreshes, gameCancels, refresh>>
-----------------------------------------------------------------------------
RefreshStep(r) == RequestSend(r) \/ RefreshCommit(r)

Next == \/ AccountChange
        \/ \E flags \in SUBSET Flags : UpdateSettings(flags)
        \/ \E r \in Refreshers :
              RefreshStep(r) \/ \E g \in Games : RefreshStart(r, g)
        \/ ProbeStart
        \/ \E found \in SUBSET ServiceApps : ProbeReturns(found)
        \/ \E g \in ServiceApps : ProbeStore(g)

Spec == Init /\ [][Next]_vars
-----------------------------------------------------------------------------
InFlight(r, k) == refresh[r].pc # "idle" /\ refresh[r].key = k

IsNewest(r, k) == InFlight(r, k) /\ refresh[r].generation = gameRefreshes[k]

(* service_multigame.go: a key has a cancel function exactly while its      *)
(* newest refresh runs, so every way to end a refresh reaches the one that  *)
(* could still write, whatever older ones are in flight.                    *)
CancelReachesTheWriter ==
    \A k \in Keys : k \in gameCancels <=> \E r \in Refreshers : IsNewest(r, k)

(* service_multigame_test.go, "disabled game retained state": a disabled    *)
(* game holds no snapshot and no cancel function, of any account, although  *)
(* refreshes of it may still be returning.                                  *)
DisabledGameIsEmpty ==
    \A k \in Cleared(Flags \ enabled) :
        gameInventories[k] = NoSnapshot /\ k \notin gameCancels

(* service_multigame.go: a snapshot that a sign-out or a setting removed    *)
(* comes back only by a new refresh of the account that is connected.       *)
RemovedStaysRemoved ==
    [][\A k \in Cleared(Flags) :
         gameInventories[k].status = "none"
         => gameInventories'[k].status \in {"none", "loading"}
            /\ (gameInventories'[k].status = "loading" =>
                  steamConnected /\ k[1] = connection.steamID)]_vars

(* The refreshes implement GameSnapshots: whatever is cancelled, superseded,*)
(* switched and disabled while requests are in flight, a snapshot is written*)
(* only by the newest refresh of its key, once, and, unless its items come  *)
(* from the GC client, with the items of the account of the key             *)
(* (service_multigame.go:215, gameRefreshes).                               *)
removals == {Cleared(flags) : flags \in SUBSET Flags} \cup {Keys}

newestRefreshes ==
    {<<r, refresh[r].key>> : r \in {q \in Refreshers : IsNewest(q, refresh[q].key)}}

Snapshots == INSTANCE GameSnapshots WITH
    snapshot <- gameInventories, awaited <- newestRefreshes,
    Requests <- Refreshers, Owners <- Accounts, NoOwner <- NoAccount,
    Probed <- Accounts \X ServiceApps, Shared <- Accounts \X GCGames,
    Removals <- removals

ImplementsGameSnapshots == Snapshots!Spec

(* service_multigame_test.go: game inventory snapshots are account scoped.  *)
(* Known not to hold.                                                       *)
SnapshotIsAccountScoped ==
    \A k \in Keys : gameInventories[k].status = "ready" =>
        gameInventories[k].owner = k[1]
=============================================================================
