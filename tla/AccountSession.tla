--------------------------- MODULE AccountSession ---------------------------
(***************************************************************************)
(* The account session of the Local Agent's Service: which Steam account   *)
(* is active, which GC client serves it, and the session epoch and account *)
(* context that name one sign-in of one account.  The modules that model   *)
(* work done on behalf of an account extend this one and conjoin their own *)
(* state to its actions.                                                   *)
(*                                                                         *)
(* One critical section of Service.mu is one action.  Whatever the code    *)
(* does without the mutex is a step of its own in those modules, so an     *)
(* account change can fall between any two of their steps.                 *)
(*                                                                         *)
(* Abstractions.  A sign-in is LogOn (the transport authenticates), then   *)
(* Activate or LoginFails, and one sign-in runs at a time.  A GC client is *)
(* named by the account it is logged on as.  A second sign-in that was     *)
(* prepared before the first registered is OverlappingLogOn, which         *)
(* GameInventories and Purchases take in.  The operations "steam.connect", *)
(* "steam.guard" and "steam.disconnect" of SubmitOperation, which overwrite *)
(* the state of the connection and which nothing in the repository sends,  *)
(* are left out.                                                           *)
(***************************************************************************)
EXTENDS Naturals, FiniteSets

CONSTANTS
    Accounts,    \* Steam accounts, by SteamID
    NoAccount,   \* the empty SteamID, and a client nobody is logged on to
    MaxEpoch     \* bound: how often the session epoch may be advanced

ASSUME AccountAssumption ==
    /\ NoAccount \notin Accounts
    /\ MaxEpoch \in Nat

VARIABLES
    connection,       \* Service.connection: State and SteamID
    gcClient,         \* the account Service.gcClient is logged on as
    pendingLogin,     \* an account whose LogOn succeeded, not yet activated
    gcSessionEpoch,   \* Service.gcSessionEpoch
    gcSessionContext, \* the epoch Service.gcSessionContext was made in
    canceled          \* the epochs whose account context was cancelled

epochVars   == <<gcSessionEpoch, gcSessionContext, canceled>>
loginVars   == <<connection, gcClient, pendingLogin>>
accountVars == <<connection, gcClient, pendingLogin, gcSessionEpoch,
                 gcSessionContext, canceled>>

SteamIDs  == Accounts \cup {NoAccount}
NoContext == 0

(* "error" stands for every state of a sign-in that is neither finished nor *)
(* "disconnected": connecting, awaiting_qr, needs_steam_guard, error.       *)
States == {"disconnected", "error", "connected", "session_conflict"}

AccountTypeOK ==
    /\ connection \in [state : States, steamID : SteamIDs]
    /\ gcClient \in SteamIDs
    /\ pendingLogin \in SteamIDs
    /\ gcSessionEpoch \in Nat
    /\ gcSessionContext \in Nat
    /\ canceled \subseteq Nat

AccountInit ==
    /\ connection = [state |-> "disconnected", steamID |-> NoAccount]
    /\ gcClient = NoAccount
    /\ pendingLogin = NoAccount
    /\ gcSessionEpoch = 0
    /\ gcSessionContext = NoContext
    /\ canceled = {}
-----------------------------------------------------------------------------
(* Helpers that run under Service.mu.                                      *)

steamConnected == connection.state = "connected"

(* currentGCSessionKeyLocked makes a context, in a new epoch, when there is *)
(* none; SessionEpoch is the epoch it answers with and LookupKey what it    *)
(* leaves behind.  Without a connected account it only returns an error.    *)
SessionEpoch == IF gcSessionContext = NoContext THEN gcSessionEpoch + 1
                                                ELSE gcSessionEpoch

currentGCSessionKey(app) ==
    [account |-> connection.steamID, app |-> app, epoch |-> SessionEpoch]

LookupKey ==
    /\ gcSessionEpoch' = IF steamConnected THEN SessionEpoch ELSE gcSessionEpoch
    /\ gcSessionContext' = IF steamConnected /\ gcSessionContext = NoContext
                           THEN SessionEpoch ELSE gcSessionContext
    /\ UNCHANGED canceled

IsCurrent(k) == steamConnected /\ currentGCSessionKey(k.app) = k

CancelContext ==
    canceled' = IF gcSessionContext = NoContext THEN canceled
                ELSE canceled \cup {gcSessionContext}
-----------------------------------------------------------------------------
(* Signing in and out.                                                     *)

(* prepareAdditionalSteamSession, at the start of a sign-in: any state but  *)
(* "disconnected" gives up the active client for a fresh one.  Neither the  *)
(* epoch nor the account context is touched.                                *)
PrepareAdditionalSession ==
    /\ pendingLogin = NoAccount
    /\ connection.state # "disconnected"
    /\ connection' = [state |-> "disconnected", steamID |-> NoAccount]
    /\ gcClient' = NoAccount
    /\ UNCHANGED <<pendingLogin, epochVars>>

(* The transport's LogOn succeeds for account a.                            *)
LogOn(a) ==
    /\ pendingLogin = NoAccount
    /\ connection.state = "disconnected"
    /\ pendingLogin' = a
    /\ gcClient' = a
    /\ UNCHANGED <<connection, epochVars>>

(* A second sign-in, prepared before the connected account registered, logs *)
(* the same client on as another account; Activate then replaces it.        *)
OverlappingLogOn(a) ==
    /\ pendingLogin = NoAccount
    /\ steamConnected
    /\ pendingLogin' = a
    /\ gcClient' = a
    /\ UNCHANGED <<connection, epochVars>>

(* The connection, LogOn or, after it, announcing the games played fails.   *)
LoginFails ==
    /\ connection.state = "disconnected" \/ pendingLogin # NoAccount
    /\ pendingLogin' = NoAccount
    /\ connection' = [state |-> "error", steamID |-> NoAccount]
    /\ UNCHANGED <<gcClient, epochVars>>

(* Mutant: a sign-in goes on under the context it finds.                    *)
activateKeepsContext ==
    /\ gcSessionEpoch' = SessionEpoch
    /\ gcSessionContext' = SessionEpoch
    /\ UNCHANGED canceled

(* activateAccountSessionLocked cancels the old context and makes a new one *)
(* in a new epoch.                                                          *)
activateAccountSession ==
    /\ CancelContext
    /\ gcSessionEpoch' = gcSessionEpoch + 1
    /\ gcSessionContext' = gcSessionEpoch + 1

(* It drops the account's snapshots only when the connection still names    *)
(* another account.                                                         *)
DropsSnapshots(next) == connection.steamID \notin {NoAccount, next}

(* The locked tail of every sign-in: activate, then register the session.   *)
Activate ==
    /\ pendingLogin # NoAccount
    /\ gcSessionEpoch < MaxEpoch
    /\ activateAccountSession
    /\ connection' = [state |-> "connected", steamID |-> pendingLogin]
    /\ pendingLogin' = NoAccount
    /\ UNCHANGED gcClient

(* invalidateAccountSessionLocked leaves no context at all.                 *)
invalidateAccountSession ==
    /\ CancelContext
    /\ gcSessionContext' = NoContext
    /\ gcSessionEpoch' = gcSessionEpoch + 1

(* DisconnectSteam, which also closes the client.  A sign-in in flight is   *)
(* not stopped by it.                                                       *)
DisconnectSteam ==
    /\ gcSessionEpoch < MaxEpoch
    /\ invalidateAccountSession
    /\ connection' = [state |-> "disconnected", steamID |-> NoAccount]
    /\ gcClient' = NoAccount
    /\ UNCHANGED pendingLogin

(* RefreshInventory learns that Steam ended the session for another one:    *)
(* its error branch, as other features see it.                              *)
SessionConflict ==
    /\ steamConnected
    /\ connection' = [connection EXCEPT !.state = "session_conflict"]
    /\ UNCHANGED <<gcClient, pendingLogin, epochVars>>

(* The actions that leave the account's epoch alone.                        *)
SwitchClient == \/ PrepareAdditionalSession
                \/ \E a \in Accounts : LogOn(a)
                \/ LoginFails
-----------------------------------------------------------------------------
(* An account stays signed in through a session conflict; what names its    *)
(* sign-in are the account and the epoch of its keys.                       *)
SignedIn == connection.state \in {"connected", "session_conflict"}

currentSession ==
    IF SignedIn THEN [account |-> connection.steamID, epoch |-> SessionEpoch]
                ELSE NoAccount

Named == INSTANCE SessionKeys WITH
    session <- currentSession, newest <- gcSessionEpoch, NoSession <- NoAccount

(* A captured key names one sign-in (docs/multi-account-architecture.md:47):*)
(* as long as it is still the current one no account change came in         *)
(* between, and once it is not it never is again, so that comparing it      *)
(* before a commit is enough, whatever sign-ins, failed sign-ins, sign-outs *)
(* and conflicts there were.                                                *)
ImplementsSessionKeys == Named!Spec

(* What makes it hold: a context is nil or of the current epoch, and who is *)
(* signed in has one.                                                       *)
SessionHasContext ==
    /\ gcSessionContext \in {NoContext, gcSessionEpoch}
    /\ SignedIn => gcSessionContext # NoContext /\ connection.steamID \in Accounts
=============================================================================
