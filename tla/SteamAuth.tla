------------------------------ MODULE SteamAuth ------------------------------
(***************************************************************************)
(* Signing in to Steam and out again (service_auth*.go): password sign-ins *)
(* with the Steam Guard code and the mobile approval that may follow, QR   *)
(* sign-ins that poll and renew their code, the restored session of an     *)
(* earlier run, and DisconnectSteam, all side by side.  AccountSession     *)
(* knows one sign-in at a time; this module knows what several do to the   *)
(* client, the registry of sessions and the saved credential.              *)
(*                                                                         *)
(* A flow is one request of the user with the goroutine it leaves behind.  *)
(* A critical section of Service.mu is one action, and so is a call of the *)
(* transport, which reads Service.gcClient without the mutex unless the    *)
(* flow captured its client.  A GC client is named by the flow that made   *)
(* it, a context by the flow it was made for; a username is its account.   *)
(***************************************************************************)
EXTENDS Naturals

CONSTANTS
    Accounts,    \* Steam accounts
    NoAccount,   \* the empty SteamID or username
    Flows,       \* sign-ins, code submissions and sign-outs
    NoFlow       \* no cancel function; as a client, the one of NewService

ASSUME AuthAssumption == NoAccount \notin Accounts /\ NoFlow \notin Flows

Clients  == Flows \cup {NoFlow}
SteamIDs == Accounts \cup {NoAccount}
NoClient == "none"

VARIABLES
    connection,     \* Service.connection: State and SteamID
    gcClient,       \* Service.gcClient
    clients,        \* of a client: has it a connection, who is logged on
    steamSessions,  \* Service.steamSessions: the client of an account
    activeSteamID,  \* Service.activeSteamID
    pendingUsername,\* Service.pendingUsername
    authEpoch,      \* Service.authEpoch
    authCancel,     \* the flow whose context Service.authCancel cancels
    canceled,       \* the flows whose context was cancelled
    saved,          \* the account whose credential is stored
    flow,           \* the flows
    signedOut       \* history: a sign-out removed the credential, and the
                    \* user asked for nothing since

clientVars  == <<gcClient, clients>>
sessionVars == <<steamSessions, activeSteamID>>
cancelVars  == <<authEpoch, authCancel, canceled>>
vars == <<connection, clientVars, sessionVars, pendingUsername, cancelVars,
          saved, flow, signedOut>>

Closed   == [open |-> FALSE, account |-> NoAccount]
Open     == [open |-> TRUE,  account |-> NoAccount]
States   == {"disconnected", "connecting", "awaiting_qr", "needs_steam_guard",
             "error", "connected", "session_conflict"}
Kinds    == {"none", "password", "approval", "qr", "guard", "restore", "disconnect"}
PCs      == {"idle", "restore", "connect", "logon", "guard", "presence", "register",
             "fail", "save", "qr", "begin", "show", "poll", "approved", "reset",
             "expired", "renew", "answered", "guarded", "refused", "close",
             "clear", "done"}
Flow     == [kind : Kinds, pc : PCs, account : SteamIDs, client : Clients, epoch : Nat,
             renewed : BOOLEAN]
NewFlow  == [kind |-> "none", pc |-> "idle", account |-> NoAccount, client |-> NoFlow,
             epoch |-> 0, renewed |-> FALSE]

TypeOK ==
    /\ connection \in [state : States, steamID : SteamIDs]
    /\ gcClient \in Clients
    /\ clients \in [Clients -> [open : BOOLEAN, account : SteamIDs]]
    /\ steamSessions \in [Accounts -> Clients \cup {NoClient}]
    /\ activeSteamID \in SteamIDs
    /\ pendingUsername \in SteamIDs
    /\ authEpoch \in Nat
    /\ authCancel \in Flows \cup {NoFlow}
    /\ canceled \subseteq Flows
    /\ saved \in SteamIDs
    /\ flow \in [Flows -> Flow]
    /\ signedOut \in BOOLEAN

Status(state) == [state |-> state, steamID |-> NoAccount]

(* NewService; when a credential was saved, main starts to restore it.      *)
Init ==
    /\ connection = Status("disconnected")
    /\ gcClient = NoFlow
    /\ clients = [c \in Clients |-> Closed]
    /\ steamSessions = [a \in Accounts |-> NoClient]
    /\ activeSteamID = NoAccount
    /\ pendingUsername = NoAccount
    /\ authEpoch = 0
    /\ authCancel = NoFlow
    /\ canceled = {}
    /\ signedOut = FALSE
    /\ saved \in SteamIDs
    /\ \/ saved = NoAccount /\ flow = [f \in Flows |-> NewFlow]
       \/ saved # NoAccount /\ \E r \in Flows :
             flow = [[f \in Flows |-> NewFlow] EXCEPT ![r].kind = "restore",
                        ![r].pc = "restore", ![r].account = saved]
-----------------------------------------------------------------------------
Goto(f, pc) == flow' = [flow EXCEPT ![f].pc = pc]

(* The client a flow talks to: a QR sign-in has captured its own.           *)
Captured == {"begin", "poll", "reset", "renew", "logon"}
ClientOf(f) == IF flow[f].kind = "qr" /\ flow[f].pc \in Captured THEN flow[f].client
                                                             ELSE gcClient

SetClient(c, v) == clients' = [clients EXCEPT ![c] = v]

(* s.authCancel() where it is called.                                       *)
CancelAuth == canceled' = canceled \cup ({authCancel} \ {NoFlow})

Superseded(f) == flow[f].kind = "qr" /\ flow[f].epoch # authEpoch
-----------------------------------------------------------------------------
(* Starting a flow.                                                         *)

(* Mutant: an interrupted sign-in's client is given up, the status kept.    *)
PrepareKeepsConnection(f, kind, a) ==
    /\ flow[f].pc = "idle"
    /\ IF connection.state = "disconnected"
       THEN UNCHANGED clientVars
       ELSE gcClient' = f /\ UNCHANGED clients
    /\ flow' = [flow EXCEPT ![f].kind = kind, ![f].account = a,
                            ![f].pc = IF kind = "qr" THEN "qr" ELSE "connect"]
    /\ signedOut' = FALSE
    /\ UNCHANGED <<connection, sessionVars, pendingUsername, cancelVars, saved>>

(* prepareAdditionalSteamSession, the first thing of a password or QR       *)
(* sign-in: any state but "disconnected" gets a fresh client, and the old   *)
(* one is closed unless its account is connected.                           *)
Prepare(f, kind, a) ==
    /\ flow[f].pc = "idle"
    /\ IF connection.state = "disconnected"
       THEN UNCHANGED <<connection, clientVars>>
       ELSE /\ connection' = Status("disconnected")
            /\ gcClient' = f
            /\ clients' = IF connection.state = "connected" THEN clients
                          ELSE [clients EXCEPT ![gcClient] = Closed]
    /\ flow' = [flow EXCEPT ![f].kind = kind, ![f].account = a,
                            ![f].pc = IF kind = "qr" THEN "qr" ELSE "connect"]
    /\ signedOut' = FALSE
    /\ UNCHANGED <<sessionVars, pendingUsername, cancelVars, saved>>

(* StartSteamQR supersedes every earlier QR sign-in and captures a client.  *)
StartSteamQR(f) ==
    /\ flow[f].pc = "qr"
    /\ CancelAuth
    /\ authEpoch' = authEpoch + 1
    /\ authCancel' = f
    /\ connection' = Status("connecting")
    /\ flow' = [flow EXCEPT ![f].pc = "begin", ![f].epoch = authEpoch + 1,
                            ![f].client = gcClient]
    /\ UNCHANGED <<clientVars, sessionVars, pendingUsername, saved, signedOut>>

RestoreSteamSession(f) ==
    /\ flow[f].pc = "restore"
    /\ connection' = Status("connecting")
    /\ Goto(f, "connect")
    /\ UNCHANGED <<clientVars, sessionVars, pendingUsername, cancelVars, saved, signedOut>>

(* SubmitSteamGuard takes the pending challenge and stops the approval.     *)
SubmitSteamGuard(f) ==
    /\ flow[f].pc = "idle"
    /\ \/ /\ pendingUsername = NoAccount
          /\ connection' = Status("error")
          /\ flow' = [flow EXCEPT ![f].kind = "guard", ![f].pc = "done"]
          /\ UNCHANGED cancelVars
       \/ /\ pendingUsername # NoAccount
          /\ CancelAuth
          /\ authCancel' = NoFlow
          /\ flow' = [flow EXCEPT ![f].kind = "guard", ![f].pc = "logon",
                                  ![f].account = pendingUsername]
          /\ UNCHANGED <<connection, authEpoch>>
    /\ signedOut' = FALSE
    /\ UNCHANGED <<clientVars, sessionVars, pendingUsername, saved>>

(* DisconnectSteam's locked section.                                        *)
DisconnectSteam(f) ==
    /\ flow[f].pc = "idle"
    /\ CancelAuth
    /\ authCancel' = NoFlow
    /\ connection' = Status("disconnected")
    /\ steamSessions' = [a \in Accounts |-> IF a = connection.steamID THEN NoClient
                                                                 ELSE steamSessions[a]]
    /\ activeSteamID' = NoAccount
    /\ pendingUsername' = NoAccount
    /\ flow' = [flow EXCEPT ![f].kind = "disconnect", ![f].pc = "close"]
    /\ UNCHANGED <<clientVars, authEpoch, saved, signedOut>>
-----------------------------------------------------------------------------
(* Talking to the transport.                                                *)

transportVars == <<connection, gcClient, sessionVars, pendingUsername, cancelVars,
                   saved, signedOut>>

(* Connect keeps a connection that is there already.                        *)
Connect(f) ==
    LET c == gcClient
    IN /\ flow[f].pc = "connect"
       /\ \/ SetClient(c, IF clients[c].open THEN clients[c] ELSE Open) /\ Goto(f, "logon")
          \/ ~clients[c].open /\ Goto(f, "fail") /\ UNCHANGED clients
       /\ UNCHANGED transportVars

(* LogOn: the account is logged on, whoever was before; or Steam wants a    *)
(* Guard code for a password; or it fails, which may close the connection.  *)
(* A flow that was cancelled may still get its answer first.                *)
LogOn(f) ==
    LET c == ClientOf(f)
        me == flow[f]
    IN /\ me.pc = "logon"
       /\ \/ /\ clients[c].open
             /\ SetClient(c, [open |-> TRUE, account |-> me.account])
             /\ Goto(f, IF me.kind = "guard" THEN "answered" ELSE "presence")
          \/ /\ clients[c].open /\ me.kind \in {"password", "guard", "approval"}
             /\ Goto(f, CASE me.kind = "guard" -> "guarded"
                          [] me.kind = "password" -> "guard"
                          [] OTHER -> IF f \in canceled THEN "done" ELSE "logon")
             /\ UNCHANGED clients
          \/ /\ Goto(f, CASE me.kind = "guard" -> "refused"
                          [] me.kind = "approval" /\ f \in canceled -> "done"
                          [] OTHER -> "fail")
             /\ clients' \in {clients, [clients EXCEPT ![c] = Closed]}
       /\ UNCHANGED transportVars

(* SetGamesPlayed, always on the current client.                            *)
SetGamesPlayed(f) ==
    /\ flow[f].pc = "presence"
    /\ \/ clients[gcClient].open /\ Goto(f, "register")
       \/ Goto(f, "fail")
    /\ UNCHANGED <<clients, transportVars>>

(* A QR sign-in connects its client and asks for a code; renews the code on *)
(* a new connection; or, approved, reconnects for the authenticated logon.  *)
QRTransport(f) ==
    LET c == ClientOf(f)
        me == flow[f]
    IN /\ me.pc \in {"begin", "renew", "reset"}
       /\ \/ /\ SetClient(c, IF me.pc = "begin" /\ clients[c].open THEN clients[c] ELSE Open)
             /\ Goto(f, IF me.pc = "reset" THEN "logon" ELSE "show")
          \/ /\ Goto(f, "fail")
             /\ SetClient(c, IF me.pc = "begin" THEN clients[c] ELSE Closed)
       /\ UNCHANGED transportVars
-----------------------------------------------------------------------------
(* The critical sections of a QR sign-in.                                   *)

qrVars == <<clientVars, sessionVars, pendingUsername, authEpoch, saved, signedOut>>

Drop(f) == Superseded(f) /\ Goto(f, "done") /\ UNCHANGED <<connection, authCancel, canceled>>

ShowQR(f) ==
    /\ flow[f].pc = "show"
    /\ \/ Drop(f)
       \/ /\ ~Superseded(f)
          /\ connection' = Status("awaiting_qr")
          /\ Goto(f, "poll")
          /\ UNCHANGED <<authCancel, canceled>>
    /\ UNCHANGED qrVars

(* OnChallengeURL, called by a poll that brings a new code; a renewed QR    *)
(* session has no such callback.                                            *)
ChallengeURL(f) ==
    /\ flow[f].pc = "poll" /\ ~flow[f].renewed
    /\ ~Superseded(f)
    /\ connection' = Status("awaiting_qr")
    /\ UNCHANGED <<qrVars, authCancel, canceled, flow>>

(* CompleteQRAuth returns: approved by an account, past its deadline, or    *)
(* with an error; a flow that was cancelled stops, unless its approval or   *)
(* its deadline came first.                                                 *)
CompleteQRAuth(f) ==
    /\ flow[f].pc = "poll"
    /\ \/ \E a \in Accounts :
             flow' = [flow EXCEPT ![f].pc = "approved", ![f].account = a]
       \/ Goto(f, "expired")
       \/ Goto(f, IF f \in canceled THEN "done" ELSE "fail")
    /\ UNCHANGED <<clients, transportVars>>

QRApproved(f) ==
    /\ flow[f].pc = "approved"
    /\ \/ Drop(f)
       \/ /\ ~Superseded(f)
          /\ connection' = Status("connecting")
          /\ Goto(f, "reset")
          /\ UNCHANGED <<authCancel, canceled>>
    /\ UNCHANGED qrVars

(* Mutant: an expired code is renewed, and polled for again, without asking *)
(* for the epoch before or after.                                           *)
RefreshExpiredAlways(f) ==
    /\ flow[f].pc = "expired"
    /\ connection' = Status("awaiting_qr")
    /\ authCancel' = f
    /\ canceled' = canceled \ {f}
    /\ flow' = [flow EXCEPT ![f].pc = "poll", ![f].client = gcClient,
                            ![f].renewed = TRUE]
    /\ UNCHANGED qrVars

(* refreshExpiredQR makes a new context and takes the current client.       *)
RefreshExpiredQR(f) ==
    /\ flow[f].pc = "expired"
    /\ \/ Drop(f)
       \/ /\ ~Superseded(f)
          /\ connection' = Status("connecting")
          /\ authCancel' = f
          /\ canceled' = canceled \ {f}
          /\ flow' = [flow EXCEPT ![f].pc = "renew", ![f].client = gcClient,
                                  ![f].renewed = TRUE]
    /\ UNCHANGED qrVars
-----------------------------------------------------------------------------
(* How a sign-in ends.                                                      *)

(* Steam wants a code: the challenge is remembered, the user told, and a    *)
(* goroutine goes on to wait for the approval in the mobile app.            *)
SteamGuardRequired(f) ==
    /\ flow[f].pc = "guard"
    /\ pendingUsername' = flow[f].account
    /\ connection' = Status("needs_steam_guard")
    /\ authCancel' = f
    /\ flow' = [flow EXCEPT ![f].kind = "approval", ![f].pc = "logon"]
    /\ UNCHANGED <<clientVars, sessionVars, authEpoch, canceled, saved, signedOut>>

(* Mutant: an error of a QR sign-in is reported without asking for the      *)
(* epoch.                                                                   *)
FailAlways(f) ==
    /\ flow[f].pc = "fail"
    /\ connection' = Status("error")
    /\ authCancel' = IF flow[f].kind \in {"qr", "approval"} THEN NoFlow ELSE authCancel
    /\ Goto(f, "done")
    /\ UNCHANGED <<clientVars, sessionVars, pendingUsername, authEpoch, canceled,
                   saved, signedOut>>

(* The error sections: setQRAuthError, setAuthError, failSteamSessionRestore *)
(* and those of ConnectSteam.                                               *)
Fail(f) ==
    /\ flow[f].pc = "fail"
    /\ IF Superseded(f)
       THEN UNCHANGED <<connection, authCancel>>
       ELSE /\ connection' = Status("error")
            /\ authCancel' = IF flow[f].kind \in {"qr", "approval"} THEN NoFlow
                                                                   ELSE authCancel
    /\ Goto(f, "done")
    /\ UNCHANGED <<clientVars, sessionVars, pendingUsername, authEpoch, canceled,
                   saved, signedOut>>

(* registerSteamSessionLocked: the current client becomes the account's.    *)
RegisterSession(a) ==
    /\ steamSessions' = [steamSessions EXCEPT ![a] = gcClient]
    /\ activeSteamID' = a
    /\ connection' = [state |-> "connected", steamID |-> a]

(* The last section of ConnectSteam, finishQRSteamLogin, finishSteamLogin   *)
(* and RestoreSteamSession.                                                 *)
Register(f) ==
    LET me == flow[f]
    IN /\ me.pc = "register"
       /\ \/ /\ Superseded(f)
             /\ Goto(f, "done")
             /\ UNCHANGED <<connection, sessionVars, pendingUsername, authCancel>>
          \/ /\ ~Superseded(f)
             /\ RegisterSession(me.account)
             /\ pendingUsername' = IF me.kind = "restore" THEN pendingUsername ELSE NoAccount
             /\ authCancel' = IF me.kind \in {"qr", "approval"} THEN NoFlow ELSE authCancel
             /\ Goto(f, "save")
       /\ UNCHANGED <<clientVars, authEpoch, canceled, saved, signedOut>>

(* persistSteamSession; that it may fail is ignored.                        *)
Save(a) == saved' \in {saved, a}

PersistSteamSession(f) ==
    /\ flow[f].pc = "save"
    /\ Save(flow[f].account)
    /\ Goto(f, "done")
    /\ UNCHANGED <<connection, clientVars, sessionVars, pendingUsername, cancelVars,
                   signedOut>>

(* Mutant: the answer to a challenge is used although it is not pending.    *)
GuardAnsweredAlways(f) ==
    LET me == flow[f]
    IN /\ me.pc \in {"answered", "guarded", "refused"}
       /\ \/ /\ me.pc = "guarded"
             /\ connection' = Status("needs_steam_guard")
          \/ /\ me.pc \in {"answered", "refused"}
             /\ connection' = Status("error")
       /\ Goto(f, "done")
       /\ UNCHANGED <<clientVars, sessionVars, pendingUsername, cancelVars, saved,
                      signedOut>>

(* The last section of SubmitSteamGuard, which announces the games, signs   *)
(* in and saves without releasing the mutex, unless no challenge is pending *)
(* any more.                                                                *)
GuardAnswered(f) ==
    LET me == flow[f]
        keep == UNCHANGED <<sessionVars, pendingUsername, saved>>
    IN /\ me.pc \in {"answered", "guarded", "refused"}
       /\ \/ pendingUsername = NoAccount /\ UNCHANGED connection /\ keep
          \/ /\ pendingUsername # NoAccount /\ me.pc = "guarded"
             /\ connection' = Status("needs_steam_guard") /\ keep
          \/ /\ pendingUsername # NoAccount /\ me.pc \in {"answered", "refused"}
             /\ connection' = Status("error") /\ keep
          \/ /\ pendingUsername # NoAccount /\ me.pc = "answered"
             /\ clients[gcClient].open
             /\ RegisterSession(me.account)
             /\ pendingUsername' = NoAccount
             /\ Save(me.account)
       /\ Goto(f, "done")
       /\ UNCHANGED <<clientVars, cancelVars, signedOut>>

(* DisconnectSteam goes on without the mutex: it closes the client that is  *)
(* current by then and removes the saved credential; that the removal may   *)
(* fail is ignored.                                                         *)
CloseClient(f) ==
    /\ flow[f].pc = "close"
    /\ SetClient(gcClient, Closed)
    /\ Goto(f, "clear")
    /\ UNCHANGED transportVars

ClearPersistedSession(f) ==
    /\ flow[f].pc = "clear"
    /\ saved' \in {saved, NoAccount}
    /\ signedOut' = (saved' = NoAccount)
    /\ Goto(f, "done")
    /\ UNCHANGED <<connection, clientVars, sessionVars, pendingUsername, cancelVars>>

(* Mutant: a state the connection does not have.                            *)
SessionConflictUnnamed ==
    /\ connection.state = "connected"
    /\ connection' = [connection EXCEPT !.state = "conflict"]
    /\ UNCHANGED <<clientVars, sessionVars, pendingUsername, cancelVars, saved, flow,
                   signedOut>>

(* RefreshInventory learns of another session of the account.               *)
SessionConflict ==
    /\ connection.state = "connected"
    /\ connection' = [connection EXCEPT !.state = "session_conflict"]
    /\ UNCHANGED <<clientVars, sessionVars, pendingUsername, cancelVars, saved, flow,
                   signedOut>>
-----------------------------------------------------------------------------
Request(f) == \/ \E a \in Accounts : Prepare(f, "password", a)
              \/ Prepare(f, "qr", NoAccount)
              \/ SubmitSteamGuard(f)
              \/ DisconnectSteam(f)

FlowStep(f) == \/ StartSteamQR(f) \/ RestoreSteamSession(f)
               \/ Connect(f) \/ LogOn(f) \/ SetGamesPlayed(f) \/ QRTransport(f)
               \/ ShowQR(f) \/ CompleteQRAuth(f) \/ QRApproved(f) \/ RefreshExpiredQR(f)
               \/ SteamGuardRequired(f) \/ Fail(f) \/ Register(f)
               \/ PersistSteamSession(f) \/ GuardAnswered(f)
               \/ CloseClient(f) \/ ClearPersistedSession(f)

Next == \/ \E f \in Flows : Request(f) \/ FlowStep(f) \/ ChallengeURL(f)
        \/ SessionConflict

Spec == Init /\ [][Next]_vars

(* A handler and the goroutine it leaves behind are scheduled, and calls of *)
(* the transport return: a QR context has a deadline of five minutes, a     *)
(* LogOn and a handshake have timeouts.                                     *)
FairSpec == Spec /\ \A f \in Flows : WF_vars(FlowStep(f))
-----------------------------------------------------------------------------
(* Properties.                                                             *)

(* The active account is registered with the client in use: in "connected"  *)
(* and in a session conflict, activeSteamID, the connection, the registry   *)
(* and gcClient agree, whichever flow signed in, failed, was superseded or   *)
(* signed out last.                                                         *)
ActiveIsRegistered ==
    connection.state \in {"connected", "session_conflict"} =>
        /\ connection.steamID \in Accounts
        /\ activeSteamID = connection.steamID
        /\ steamSessions[activeSteamID] = gcClient

(* The user is asked for a Steam Guard code only while the challenge it     *)
(* answers is pending: a submission whose challenge was cancelled by a      *)
(* sign-out, or answered by the mobile approval, does not bring the prompt  *)
(* back (service_auth.go, SubmitSteamGuard).                                *)
GuardPromptPending ==
    connection.state = "needs_steam_guard" => pendingUsername # NoAccount

(* A QR sign-in that was superseded by a newer one changes neither the      *)
(* connection nor the registry any more, wherever it had got to: polling,   *)
(* renewing its code, reconnecting, failing or about to register.           *)
SupersededQRSilent ==
    [][\A f \in Flows :
         flow[f].epoch # 0 /\ Superseded(f) /\ flow'[f] # flow[f] =>
            UNCHANGED <<connection, sessionVars, authCancel>>]_vars

(* A superseded QR sign-in stays superseded, and has at most four sections   *)
(* and calls left: whichever transport call it is in, each step that it     *)
(* takes brings it nearer to its end, and none leads back to polling or to  *)
(* the renewal of its code (service_auth_qr_refresh.go:12).                 *)
StepsLeft(pc) == CASE pc = "reset"                                  -> 4
                   [] pc = "logon"                                  -> 3
                   [] pc \in {"begin", "renew", "poll", "presence"} -> 2
                   [] pc = "done"                                   -> 0
                   [] OTHER                                         -> 1

SupersededQRWindsDown ==
    [][\A f \in Flows :
         flow[f].epoch # 0 /\ Superseded(f) =>
            /\ flow'[f].epoch # 0 /\ Superseded(f)'
            /\ flow'[f] # flow[f] => StepsLeft(flow'[f].pc) < StepsLeft(flow[f].pc)]_vars

(* A superseded QR sign-in ends: its poller does not renew its code for     *)
(* ever, even when the cancel function it could be stopped with is lost to  *)
(* a later flow.                                                            *)
SupersededQREnds ==
    \A f \in Flows :
        flow[f].epoch # 0 /\ Superseded(f) ~> flow[f].pc = "done"
-----------------------------------------------------------------------------
(* What the repository says of the program and the code does not keep.     *)

(* README.md: explicitly disconnecting Steam removes the saved credential.  *)
(* Once a sign-out has removed it, none is stored until the user asks for   *)
(* something again.                                                         *)
SignOutRemovesCredential == signedOut => saved = NoAccount
=============================================================================
