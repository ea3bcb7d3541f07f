--------------------------- MODULE SteamAuthProofs ---------------------------
(***************************************************************************)
(* Proofs about SteamAuth for any number of accounts and of flows: with    *)
(* one action per critical section and no assumption on how the sections   *)
(* of several flows interleave.                                            *)
(***************************************************************************)
EXTENDS SteamAuth, TLAPS

(* Where a flow knows its account, and where a QR sign-in that has captured *)
(* its epoch can be.                                                        *)
NamedPCs == {"restore", "connect", "logon", "guard", "presence", "register", "save",
             "approved", "reset", "answered", "guarded", "refused"}
QRPCs    == {"begin", "show", "poll", "approved", "reset", "expired", "renew", "logon",
             "presence", "register", "fail", "save", "done"}

(* A flow that may sign in, or ask for a code, knows for whom; a QR sign-in *)
(* never gets to the unguarded sections of the other flows.                 *)
Placed(r) ==
    /\ r.pc \in NamedPCs => r.account \in Accounts
    /\ r.pc = "idle" => r.epoch = 0
    /\ r.kind = "qr" /\ r.epoch # 0 => r.pc \in QRPCs

FlowsOK == flow \in [Flows -> Flow] /\ \A f \in Flows : Placed(flow[f])

ClientRec == [open : BOOLEAN, account : SteamIDs]

(* TypeOK without the flows.                                                *)
SharedOK ==
    /\ connection \in [state : States, steamID : SteamIDs]
    /\ gcClient \in Clients
    /\ clients \in [Clients -> [open : BOOLEAN, account : SteamIDs]]
    /\ steamSessions \in [Accounts -> Clients \cup {NoClient}]
    /\ activeSteamID \in SteamIDs
    /\ pendingUsername \in SteamIDs
    /\ authEpoch \in Nat
    /\ authCancel \in Flows \cup {NoFlow}
    /\ canceled \subseteq Flows
    /\ saved \in SteamIDs
    /\ signedOut \in BOOLEAN

IInv == TypeOK /\ FlowsOK /\ ActiveIsRegistered /\ GuardPromptPending
-----------------------------------------------------------------------------
(* No account and no flow are named by values of their own.                 *)
USE AuthAssumption

(* An update of one flow preserves FlowsOK when the new record is placed.   *)
LEMMA OneFlow ==
    ASSUME FlowsOK, NEW f \in Flows, NEW r \in Flow, Placed(r),
           flow' = [flow EXCEPT ![f] = r]
    PROVE  FlowsOK'
  BY DEF FlowsOK, Placed

(* Goto moves a flow and keeps the rest of its record.                      *)
LEMMA GotoPlaces ==
    ASSUME FlowsOK, NEW f \in Flows, NEW pc \in PCs, Goto(f, pc),
           pc \in NamedPCs => flow[f].account \in Accounts,
           pc # "idle",
           flow[f].kind = "qr" /\ flow[f].epoch # 0 => pc \in QRPCs
    PROVE  FlowsOK'
<1> DEFINE r == [flow[f] EXCEPT !.pc = pc]
<1>1. flow[f] \in Flow /\ Placed(flow[f])
  BY DEF FlowsOK
<1>2. r \in Flow /\ Placed(r)
  BY <1>1 DEF Flow, Placed
<1>3. flow' = [flow EXCEPT ![f] = r]
  BY DEF Goto
<1> HIDE DEF r
<1> QED
  BY <1>2, <1>3, OneFlow
-----------------------------------------------------------------------------
(* A step keeps every flow placed: no flow loses the account it signs in,   *)
(* and none of a QR sign-in's steps leads out of the guarded sections.      *)
LEMMA FlowsStep ==
    ASSUME IInv, [Next]_vars PROVE FlowsOK'
<1>1. ASSUME NEW f \in Flows, NEW kind \in {"password", "qr"}, NEW a \in SteamIDs,
            kind = "password" => a \in Accounts, Prepare(f, kind, a) PROVE FlowsOK'
  BY <1>1 DEF IInv, FlowsOK, Placed, NamedPCs, QRPCs, Flow, PCs, Kinds,
      TypeOK, SteamIDs, Prepare
<1>2. ASSUME NEW f \in Flows, StartSteamQR(f) PROVE FlowsOK'
  <2> DEFINE r == [flow[f] EXCEPT !.pc = "begin", !.epoch = authEpoch + 1, !.client = gcClient]
  <2>1. flow[f] \in Flow /\ Placed(flow[f])
    BY DEF IInv, FlowsOK
  <2>2. r \in Flow /\ Placed(r)
    <3>1. authEpoch + 1 \in Nat /\ gcClient \in Clients
      BY DEF IInv, TypeOK
    <3>2. QED
      BY <2>1, <3>1 DEF Flow, PCs, Placed, NamedPCs, QRPCs
  <2>3. flow' = [flow EXCEPT ![f] = r]
    BY <1>2, <2>1 DEF StartSteamQR, Flow
  <2> HIDE DEF r
  <2>4. QED BY <2>2, <2>3, OneFlow DEF IInv
<1>3. ASSUME NEW f \in Flows, RestoreSteamSession(f) PROVE FlowsOK'
  BY <1>3 DEF IInv, FlowsOK, Placed, NamedPCs, QRPCs, Flow, PCs, Kinds,
      RestoreSteamSession, Goto
<1>4. ASSUME NEW f \in Flows, SubmitSteamGuard(f) PROVE FlowsOK'
  BY <1>4 DEF IInv, FlowsOK, Placed, NamedPCs, QRPCs, Flow, PCs, Kinds,
      TypeOK, SteamIDs, SubmitSteamGuard
<1>5. ASSUME NEW f \in Flows, DisconnectSteam(f) PROVE FlowsOK'
  BY <1>5 DEF IInv, FlowsOK, Placed, NamedPCs, QRPCs, Flow, PCs, Kinds,
      DisconnectSteam
<1>6. ASSUME NEW f \in Flows, Connect(f) PROVE FlowsOK'
  BY <1>6 DEF IInv, FlowsOK, Placed, NamedPCs, QRPCs, Flow, PCs, Kinds,
      Connect, Goto
<1>7. ASSUME NEW f \in Flows, LogOn(f) PROVE FlowsOK'
  <2> DEFINE me == flow[f]
  <2>1. me \in Flow /\ Placed(me) /\ me.pc = "logon"
    BY <1>7 DEF IInv, FlowsOK, LogOn
  <2>2. me.account \in Accounts
    BY <2>1 DEF Placed, NamedPCs
  <2>3. PICK pc \in {"answered", "presence", "guarded", "guard", "done", "logon",
                    "refused", "fail"} :
          /\ Goto(f, pc)
          /\ pc \in {"answered", "guarded", "guard", "refused"} => me.kind # "qr"
    <3>1. CASE me.kind = "guard"
      BY <1>7, <3>1 DEF LogOn
    <3>2. CASE me.kind = "password"
      BY <1>7, <3>2 DEF LogOn
    <3>3. CASE me.kind \notin {"guard", "password"}
      BY <1>7, <3>3 DEF LogOn
    <3>4. QED BY <3>1, <3>2, <3>3
  <2>4. QED
    BY <2>2, <2>3, GotoPlaces DEF IInv, PCs, QRPCs
<1>8. ASSUME NEW f \in Flows, SetGamesPlayed(f) PROVE FlowsOK'
  BY <1>8 DEF IInv, FlowsOK, Placed, NamedPCs, QRPCs, Flow, PCs, Kinds,
      SetGamesPlayed, Goto
<1>9. ASSUME NEW f \in Flows, QRTransport(f) PROVE FlowsOK'
  BY <1>9 DEF IInv, FlowsOK, Placed, NamedPCs, QRPCs, Flow, PCs, Kinds,
      QRTransport, Goto
<1>10. ASSUME NEW f \in Flows, ShowQR(f) PROVE FlowsOK'
  BY <1>10 DEF IInv, FlowsOK, Placed, NamedPCs, QRPCs, Flow, PCs, Kinds,
      ShowQR, Drop, Goto
<1>11. ASSUME NEW f \in Flows, ChallengeURL(f) PROVE FlowsOK'
  BY <1>11 DEF IInv, FlowsOK, Placed, NamedPCs, QRPCs, Flow, PCs, Kinds,
      ChallengeURL
<1>12. ASSUME NEW f \in Flows, CompleteQRAuth(f) PROVE FlowsOK'
  <2>1. flow[f] \in Flow /\ Placed(flow[f])
    BY DEF IInv, FlowsOK
  <2>2. ASSUME NEW pc \in {"expired", "done", "fail"}, Goto(f, pc) PROVE FlowsOK'
    BY <2>2, GotoPlaces DEF IInv, PCs, NamedPCs, QRPCs
  <2>3. ASSUME NEW a \in Accounts,
               flow' = [flow EXCEPT ![f].pc = "approved", ![f].account = a]
        PROVE  FlowsOK'
    <3> DEFINE r == [flow[f] EXCEPT !.pc = "approved", !.account = a]
    <3>1. r \in Flow /\ Placed(r)
      BY <2>1 DEF Flow, PCs, SteamIDs, Placed, NamedPCs, QRPCs
    <3>2. flow' = [flow EXCEPT ![f] = r]
      BY <2>1, <2>3 DEF Flow
    <3> HIDE DEF r
    <3>3. QED BY <3>1, <3>2, OneFlow DEF IInv
  <2>4. QED
    BY <1>12, <2>2, <2>3 DEF CompleteQRAuth
<1>13. ASSUME NEW f \in Flows, QRApproved(f) PROVE FlowsOK'
  BY <1>13 DEF IInv, FlowsOK, Placed, NamedPCs, QRPCs, Flow, PCs, Kinds,
      QRApproved, Drop, Goto
<1>14. ASSUME NEW f \in Flows, RefreshExpiredQR(f) PROVE FlowsOK'
  <2>1. CASE Drop(f)
    BY <2>1, GotoPlaces DEF IInv, Drop, PCs, NamedPCs, QRPCs
  <2>2. CASE ~Drop(f)
    <3> DEFINE r == [flow[f] EXCEPT !.pc = "renew", !.client = gcClient, !.renewed = TRUE]
    <3>1. flow[f] \in Flow /\ Placed(flow[f]) /\ flow[f].pc = "expired"
      BY <1>14 DEF IInv, FlowsOK, RefreshExpiredQR
    <3>2. r \in Flow /\ Placed(r)
      BY <3>1 DEF IInv, TypeOK, Flow, PCs, Placed, NamedPCs, QRPCs, Clients
    <3>3. flow' = [flow EXCEPT ![f] = r]
      BY <1>14, <2>2, <3>1 DEF RefreshExpiredQR, Flow
    <3> HIDE DEF r
    <3>4. QED BY <3>2, <3>3, OneFlow DEF IInv
  <2>3. QED BY <2>1, <2>2
<1>15. ASSUME NEW f \in Flows, SteamGuardRequired(f) PROVE FlowsOK'
  BY <1>15 DEF IInv, FlowsOK, Placed, NamedPCs, QRPCs, Flow, PCs, Kinds,
      SteamGuardRequired
<1>16. ASSUME NEW f \in Flows, Fail(f) PROVE FlowsOK'
  BY <1>16 DEF IInv, FlowsOK, Placed, NamedPCs, QRPCs, Flow, PCs, Kinds, Fail,
      Goto
<1>17. ASSUME NEW f \in Flows, Register(f) PROVE FlowsOK'
  BY <1>17 DEF IInv, FlowsOK, Placed, NamedPCs, QRPCs, Flow, PCs, Kinds,
      Register, Goto
<1>18. ASSUME NEW f \in Flows, PersistSteamSession(f) PROVE FlowsOK'
  BY <1>18 DEF IInv, FlowsOK, Placed, NamedPCs, QRPCs, Flow, PCs, Kinds,
      PersistSteamSession, Goto
<1>19. ASSUME NEW f \in Flows, GuardAnswered(f) PROVE FlowsOK'
  BY <1>19 DEF IInv, FlowsOK, Placed, NamedPCs, QRPCs, Flow, PCs, Kinds,
      GuardAnswered, Goto
<1>20. ASSUME NEW f \in Flows, CloseClient(f) PROVE FlowsOK'
  BY <1>20 DEF IInv, FlowsOK, Placed, NamedPCs, QRPCs, Flow, PCs, Kinds,
      CloseClient, Goto
<1>21. ASSUME NEW f \in Flows, ClearPersistedSession(f) PROVE FlowsOK'
  BY <1>21, GotoPlaces DEF IInv, ClearPersistedSession, PCs, NamedPCs, QRPCs
<1>22. ASSUME SessionConflict \/ UNCHANGED vars PROVE FlowsOK'
  BY <1>22 DEF IInv, FlowsOK, Placed, NamedPCs, QRPCs, Flow, PCs, Kinds,
      SessionConflict, vars
<1> QED
  BY <1>1, <1>2, <1>3, <1>4, <1>5, <1>6, <1>7, <1>8, <1>9, <1>10, <1>11,
      <1>12, <1>13, <1>14, <1>15, <1>16, <1>17, <1>18, <1>19, <1>20, <1>21,
      <1>22 DEF Next, Request, FlowStep, SteamIDs
(* The values a client takes, and the client a step of a flow talks to.     *)
LEMMA ClientTypes ==
    ASSUME IInv
    PROVE  /\ clients \in [Clients -> ClientRec]
           /\ Closed \in ClientRec /\ Open \in ClientRec
           /\ gcClient \in Clients
           /\ \A f \in Flows :
                 ClientOf(f) \in Clients /\ [open |-> TRUE, account |-> flow[f].account] \in ClientRec
  BY DEF IInv, TypeOK, FlowsOK, Flow, ClientRec, Closed, Open, ClientOf, SteamIDs

(* Every other variable keeps its type.                                     *)
LEMMA SharedStep ==
    ASSUME IInv, [Next]_vars PROVE SharedOK'
<1>1. ASSUME NEW f \in Flows, NEW kind, NEW a, Prepare(f, kind, a) PROVE SharedOK'
  <2>1. clients' \in [Clients -> ClientRec]
    BY <1>1, ClientTypes DEF Prepare, clientVars
  <2>2. gcClient' \in Clients
    BY <1>1, ClientTypes DEF Prepare, clientVars, Clients
  <2>3. connection' \in [state : States, steamID : SteamIDs]
    BY <1>1 DEF IInv, TypeOK, Prepare, Status, States, SteamIDs
  <2>4. signedOut' \in BOOLEAN
    BY <1>1 DEF Prepare
  <2>5. UNCHANGED <<sessionVars, pendingUsername, cancelVars, saved>>
    BY <1>1 DEF Prepare
  <2>6. QED
    BY <2>1, <2>2, <2>3, <2>4, <2>5
       DEF IInv, TypeOK, SharedOK, ClientRec, sessionVars, cancelVars
<1>2. ASSUME NEW f \in Flows,
            StartSteamQR(f)
      PROVE  SharedOK'
  BY <1>2 DEF IInv, StartSteamQR, CancelAuth, Status, States, SharedOK, TypeOK,
      SteamIDs, Clients, clientVars, sessionVars, cancelVars, transportVars,
      qrVars
<1>3. ASSUME NEW f \in Flows,
            RestoreSteamSession(f)
      PROVE  SharedOK'
  BY <1>3 DEF IInv, RestoreSteamSession, Status, States, SharedOK, TypeOK,
      SteamIDs, Clients, clientVars, sessionVars, cancelVars, transportVars,
      qrVars
<1>4. ASSUME NEW f \in Flows, SubmitSteamGuard(f) PROVE SharedOK'
  <2>1. connection' \in [state : States, steamID : SteamIDs]
    BY <1>4 DEF IInv, TypeOK, SubmitSteamGuard, Status, States, SteamIDs
  <2>2. authCancel' \in Flows \cup {NoFlow} /\ canceled' \subseteq Flows
    BY <1>4 DEF IInv, TypeOK, SubmitSteamGuard, CancelAuth, cancelVars
  <2>3. signedOut' \in BOOLEAN
    BY <1>4 DEF SubmitSteamGuard
  <2>4. UNCHANGED <<clientVars, sessionVars, pendingUsername, authEpoch, saved>>
    BY <1>4 DEF SubmitSteamGuard, cancelVars
  <2>5. QED
    BY <2>1, <2>2, <2>3, <2>4 DEF IInv, TypeOK, SharedOK, ClientRec, sessionVars, clientVars
<1>5. ASSUME NEW f \in Flows,
            DisconnectSteam(f)
      PROVE  SharedOK'
  BY <1>5 DEF IInv, DisconnectSteam, CancelAuth, Status, States,
      NoClient, SharedOK, TypeOK, SteamIDs, Clients, clientVars, sessionVars,
      cancelVars, transportVars, qrVars
<1>6. ASSUME NEW f \in Flows, Connect(f) PROVE SharedOK'
  <2>1. clients' \in [Clients -> ClientRec]
    BY <1>6, ClientTypes DEF Connect, SetClient
  <2>2. UNCHANGED transportVars
    BY <1>6 DEF Connect
  <2>3. QED
    BY <2>1, <2>2 DEF IInv, TypeOK, SharedOK, transportVars, ClientRec, sessionVars, cancelVars
<1>7. ASSUME NEW f \in Flows, LogOn(f) PROVE SharedOK'
  <2>1. clients' \in [Clients -> ClientRec]
    BY <1>7, ClientTypes DEF LogOn, SetClient
  <2>2. UNCHANGED transportVars
    BY <1>7 DEF LogOn
  <2>3. QED
    BY <2>1, <2>2 DEF IInv, TypeOK, SharedOK, transportVars, ClientRec, sessionVars, cancelVars
<1>8. ASSUME NEW f \in Flows,
            SetGamesPlayed(f)
      PROVE  SharedOK'
  BY <1>8 DEF IInv, SetGamesPlayed, SharedOK,TypeOK, SteamIDs, Clients,
      clientVars, sessionVars, cancelVars, transportVars, qrVars
<1>9. ASSUME NEW f \in Flows, QRTransport(f) PROVE SharedOK'
  <2>1. clients' \in [Clients -> ClientRec]
    BY <1>9, ClientTypes DEF QRTransport, SetClient
  <2>2. UNCHANGED transportVars
    BY <1>9 DEF QRTransport
  <2>3. QED
    BY <2>1, <2>2 DEF IInv, TypeOK, SharedOK, transportVars, ClientRec, sessionVars, cancelVars
<1>10. ASSUME NEW f \in Flows,
            ShowQR(f)
      PROVE  SharedOK'
  BY <1>10 DEF IInv, ShowQR, Drop, Status, States, SharedOK, TypeOK, SteamIDs,
      Clients, clientVars, sessionVars, cancelVars, transportVars, qrVars
<1>11. ASSUME NEW f \in Flows,
            ChallengeURL(f)
      PROVE  SharedOK'
  BY <1>11 DEF IInv, ChallengeURL, Status, States, SharedOK, TypeOK, SteamIDs,
      Clients, clientVars, sessionVars, cancelVars, transportVars, qrVars
<1>12. ASSUME NEW f \in Flows,
            CompleteQRAuth(f)
      PROVE  SharedOK'
  BY <1>12 DEF IInv, CompleteQRAuth, SharedOK,TypeOK, SteamIDs, Clients,
      clientVars, sessionVars, cancelVars, transportVars, qrVars
<1>13. ASSUME NEW f \in Flows,
            QRApproved(f)
      PROVE  SharedOK'
  BY <1>13 DEF IInv, QRApproved, Drop, Status, States, SharedOK, TypeOK,
      SteamIDs, Clients, clientVars, sessionVars, cancelVars, transportVars,
      qrVars
<1>14. ASSUME NEW f \in Flows,
            RefreshExpiredQR(f)
      PROVE  SharedOK'
  BY <1>14 DEF IInv, RefreshExpiredQR, Drop, Status, States, SharedOK, TypeOK,
      SteamIDs, Clients, clientVars, sessionVars, cancelVars, transportVars,
      qrVars
<1>15. ASSUME NEW f \in Flows,
            SteamGuardRequired(f)
      PROVE  SharedOK'
  BY <1>15 DEF IInv, SteamGuardRequired, Status, States, FlowsOK,
      Flow, SharedOK, TypeOK, SteamIDs, Clients, clientVars, sessionVars,
      cancelVars, transportVars, qrVars
<1>16. ASSUME NEW f \in Flows,
            Fail(f)
      PROVE  SharedOK'
  BY <1>16 DEF IInv, Fail, Status, States, SharedOK, TypeOK, SteamIDs, Clients,
      clientVars, sessionVars, cancelVars, transportVars, qrVars
<1>17. ASSUME NEW f \in Flows,
            Register(f)
      PROVE  SharedOK'
  BY <1>17 DEF IInv, Register, RegisterSession, States, FlowsOK, Flow, Placed,
      NamedPCs, SharedOK, TypeOK, SteamIDs, Clients, clientVars, sessionVars,
      cancelVars, transportVars, qrVars
<1>18. ASSUME NEW f \in Flows,
            PersistSteamSession(f)
      PROVE  SharedOK'
  BY <1>18 DEF IInv, PersistSteamSession, Save, FlowsOK, Flow, SharedOK, TypeOK,
      SteamIDs, Clients, clientVars, sessionVars, cancelVars, transportVars,
      qrVars
<1>19. ASSUME NEW f \in Flows,
            GuardAnswered(f)
      PROVE  SharedOK'
  BY <1>19 DEF IInv, GuardAnswered, RegisterSession, Save, Status, States,
      FlowsOK, Flow, Placed, NamedPCs, SharedOK, TypeOK, SteamIDs, Clients,
      clientVars, sessionVars, cancelVars, transportVars, qrVars
<1>20. ASSUME NEW f \in Flows,
            CloseClient(f)
      PROVE  SharedOK'
  BY <1>20 DEF IInv, CloseClient, SetClient, Closed, SharedOK, TypeOK, SteamIDs,
      Clients, clientVars, sessionVars, cancelVars, transportVars, qrVars
<1>21. ASSUME NEW f \in Flows,
            ClearPersistedSession(f)
      PROVE  SharedOK'
  BY <1>21 DEF IInv, ClearPersistedSession, SharedOK,TypeOK, SteamIDs,
      Clients, clientVars, sessionVars, cancelVars, transportVars, qrVars
<1>22. ASSUME SessionConflict \/ UNCHANGED vars PROVE SharedOK'
  BY <1>22 DEF IInv, SessionConflict, vars, Closed, Status, States, SharedOK,
      TypeOK, SteamIDs, Clients, clientVars, sessionVars, cancelVars,
      transportVars, qrVars
<1> QED
  BY <1>1, <1>2, <1>3, <1>4, <1>5, <1>6, <1>7, <1>8, <1>9, <1>10, <1>11,
      <1>12, <1>13, <1>14, <1>15, <1>16, <1>17, <1>18, <1>19, <1>20, <1>21,
      <1>22 DEF Next, Request, FlowStep

(* Only a sign-in connects, and it registers the client in use.             *)
LEMMA ActiveStep ==
    ASSUME IInv, [Next]_vars PROVE ActiveIsRegistered'
<1>1. ASSUME NEW f \in Flows, NEW kind, NEW a, Prepare(f, kind, a) PROVE ActiveIsRegistered'
  BY <1>1 DEF IInv, Prepare, TypeOK, ActiveIsRegistered, clientVars,
      sessionVars, cancelVars, transportVars, qrVars, Status
<1>2. ASSUME NEW f \in Flows,
            StartSteamQR(f) \/ RestoreSteamSession(f) \/ SubmitSteamGuard(f)
                \/ DisconnectSteam(f)
      PROVE  ActiveIsRegistered'
  BY <1>2 DEF IInv, StartSteamQR, RestoreSteamSession, SubmitSteamGuard,
      DisconnectSteam, ActiveIsRegistered, clientVars, sessionVars,
      cancelVars, transportVars, qrVars, Status
<1>3. ASSUME NEW f \in Flows,
            Connect(f) \/ LogOn(f) \/ SetGamesPlayed(f) \/ QRTransport(f)
      PROVE  ActiveIsRegistered'
  BY <1>3 DEF IInv, Connect, LogOn, SetGamesPlayed, QRTransport,
      ActiveIsRegistered, clientVars, sessionVars, cancelVars, transportVars,
      qrVars, Status
<1>4. ASSUME NEW f \in Flows,
            ShowQR(f) \/ ChallengeURL(f) \/ CompleteQRAuth(f) \/ QRApproved(f)
                \/ RefreshExpiredQR(f)
      PROVE  ActiveIsRegistered'
  BY <1>4 DEF IInv, ShowQR, ChallengeURL, CompleteQRAuth, QRApproved,
      RefreshExpiredQR, Drop, ActiveIsRegistered, clientVars, sessionVars,
      cancelVars, transportVars, qrVars, Status
<1>5. ASSUME NEW f \in Flows,
            SteamGuardRequired(f) \/ Fail(f) \/ Register(f) \/
                PersistSteamSession(f) \/ GuardAnswered(f)
      PROVE  ActiveIsRegistered'
  BY <1>5 DEF IInv, SteamGuardRequired, Fail, Register, PersistSteamSession,
      GuardAnswered, FlowsOK, Placed, NamedPCs, RegisterSession, TypeOK,
      ActiveIsRegistered, clientVars, sessionVars, cancelVars, transportVars,
      qrVars, Status
<1>6. ASSUME NEW f \in Flows,
            CloseClient(f) \/ ClearPersistedSession(f)
      PROVE  ActiveIsRegistered'
  BY <1>6 DEF IInv, CloseClient, ClearPersistedSession, ActiveIsRegistered,
      clientVars, sessionVars, cancelVars, transportVars, qrVars, Status
<1>7. ASSUME SessionConflict \/ UNCHANGED vars PROVE ActiveIsRegistered'
  BY <1>7 DEF IInv, SessionConflict, vars, TypeOK, ActiveIsRegistered,
      clientVars, sessionVars, cancelVars, transportVars, qrVars, Status
<1> QED
  BY <1>1, <1>2, <1>3, <1>4, <1>5, <1>6, <1>7 DEF Next, Request, FlowStep

(* Whatever ends a challenge ends the prompt for it.                        *)
LEMMA GuardStep ==
    ASSUME IInv, [Next]_vars PROVE GuardPromptPending'
<1>1. ASSUME NEW f \in Flows, NEW kind, NEW a, Prepare(f, kind, a) PROVE GuardPromptPending'
  BY <1>1 DEF IInv, Prepare, TypeOK, GuardPromptPending, clientVars,
      sessionVars, cancelVars, transportVars, qrVars, Status
<1>2. ASSUME NEW f \in Flows,
            StartSteamQR(f) \/ RestoreSteamSession(f) \/ SubmitSteamGuard(f)
                \/ DisconnectSteam(f)
      PROVE  GuardPromptPending'
  BY <1>2 DEF IInv, StartSteamQR, RestoreSteamSession, SubmitSteamGuard,
      DisconnectSteam, GuardPromptPending, clientVars, sessionVars,
      cancelVars, transportVars, qrVars, Status
<1>3. ASSUME NEW f \in Flows,
            Connect(f) \/ LogOn(f) \/ SetGamesPlayed(f) \/ QRTransport(f)
      PROVE  GuardPromptPending'
  BY <1>3 DEF IInv, Connect, LogOn, SetGamesPlayed, QRTransport,
      GuardPromptPending, clientVars, sessionVars, cancelVars, transportVars,
      qrVars, Status
<1>4. ASSUME NEW f \in Flows,
            ShowQR(f) \/ ChallengeURL(f) \/ CompleteQRAuth(f) \/ QRApproved(f)
                \/ RefreshExpiredQR(f)
      PROVE  GuardPromptPending'
  BY <1>4 DEF IInv, ShowQR, ChallengeURL, CompleteQRAuth, QRApproved,
      RefreshExpiredQR, Drop, GuardPromptPending, clientVars, sessionVars,
      cancelVars, transportVars, qrVars, Status
<1>5. ASSUME NEW f \in Flows,
            SteamGuardRequired(f) \/ Fail(f) \/ Register(f) \/
                PersistSteamSession(f) \/ GuardAnswered(f)
      PROVE  GuardPromptPending'
  BY <1>5 DEF IInv, SteamGuardRequired, Fail, Register, PersistSteamSession,
      GuardAnswered, FlowsOK, Placed, NamedPCs, RegisterSession,
      GuardPromptPending, clientVars, sessionVars, cancelVars, transportVars,
      qrVars, Status
<1>6. ASSUME NEW f \in Flows,
            CloseClient(f) \/ ClearPersistedSession(f)
      PROVE  GuardPromptPending'
  BY <1>6 DEF IInv, CloseClient, ClearPersistedSession, GuardPromptPending,
      clientVars, sessionVars, cancelVars, transportVars, qrVars, Status
<1>7. ASSUME SessionConflict \/ UNCHANGED vars PROVE GuardPromptPending'
  BY <1>7 DEF IInv, SessionConflict, vars, TypeOK, GuardPromptPending,
      clientVars, sessionVars, cancelVars, transportVars, qrVars, Status
<1> QED
  BY <1>1, <1>2, <1>3, <1>4, <1>5, <1>6, <1>7 DEF Next, Request, FlowStep

-----------------------------------------------------------------------------
(* A step that changes a superseded QR sign-in is one of its own, and of a  *)
(* section that asks for the epoch or leaves the connection alone.          *)
LEMMA SupersededStep ==
    ASSUME IInv, [Next]_vars, NEW g \in Flows,
           flow[g].epoch # 0, Superseded(g), flow'[g] # flow[g]
    PROVE  UNCHANGED <<connection, sessionVars, authCancel>>
<1> DEFINE Same == UNCHANGED <<connection, sessionVars, authCancel>>
<1>1. flow \in [Flows -> Flow] /\ flow[g].kind = "qr" /\ flow[g].pc \in QRPCs
  BY DEF IInv, FlowsOK, Placed, Superseded
<1>2. ASSUME NEW f \in Flows, NEW kind, NEW a, Prepare(f, kind, a) PROVE Same
  BY <1>1, <1>2 DEF Prepare, QRPCs
<1>3. ASSUME NEW f \in Flows,
            StartSteamQR(f) \/ RestoreSteamSession(f) \/ SubmitSteamGuard(f)
                \/ DisconnectSteam(f)
      PROVE  Same
  BY <1>1, <1>3 DEF StartSteamQR, RestoreSteamSession, SubmitSteamGuard,
      DisconnectSteam, QRPCs, Goto
<1>4. ASSUME NEW f \in Flows,
            Connect(f) \/ LogOn(f) \/ SetGamesPlayed(f) \/ QRTransport(f) \/
                CompleteQRAuth(f)
      PROVE  Same
  BY <1>1, <1>4 DEF Connect, LogOn, SetGamesPlayed, QRTransport,
      CompleteQRAuth, transportVars, QRPCs, Goto, cancelVars
<1>5. ASSUME NEW f \in Flows,
            ShowQR(f) \/ QRApproved(f) \/ RefreshExpiredQR(f) \/
                ChallengeURL(f)
      PROVE  Same
  BY <1>1, <1>5 DEF ShowQR, QRApproved, RefreshExpiredQR, ChallengeURL,
      Superseded, Drop, Goto, qrVars
<1>6. ASSUME NEW f \in Flows,
            Fail(f) \/ Register(f) \/ PersistSteamSession(f)
      PROVE  Same
  BY <1>1, <1>6 DEF Fail, Register, PersistSteamSession, Superseded, Goto,
      cancelVars, sessionVars
<1>7. ASSUME NEW f \in Flows,
            SteamGuardRequired(f) \/ GuardAnswered(f) \/ CloseClient(f) \/
                ClearPersistedSession(f)
      PROVE  Same
  BY <1>1, <1>7 DEF SteamGuardRequired, GuardAnswered, CloseClient,
      ClearPersistedSession, QRPCs, Goto
<1>8. ASSUME SessionConflict \/ UNCHANGED vars PROVE Same
  BY <1>8 DEF SessionConflict, vars
<1> QED
  BY <1>2, <1>3, <1>4, <1>5, <1>6, <1>7, <1>8 DEF Next, Request, FlowStep

LEMMA InitIInv == Init => IInv
<1> SUFFICES ASSUME Init PROVE IInv
  OBVIOUS
<1>1. SharedOK
  BY DEF Init, SharedOK, Status, States, SteamIDs, Clients, NoClient, Closed
<1>2. FlowsOK
  <2>1. NewFlow \in Flow /\ Placed(NewFlow)
    BY DEF NewFlow, Flow, Kinds, PCs, SteamIDs, Clients, Placed, NamedPCs
  <2>2. CASE flow = [f \in Flows |-> NewFlow]
    BY <2>1, <2>2 DEF FlowsOK
  <2>3. ASSUME saved \in Accounts, NEW r \in Flows,
               flow = [[f \in Flows |-> NewFlow] EXCEPT ![r].kind = "restore",
                          ![r].pc = "restore", ![r].account = saved]
        PROVE  FlowsOK
    <3> DEFINE s == [NewFlow EXCEPT !.kind = "restore", !.pc = "restore", !.account = saved]
    <3>1. s \in Flow /\ Placed(s)
      BY <2>3 DEF NewFlow, Flow, Kinds, PCs, SteamIDs, Clients, Placed, NamedPCs
    <3>2. flow = [f \in Flows |-> IF f = r THEN s ELSE NewFlow]
      BY <2>3
    <3> HIDE DEF s
    <3>3. QED BY <2>1, <3>1, <3>2 DEF FlowsOK
  <2>4. QED
    BY <2>2, <2>3 DEF Init, SteamIDs
<1>3. ActiveIsRegistered /\ GuardPromptPending
  BY DEF Init, Status, ActiveIsRegistered, GuardPromptPending
<1>4. QED
  BY <1>1, <1>2, <1>3 DEF IInv, TypeOK, SharedOK, FlowsOK

LEMMA StepIInv == IInv /\ [Next]_vars => IInv'
  BY FlowsStep, SharedStep, ActiveStep, GuardStep DEF IInv, TypeOK, SharedOK, FlowsOK

LEMMA Invariance == Spec => []IInv
  BY InitIInv, StepIInv, PTL DEF Spec

(* Every variable keeps its type, whatever the flows do.                    *)
THEOREM TypeCorrect == Spec => []TypeOK
<1>1. IInv => TypeOK
  BY DEF IInv
<1>2. QED
  BY <1>1, Invariance, PTL

(* The connected account is the active one and is registered with the       *)
(* client in use, however many flows sign in, fail and sign out at once.    *)
THEOREM RegistryAgrees == Spec => []ActiveIsRegistered
<1>1. IInv => ActiveIsRegistered
  BY DEF IInv
<1>2. QED
  BY <1>1, Invariance, PTL

(* The prompt for a Steam Guard code never outlives its challenge.          *)
THEOREM PromptHasChallenge == Spec => []GuardPromptPending
<1>1. IInv => GuardPromptPending
  BY DEF IInv
<1>2. QED
  BY <1>1, Invariance, PTL

(* Of any number of QR sign-ins only the newest changes the connection, the *)
(* registry or the cancel function.                                         *)
THEOREM SupersededIsSilent == Spec => SupersededQRSilent
<1> DEFINE Silent == \A f \in Flows :
                       flow[f].epoch # 0 /\ Superseded(f) /\ flow'[f] # flow[f] =>
                          UNCHANGED <<connection, sessionVars, authCancel>>
<1>1. IInv /\ [Next]_vars => [Silent]_vars
  BY SupersededStep
<1>2. QED
  BY <1>1, Invariance, PTL DEF Spec, SupersededQRSilent
-----------------------------------------------------------------------------
(* How a superseded QR sign-in ends.  Epochs are given out once, so that it *)
(* is not overtaken by its own epoch again.                                 *)
EpochsBegun == \A f \in Flows : flow[f].epoch <= authEpoch

LEMMA EpochStep ==
    ASSUME IInv, [Next]_vars
    PROVE  \/ UNCHANGED authEpoch /\ \A g \in Flows : flow'[g].epoch = flow[g].epoch
           \/ /\ authEpoch' = authEpoch + 1
              /\ \E f \in Flows :
                    /\ flow[f].pc = "qr" /\ flow'[f].epoch = authEpoch + 1
                    /\ \A g \in Flows \ {f} : flow'[g] = flow[g]
<1> DEFINE Same == UNCHANGED authEpoch /\ \A g \in Flows : flow'[g].epoch = flow[g].epoch
<1>1. flow \in [Flows -> Flow]
  BY DEF IInv, FlowsOK
<1>2. ASSUME NEW f \in Flows, NEW kind, NEW a, Prepare(f, kind, a) PROVE Same
  BY <1>1, <1>2 DEF Prepare, Flow, cancelVars
<1>3. ASSUME NEW f \in Flows, StartSteamQR(f)
      PROVE  /\ authEpoch' = authEpoch + 1
             /\ flow[f].pc = "qr" /\ flow'[f].epoch = authEpoch + 1
             /\ \A g \in Flows \ {f} : flow'[g] = flow[g]
  BY <1>1, <1>3 DEF StartSteamQR, Flow
<1>4. ASSUME NEW f \in Flows, NEW pc, Goto(f, pc), UNCHANGED authEpoch PROVE Same
  BY <1>1, <1>4 DEF Goto, Flow
<1>5. ASSUME NEW f \in Flows, SubmitSteamGuard(f) \/ DisconnectSteam(f) PROVE Same
  BY <1>1, <1>5 DEF SubmitSteamGuard, DisconnectSteam, Flow, cancelVars
<1>6. ASSUME NEW f \in Flows,
             RestoreSteamSession(f) \/ Connect(f) \/ LogOn(f) \/ SetGamesPlayed(f)
                 \/ QRTransport(f)
      PROVE  Same
  BY <1>4, <1>6 DEF RestoreSteamSession, Connect, LogOn, SetGamesPlayed, QRTransport,
      transportVars, cancelVars
<1>7. ASSUME NEW f \in Flows, ShowQR(f) \/ QRApproved(f) \/ ChallengeURL(f) PROVE Same
  BY <1>4, <1>7 DEF ShowQR, QRApproved, ChallengeURL, Drop, qrVars
<1>8. ASSUME NEW f \in Flows, CompleteQRAuth(f) PROVE Same
  <2>1. ASSUME NEW a \in Accounts,
               flow' = [flow EXCEPT ![f].pc = "approved", ![f].account = a]
        PROVE  \A g \in Flows : flow'[g].epoch = flow[g].epoch
    BY <1>1, <2>1 DEF Flow
  <2>2. UNCHANGED authEpoch
    BY <1>8 DEF CompleteQRAuth, transportVars, cancelVars
  <2>3. QED
    BY <1>4, <1>8, <2>1, <2>2 DEF CompleteQRAuth
<1>9. ASSUME NEW f \in Flows, RefreshExpiredQR(f) PROVE Same
  <2>1. CASE Drop(f)
    BY <1>4, <1>9, <2>1 DEF Drop, RefreshExpiredQR, qrVars
  <2>2. CASE ~Drop(f)
    BY <1>1, <1>9, <2>2 DEF RefreshExpiredQR, qrVars, Flow
  <2>3. QED
    BY <2>1, <2>2
<1>10. ASSUME NEW f \in Flows, SteamGuardRequired(f) PROVE Same
  BY <1>1, <1>10 DEF SteamGuardRequired, Flow
<1>11. ASSUME NEW f \in Flows,
              Fail(f) \/ Register(f) \/ PersistSteamSession(f) \/ GuardAnswered(f)
                  \/ CloseClient(f) \/ ClearPersistedSession(f)
       PROVE  Same
  BY <1>4, <1>11 DEF Fail, Register, PersistSteamSession, GuardAnswered, CloseClient,
      ClearPersistedSession, transportVars, cancelVars
<1>12. ASSUME SessionConflict \/ UNCHANGED vars PROVE Same
  BY <1>12 DEF SessionConflict, vars, cancelVars
<1> QED
  BY <1>2, <1>3, <1>5, <1>6, <1>7, <1>8, <1>9, <1>10, <1>11, <1>12
     DEF Next, Request, FlowStep

LEMMA StepEpochsBegun == ASSUME IInv, EpochsBegun, [Next]_vars PROVE EpochsBegun'
<1>1. authEpoch \in Nat /\ \A g \in Flows : flow[g].epoch \in Nat
  BY DEF IInv, TypeOK, Flow
<1>2. QED
  BY <1>1, EpochStep DEF EpochsBegun

(* The section of a superseded QR sign-in that a step executes.             *)
LEMMA WindingDown ==
    ASSUME IInv, [Next]_vars, NEW g \in Flows,
           flow[g].epoch # 0, Superseded(g), flow'[g] # flow[g]
    PROVE  /\ flow'[g].kind = "qr"
           /\ StepsLeft(flow'[g].pc) < StepsLeft(flow[g].pc)
<1> DEFINE Down == /\ flow'[g].kind = "qr"
                   /\ StepsLeft(flow'[g].pc) < StepsLeft(flow[g].pc)
<1>1. /\ flow \in [Flows -> Flow] /\ flow[g] \in Flow
      /\ flow[g].kind = "qr" /\ flow[g].pc \in QRPCs
  BY DEF IInv, FlowsOK, Placed, Superseded
<1>2. ASSUME NEW f \in Flows, NEW kind, NEW a, Prepare(f, kind, a) PROVE Down
  BY <1>1, <1>2 DEF Prepare, QRPCs
<1>3. ASSUME NEW f \in Flows,
             StartSteamQR(f) \/ RestoreSteamSession(f) \/ SubmitSteamGuard(f)
                 \/ DisconnectSteam(f) \/ Connect(f) \/ SteamGuardRequired(f)
                 \/ GuardAnswered(f) \/ CloseClient(f) \/ ClearPersistedSession(f)
      PROVE  Down
  BY <1>1, <1>3 DEF StartSteamQR, RestoreSteamSession, SubmitSteamGuard, DisconnectSteam,
      Connect, SteamGuardRequired, GuardAnswered, CloseClient, ClearPersistedSession,
      QRPCs, Goto
<1>4. ASSUME NEW f \in Flows, NEW pc, Goto(f, pc)
      PROVE  f = g /\ flow'[g].pc = pc /\ flow'[g].kind = "qr"
  BY <1>1, <1>4 DEF Goto, Flow
<1>5. ASSUME NEW f \in Flows, LogOn(f) PROVE Down
  <2>1. f = g
    BY <1>4, <1>5 DEF LogOn
  <2>2. flow[g].pc = "logon" /\ (Goto(g, "presence") \/ Goto(g, "fail"))
    BY <1>1, <1>5, <2>1 DEF LogOn
  <2>3. QED
    BY <1>4, <2>2 DEF StepsLeft
<1>6. ASSUME NEW f \in Flows,
             SetGamesPlayed(f) \/ QRTransport(f) \/ ShowQR(f) \/ QRApproved(f)
      PROVE  Down
  <2>1. f = g
    BY <1>4, <1>6 DEF SetGamesPlayed, QRTransport, ShowQR, QRApproved, Drop
  <2>2. \/ flow[g].pc = "presence" /\ (Goto(g, "register") \/ Goto(g, "fail"))
        \/ flow[g].pc = "reset" /\ (Goto(g, "logon") \/ Goto(g, "fail"))
        \/ flow[g].pc \in {"begin", "renew"} /\ (Goto(g, "show") \/ Goto(g, "fail"))
        \/ flow[g].pc \in {"show", "approved"} /\ Goto(g, "done")
    BY <1>6, <2>1 DEF SetGamesPlayed, QRTransport, ShowQR, QRApproved, Drop
  <2>3. QED
    BY <1>4, <2>2 DEF StepsLeft
<1>7. ASSUME NEW f \in Flows, CompleteQRAuth(f) PROVE Down
  <2>1. ASSUME NEW a \in Accounts,
               flow' = [flow EXCEPT ![f].pc = "approved", ![f].account = a]
        PROVE  f = g /\ flow'[g].pc = "approved" /\ flow'[g].kind = "qr"
    BY <1>1, <2>1 DEF Flow
  <2>2. f = g /\ flow[g].pc = "poll"
    BY <1>4, <1>7, <2>1 DEF CompleteQRAuth
  <2>3. flow'[g].kind = "qr" /\ flow'[g].pc \in {"approved", "expired", "done", "fail"}
    BY <1>4, <1>7, <2>1, <2>2 DEF CompleteQRAuth
  <2>4. QED
    BY <2>2, <2>3 DEF StepsLeft
<1>8. ASSUME NEW f \in Flows, RefreshExpiredQR(f) PROVE Down
  <2>1. f = g
    BY <1>1, <1>8 DEF RefreshExpiredQR, Drop, Goto
  <2>2. flow[g].pc = "expired" /\ Goto(g, "done")
    BY <1>8, <2>1 DEF RefreshExpiredQR, Drop
  <2>3. QED
    BY <1>4, <2>2 DEF StepsLeft
<1>9. ASSUME NEW f \in Flows, Fail(f) \/ Register(f) \/ PersistSteamSession(f)
      PROVE  Down
  <2>1. f = g
    BY <1>4, <1>9 DEF Fail, Register, PersistSteamSession
  <2>2. flow[g].pc \in {"fail", "register", "save"} /\ Goto(g, "done")
    BY <1>9, <2>1 DEF Fail, Register, PersistSteamSession
  <2>3. QED
    BY <1>4, <2>2 DEF StepsLeft
<1>10. ASSUME SessionConflict \/ UNCHANGED vars \/ \E f \in Flows : ChallengeURL(f)
       PROVE  Down
  BY <1>10 DEF SessionConflict, ChallengeURL, vars
<1> QED
  BY <1>2, <1>3, <1>5, <1>6, <1>7, <1>8, <1>9, <1>10 DEF Next, Request, FlowStep

(* A superseded QR sign-in stays superseded and has a bounded number of     *)
(* steps left, whatever other flows do in between: that it ends follows     *)
(* from being scheduled alone (SupersededQREnds).                           *)
THEOREM SupersededWindsDown == Spec => SupersededQRWindsDown
<1> DEFINE Down ==
      \A f \in Flows :
         flow[f].epoch # 0 /\ Superseded(f) =>
            /\ flow'[f].epoch # 0 /\ Superseded(f)'
            /\ flow'[f] # flow[f] => StepsLeft(flow'[f].pc) < StepsLeft(flow[f].pc)
<1>1. Init => EpochsBegun
  BY DEF Init, EpochsBegun, NewFlow
<1>2. IInv /\ EpochsBegun /\ [Next]_vars => EpochsBegun'
  BY StepEpochsBegun
<1>3. ASSUME IInv, EpochsBegun, [Next]_vars PROVE Down
  <2> SUFFICES ASSUME NEW f \in Flows, flow[f].epoch # 0, Superseded(f)
               PROVE  /\ flow'[f].epoch # 0 /\ Superseded(f)'
                      /\ flow'[f] # flow[f] =>
                            StepsLeft(flow'[f].pc) < StepsLeft(flow[f].pc)
    OBVIOUS
  <2>1. /\ authEpoch \in Nat /\ flow[f].epoch \in Nat /\ flow[f].epoch < authEpoch
        /\ flow[f].kind = "qr" /\ flow[f].pc # "qr"
    <3>1. authEpoch \in Nat /\ flow[f].epoch \in Nat
      BY <1>3 DEF IInv, TypeOK, Flow
    <3>2. /\ flow[f].epoch <= authEpoch /\ flow[f].epoch # authEpoch
          /\ flow[f].kind = "qr"
      BY <1>3 DEF EpochsBegun, Superseded
    <3>3. flow[f].pc \in QRPCs
      BY <1>3, <3>2 DEF IInv, FlowsOK, Placed
    <3>4. QED
      BY <3>1, <3>2, <3>3 DEF QRPCs
  <2>2. flow'[f].epoch = flow[f].epoch /\ authEpoch' \in {authEpoch, authEpoch + 1}
    BY <1>3, <2>1, EpochStep
  <2>3. flow'[f].kind = "qr"
    BY <1>3, <2>1, WindingDown
  <2>4. QED
    BY <1>3, <2>1, <2>2, <2>3, WindingDown DEF Superseded
<1>4. QED
  BY <1>1, <1>2, <1>3, Invariance, PTL DEF Spec, SupersededQRWindsDown
=============================================================================
