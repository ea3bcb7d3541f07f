-------------------------- MODULE PurchasesProofs --------------------------
(***************************************************************************)
(* Proofs about Purchases, for any accounts, purchase sessions and number  *)
(* of concurrent calls: type correctness, that no purchase is left         *)
(* initializing or finalizing, and that a success needs an authorized      *)
(* order of that game.                                                     *)
(***************************************************************************)
EXTENDS Purchases, SequenceTheorems, TLAPS

Connected == steamConnected => connection.steamID \in Accounts

(* A call in flight is about a session, and only one that read an accepted  *)
(* answer refreshes the inventory.                                          *)
Asked ==
    \A c \in Reconcilers :
        /\ call[c].pc # "idle" => call[c].id \in Sessions
        /\ call[c].pc = "refreshing" => \E q \in authorized : SameGame(call[c].id, q)

(* An accepting answer is about an authorized order, in whatever channel it *)
(* waits.                                                                   *)
Answers(channel) == \A i \in 1..Len(channel) : channel[i].ok => channel[i].id \in authorized

Answered == /\ \A o \in Clients : Answers(responses[o])
            /\ \A c \in Reconcilers : Answers(call[c].former)

(* An execution that waits for a client or an answer knows which client.    *)
Asks(execution) == execution.pc \in {"queued", "requesting"} => execution.client \in Clients

ClientsKnown == /\ \A p \in Sessions : Asks(placing[p])
                /\ \A c \in Reconcilers : Asks(call[c])

IInv == /\ TypeOK
        /\ Connected
        /\ Asked
        /\ Answered
        /\ ClientsKnown
        /\ NoStrandedPurchase
        /\ CompletedNeedsAcceptance
-----------------------------------------------------------------------------
LEMMA RecordTypes ==
    /\ Absent \in Session /\ NotPlaced \in Placing /\ Placed \in Placing
    /\ NoCall \in Call /\ NoCall.pc = "idle" /\ NoCall.id = NoSession
    /\ NoCall.former = <<>> /\ Absent.status = "none" /\ Absent.order = NoAccount
    /\ NotPlaced.pc = "new" /\ Placed.pc = "done"
  BY DEF Absent, Session, Statuses, NotPlaced, Placed, Placing, NoCall, Call, SteamIDs,
         Clients, NoClient

LEMMA EmptyChannel == <<>> \in Seq(Response) /\ Answers(<<>>)
  BY DEF Answers

LEMMA InitIInv == Init => IInv
<1> SUFFICES ASSUME Init PROVE IInv
  OBVIOUS
<1>1. TypeOK /\ Connected
  BY RecordTypes, EmptyChannel, SessionAssumption
     DEF Init, AccountInit, TypeOK, AccountTypeOK, States, SteamIDs, NoContext, Connected,
         steamConnected, Clients
<1>2. Asked /\ Answered /\ ClientsKnown
  BY RecordTypes, EmptyChannel DEF Init, Asked, Answered, ClientsKnown, Asks
<1>3. NoStrandedPurchase /\ CompletedNeedsAcceptance
  BY RecordTypes DEF Init, NoStrandedPurchase, CompletedNeedsAcceptance
<1>4. QED
  BY <1>1, <1>2, <1>3 DEF IInv

(* What an account change does to the account, and what it may do to the    *)
(* calls: it closes the connection under them and moves their channel.      *)
LEMMA AccountPart == ASSUME IInv, AccountChange PROVE AccountTypeOK' /\ Connected'
<1>1. CASE ReplaceClient
  BY <1>1 DEF ReplaceClient, IInv, TypeOK, AccountTypeOK, Connected, steamConnected,
              PrepareAdditionalSession, epochVars, States, SteamIDs
<1>2. CASE SignOut
  BY <1>2, AccountAssumption
     DEF SignOut, IInv, TypeOK, AccountTypeOK, Connected, steamConnected, DisconnectSteam,
         invalidateAccountSession, CancelContext, NoContext, States, SteamIDs
<1>3. CASE LoginFails
  BY <1>3 DEF IInv, TypeOK, AccountTypeOK, Connected, steamConnected, LoginFails,
              epochVars, States, SteamIDs
<1>4. ASSUME NEW a \in Accounts, LogOn(a) \/ OverlappingLogOn(a)
      PROVE  AccountTypeOK' /\ Connected'
  BY <1>4 DEF IInv, TypeOK, AccountTypeOK, Connected, steamConnected, LogOn,
              OverlappingLogOn, epochVars, SteamIDs
<1>5. CASE ActivateAccount
  BY <1>5, AccountAssumption
     DEF ActivateAccount, IInv, TypeOK, AccountTypeOK, Connected, steamConnected, Activate,
         activateAccountSession, CancelContext, NoContext, States, SteamIDs
<1>6. QED
  BY <1>1, <1>2, <1>3, <1>4, <1>5 DEF AccountChange

Carries(old, new) ==
    /\ new.pc = old.pc /\ new.id = old.id /\ new.client = old.client
    /\ new.former = old.former \/ new.former = responses[client]

CallsGoOn ==
    /\ call' \in [Reconcilers -> Call]
    /\ \A c \in Reconcilers : Carries(call[c], call'[c])
    /\ responses' \in [Clients -> Seq(Response)]
    /\ \A o \in Clients : responses'[o] = responses[o] \/ responses'[o] = <<>>

LEMMA CallsUntouched == ASSUME IInv, UNCHANGED <<call, responses>> PROVE CallsGoOn
  BY DEF IInv, TypeOK, CallsGoOn, Carries

LEMMA CallsClosed == ASSUME IInv, CloseConnection PROVE CallsGoOn
<1>1. /\ call \in [Reconcilers -> Call] /\ responses \in [Clients -> Seq(Response)]
      /\ responses[client] \in Seq(Response)
  BY DEF IInv, TypeOK
<1>2. ASSUME NEW c \in Reconcilers
      PROVE  call'[c] \in Call /\ Carries(call[c], call'[c])
  <2> DEFINE new == [call[c] EXCEPT !.open = FALSE, !.former = responses[client]]
  <2>1. call[c] \in Call
    BY <1>1
  <2>2. new \in Call /\ Carries(call[c], new)
    BY <1>1, <2>1 DEF Call, Carries
  <2>3. call'[c] = new \/ call'[c] = call[c]
    BY DEF CloseConnection
  <2> HIDE DEF new
  <2>4. QED
    BY <2>1, <2>2, <2>3 DEF Carries
<1>3. call' \in [Reconcilers -> Call]
  BY <1>2 DEF CloseConnection
<1>4. /\ responses' \in [Clients -> Seq(Response)]
      /\ \A o \in Clients : responses'[o] = responses[o] \/ responses'[o] = <<>>
  BY <1>1, EmptyChannel DEF CloseConnection
<1>5. QED
  BY <1>2, <1>3, <1>4 DEF CallsGoOn

LEMMA CallsPart == ASSUME IInv, AccountChange PROVE CallsGoOn
<1>1. CASE ReplaceClient
  BY <1>1, CallsUntouched, CallsClosed DEF ReplaceClient
<1>2. CASE SignOut
  BY <1>2, CallsClosed DEF SignOut
<1>3. CASE UNCHANGED <<call, responses>>
  BY <1>3, CallsUntouched
<1>4. QED
  BY <1>1, <1>2, <1>3 DEF AccountChange, ActivateAccount

LEMMA AccountChangeStep == ASSUME IInv, AccountChange PROVE IInv'
<1>1. AccountTypeOK' /\ Connected'
  BY AccountPart
<1>2. CallsGoOn
  BY CallsPart
<1>3. /\ purchaseSessions' \in [Sessions -> Session]
      /\ \A p \in Sessions : \/ purchaseSessions'[p] = purchaseSessions[p]
                             \/ purchaseSessions'[p] = Absent
      /\ UNCHANGED <<authorized, placing>>
  BY RecordTypes
     DEF AccountChange, ReplaceClient, SignOut, ActivateAccount, IInv, TypeOK
<1>4. client' \in Clients /\ accountOf' \in [Clients -> SteamIDs]
  <2>1. CASE ReplaceClient
    BY <2>1, SessionAssumption
       DEF ReplaceClient, IInv, TypeOK, AccountTypeOK, Clients, SteamIDs
  <2>2. CASE UNCHANGED clientVars
    BY <2>2 DEF clientVars, IInv, TypeOK, Clients
  <2>3. QED
    BY <2>1, <2>2 DEF AccountChange, SignOut, ActivateAccount
<1>5. TypeOK'
  BY <1>1, <1>2, <1>3, <1>4 DEF IInv, TypeOK, CallsGoOn
<1>6. Answered'
  <2>1. ASSUME NEW o \in Clients PROVE Answers(responses[o])'
    <3>1. CASE responses'[o] = responses[o]
      BY <1>3, <3>1 DEF IInv, Answered, Answers
    <3>2. CASE responses'[o] = <<>>
      BY <3>2 DEF Answers
    <3>3. QED
      BY <1>2, <3>1, <3>2 DEF CallsGoOn
  <2>2. ASSUME NEW c \in Reconcilers PROVE Answers(call[c].former)'
    <3>1. Answers(responses[client]) /\ Answers(call[c].former)
      BY DEF IInv, TypeOK, Answered
    <3>2. call'[c].former = call[c].former \/ call'[c].former = responses[client]
      BY <1>2 DEF CallsGoOn, Carries
    <3>3. QED
      BY <1>3, <3>1, <3>2 DEF Answers
  <2>3. QED
    BY <2>1, <2>2 DEF Answered, Clients
<1>7. Asked' /\ ClientsKnown'
  BY <1>2, <1>3 DEF IInv, Asked, ClientsKnown, Asks, SameGame, CallsGoOn, Carries, Clients
<1>8. NoStrandedPurchase'
  <2>1. ASSUME NEW p \in Sessions, purchaseSessions'[p].status \in {"initializing", "finalizing"}
        PROVE  purchaseSessions'[p] = purchaseSessions[p]
    BY <1>3, <2>1, RecordTypes
  <2>2. \A c \in Reconcilers : call'[c].pc = call[c].pc /\ call'[c].id = call[c].id
    BY <1>2 DEF CallsGoOn, Carries
  <2>3. QED
    BY <1>3, <2>1, <2>2 DEF IInv, NoStrandedPurchase
<1>9. CompletedNeedsAcceptance'
  <2>1. ASSUME NEW p \in Sessions, purchaseSessions'[p].status = "completed"
        PROVE  purchaseSessions'[p] = purchaseSessions[p]
    BY <1>3, <2>1, RecordTypes
  <2>2. QED
    BY <1>3, <2>1 DEF IInv, CompletedNeedsAcceptance, SameGame
<1>10. QED
  BY <1>1, <1>5, <1>6, <1>7, <1>8, <1>9 DEF IInv
-----------------------------------------------------------------------------
(* A session that moves on, to a status and order of its own, while the     *)
(* execution that initializes it does.                                      *)
LEMMA PlacingMoves ==
    ASSUME IInv, NEW p \in Sessions, NEW new \in Placing,
           NEW s \in Session, Asks(new),
           placing' = [placing EXCEPT ![p] = new],
           purchaseSessions' = [purchaseSessions EXCEPT ![p] = s],
           s.status = "initializing" => new.pc \in {"ready", "queued", "requesting"},
           s.status \notin {"finalizing", "completed"} \/ s = purchaseSessions[p],
           UNCHANGED <<serviceVars, call, authorized, responses>>
    PROVE  IInv'
<1>1. TypeOK' /\ Connected' /\ Asked'
  BY DEF IInv, TypeOK, AccountTypeOK, Connected, steamConnected, Asked, accountVars,
         clientVars, serviceVars, Clients
<1>2. Answered' /\ ClientsKnown'
  BY DEF IInv, TypeOK, Answered, Answers, ClientsKnown, Asks, Clients
<1>3. NoStrandedPurchase' /\ CompletedNeedsAcceptance'
  BY DEF IInv, TypeOK, NoStrandedPurchase, CompletedNeedsAcceptance
<1>4. QED
  BY <1>1, <1>2, <1>3 DEF IInv

(* The same for an execution that leaves the session as it is.              *)
LEMMA PlacingGoesOn ==
    ASSUME IInv, NEW p \in Sessions, NEW new \in Placing, Asks(new),
           placing' = [placing EXCEPT ![p] = new],
           new.pc \in {"queued", "requesting"} \/ purchaseSessions[p].status # "initializing",
           UNCHANGED <<serviceVars, purchaseSessions, call, authorized, responses>>
    PROVE  IInv'
<1>1. /\ purchaseSessions[p] \in Session
      /\ purchaseSessions' = [purchaseSessions EXCEPT ![p] = purchaseSessions[p]]
  BY DEF IInv, TypeOK
<1>2. QED
  BY <1>1, PlacingMoves

LEMMA PlacingEnded ==
    ASSUME IInv, NEW p \in Sessions, NEW status \in {"awaiting_user", "failed"},
           NEW order \in SteamIDs, PlacingEnds(p, status, order)
    PROVE  IInv'
<1> DEFINE s == [status |-> status, order |-> order]
<1>1. s \in Session /\ s.status = status
  BY DEF Session, Statuses
<1>2. Asks(Placed)
  BY RecordTypes DEF Asks
<1>3. /\ placing' = [placing EXCEPT ![p] = Placed]
      /\ purchaseSessions' = [purchaseSessions EXCEPT ![p] = s]
      /\ UNCHANGED <<serviceVars, call, authorized, responses>>
  BY DEF PlacingEnds
<1> HIDE DEF s
<1>4. QED
  BY <1>1, <1>2, <1>3, RecordTypes, PlacingMoves

LEMMA PlacingStepKeeps ==
    ASSUME IInv, NEW p \in Sessions, InitializeStart(p) \/ PlacingStep(p) PROVE IInv'
<1> DEFINE At(pc) == [placing[p] EXCEPT !.pc = pc]
           Init1  == [purchaseSessions[p] EXCEPT !.status = "initializing"]
<1>1. /\ placing[p] \in Placing /\ purchaseSessions[p] \in Session
      /\ placing \in [Sessions -> Placing] /\ purchaseSessions \in [Sessions -> Session]
      /\ gcClient \in SteamIDs /\ client \in Clients
      /\ accountOf \in [Clients -> SteamIDs] /\ placing[p].account \in SteamIDs
  BY DEF IInv, TypeOK, AccountTypeOK, Placing
<1>2. /\ \A pc \in {"loadingStore", "ready"} :
           At(pc) \in Placing /\ At(pc).pc = pc /\ Asks(At(pc))
      /\ Init1 \in Session /\ Init1.status = "initializing"
  BY <1>1 DEF Placing, Session, Statuses, Asks
<1>3. CASE InitializeStart(p)
  <2>1. CASE placing' = [placing EXCEPT ![p].pc = "loadingStore"]
             /\ UNCHANGED purchaseSessions
    <3>1. purchaseSessions[p].status # "initializing"
      BY <1>3 DEF InitializeStart, IInv, NoStrandedPurchase
    <3>2. placing' = [placing EXCEPT ![p] = At("loadingStore")]
      BY <1>1, <2>1 DEF Placing
    <3>3. UNCHANGED <<serviceVars, purchaseSessions, call, authorized, responses>>
      BY <1>3, <2>1 DEF InitializeStart
    <3>4. At("loadingStore") \in Placing /\ Asks(At("loadingStore"))
      BY <1>2
    <3> HIDE DEF At
    <3>5. QED
      BY <3>1, <3>2, <3>3, <3>4, PlacingGoesOn
  <2>2. CASE placing' = [placing EXCEPT ![p].pc = "ready"]
             /\ SetStatus(p, "initializing")
    BY <1>1, <1>2, <1>3, <2>2, PlacingMoves DEF InitializeStart, SetStatus
  <2>3. QED
    BY <1>3, <2>1, <2>2 DEF InitializeStart
<1>4. CASE StoreLoaded(p)
  BY <1>1, <1>2, <1>4, PlacingMoves DEF StoreLoaded, SetStatus
<1>5. CASE CouponCheckout(p)
  BY <1>5, PlacingEnded DEF CouponCheckout, SteamIDs
<1>6. CASE ReadInitClient(p)
  <2> DEFINE new == [placing[p] EXCEPT !.pc = "queued", !.client = client]
  <2>1. new \in Placing /\ new.pc = "queued" /\ Asks(new)
    BY <1>1 DEF Placing, Asks
  <2>2. placing' = [placing EXCEPT ![p] = new]
    BY <1>1, <1>6 DEF ReadInitClient, Placing
  <2> HIDE DEF new
  <2>3. QED
    BY <1>6, <2>1, <2>2, PlacingGoesOn DEF ReadInitClient
<1>7. CASE SendInit(p)
  <2> DEFINE o   == placing[p].client
             new == [placing[p] EXCEPT !.pc = "requesting", !.account = AccountOf(o)]
  <2>1. o \in Clients
    BY <1>7 DEF SendInit, IInv, ClientsKnown, Asks
  <2>2. AccountOf(o) \in SteamIDs
    BY <1>1, <2>1 DEF AccountOf
  <2>3. new \in Placing /\ new.pc = "requesting" /\ Asks(new)
    BY <1>1, <2>1, <2>2 DEF Placing, Asks
  <2>4. placing' = [placing EXCEPT ![p] = new]
    BY <1>1, <1>7 DEF SendInit, Placing
  <2> HIDE DEF new
  <2>5. QED
    BY <1>7, <2>3, <2>4, PlacingGoesOn DEF SendInit
<1>8. CASE InitFails(p)
  BY <1>8, PlacingEnded DEF InitFails, SteamIDs
<1>9. CASE OrderPlaced(p)
  BY <1>1, <1>9, PlacingEnded DEF OrderPlaced
<1>10. QED
  BY <1>3, <1>4, <1>5, <1>6, <1>7, <1>8, <1>9 DEF PlacingStep

LEMMA AuthorizeStep == ASSUME IInv, NEW p \in Sessions, Authorize(p) PROVE IInv'
<1>1. TypeOK' /\ Connected' /\ ClientsKnown' /\ NoStrandedPurchase'
  BY DEF Authorize, IInv, TypeOK, AccountTypeOK, Connected, steamConnected, ClientsKnown, Asks,
         NoStrandedPurchase, accountVars, clientVars, serviceVars, Clients
<1>2. Asked' /\ Answered' /\ CompletedNeedsAcceptance'
  BY DEF Authorize, IInv, Asked, Answered, Answers, SameGame, CompletedNeedsAcceptance, Clients
<1>3. QED
  BY <1>1, <1>2 DEF IInv
-----------------------------------------------------------------------------
(* A call that ends with a status other than "finalizing".                  *)
LEMMA CallEnds ==
    ASSUME IInv, NEW c \in Reconcilers, call[c].pc # "idle",
           NEW status \in {"awaiting_user", "failed", "completed"},
           SetStatus(call[c].id, status),
           status = "completed" => \E q \in authorized : SameGame(call[c].id, q),
           call' = [call EXCEPT ![c] = NoCall],
           responses' \in [Clients -> Seq(Response)],
           \A o \in Clients : Answers(responses[o])',
           UNCHANGED <<serviceVars, placing, authorized>>
    PROVE  IInv'
<1>1. /\ call[c].id \in Sessions /\ purchaseSessions[call[c].id] \in Session
      /\ call' \in [Reconcilers -> Call] /\ call'[c] = NoCall
      /\ \A d \in Reconcilers : d # c => call'[d] = call[d]
      /\ call'[c].pc = "idle"
  BY RecordTypes DEF IInv, TypeOK, Asked
<1>2. /\ purchaseSessions' \in [Sessions -> Session]
      /\ purchaseSessions'[call[c].id].status = status
      /\ \A p \in Sessions \ {call[c].id} : purchaseSessions'[p] = purchaseSessions[p]
  BY <1>1 DEF IInv, TypeOK, SetStatus, Session, Statuses
<1>3. TypeOK' /\ Connected'
  BY <1>1, <1>2 DEF IInv, TypeOK, AccountTypeOK, Connected, steamConnected, accountVars,
       clientVars, serviceVars, Clients
<1>4. Asked' /\ ClientsKnown'
  BY <1>1 DEF IInv, Asked, ClientsKnown, Asks, Clients
<1>5. Answered'
  <2>1. ASSUME NEW d \in Reconcilers PROVE Answers(call[d].former)'
    BY <1>1, RecordTypes, EmptyChannel DEF IInv, Answered, Answers
  <2>2. QED
    BY <2>1 DEF Answered, Clients
<1>6. NoStrandedPurchase'
  BY <1>1, <1>2 DEF IInv, NoStrandedPurchase
<1>7. CompletedNeedsAcceptance'
  BY <1>1, <1>2 DEF IInv, CompletedNeedsAcceptance
<1>8. QED
  BY <1>3, <1>4, <1>5, <1>6, <1>7 DEF IInv

(* A call that goes on leaves its session alone.                            *)
LEMMA CallGoesOn ==
    ASSUME IInv, NEW c \in Reconcilers, NEW new \in Call,
           new.pc # "idle", new.id = call[c].id, call[c].pc # "idle", Asks(new),
           new.former = call[c].former \/ new.former = <<>>,
           new.pc = "refreshing" => \E q \in authorized : SameGame(call[c].id, q),
           call' = [call EXCEPT ![c] = new],
           responses' \in [Clients -> Seq(Response)],
           \A o \in Clients : Answers(responses[o])',
           UNCHANGED <<serviceVars, purchaseSessions, placing, authorized>>
    PROVE  IInv'
<1>1. /\ call' \in [Reconcilers -> Call] /\ call'[c] = new
      /\ \A d \in Reconcilers : d # c => call'[d] = call[d]
  BY DEF IInv, TypeOK
<1>2. TypeOK' /\ Connected'
  BY <1>1 DEF IInv, TypeOK, AccountTypeOK, Connected, steamConnected, accountVars, clientVars,
       serviceVars, Clients
<1>3. Asked' /\ ClientsKnown'
  BY <1>1 DEF IInv, Asked, ClientsKnown, Asks, Clients
<1>4. Answered'
  <2>1. ASSUME NEW d \in Reconcilers PROVE Answers(call[d].former)'
    BY <1>1, EmptyChannel DEF IInv, Answered, Answers
  <2>2. QED
    BY <2>1 DEF Answered, Clients
<1>5. NoStrandedPurchase' /\ CompletedNeedsAcceptance'
  BY <1>1 DEF IInv, NoStrandedPurchase, CompletedNeedsAcceptance
<1>6. QED
  BY <1>2, <1>3, <1>4, <1>5 DEF IInv

LEMMA ReconcileStartStep ==
    ASSUME IInv, NEW c \in Reconcilers, NEW p \in Sessions, ReconcileStart(c, p) PROVE IInv'
<1> DEFINE new == [NoCall EXCEPT !.pc = "waiting", !.id = p,
                                  !.order = purchaseSessions[p].order]
<1>1. new \in Call /\ new.pc = "waiting" /\ new.id = p /\ new.former = <<>>
  BY RecordTypes DEF IInv, TypeOK, Session, NoCall, Call
<1>2. /\ call' \in [Reconcilers -> Call] /\ call'[c] = new /\ call[c].pc = "idle"
      /\ \A d \in Reconcilers : d # c => call'[d] = call[d]
  BY <1>1 DEF ReconcileStart, IInv, TypeOK
<1>3. /\ purchaseSessions' \in [Sessions -> Session]
      /\ purchaseSessions'[p].status = "finalizing"
      /\ \A q \in Sessions \ {p} : purchaseSessions'[q] = purchaseSessions[q]
      /\ UNCHANGED <<serviceVars, placing, authorized, responses>>
  BY DEF ReconcileStart, SetStatus, IInv, TypeOK, Session, Statuses
<1> HIDE DEF new
<1>4. TypeOK' /\ Connected' /\ Asked' /\ ClientsKnown'
  BY <1>1, <1>2, <1>3
     DEF IInv, TypeOK, AccountTypeOK, Connected, steamConnected, Asked, ClientsKnown, Asks,
         accountVars, clientVars, serviceVars, Clients
<1>5. Answered'
  <2>1. ASSUME NEW d \in Reconcilers PROVE Answers(call[d].former)'
    BY <1>1, <1>2, <1>3, EmptyChannel DEF IInv, Answered, Answers
  <2>2. QED
    BY <1>3, <2>1 DEF IInv, Answered, Answers, Clients
<1>6. NoStrandedPurchase' /\ CompletedNeedsAcceptance'
  BY <1>1, <1>2, <1>3 DEF IInv, NoStrandedPurchase, CompletedNeedsAcceptance
<1>7. QED
  BY <1>4, <1>5, <1>6 DEF IInv

(* What reading an answer leaves in the channels, and what it says.         *)
LEMMA ReadAnswerStep ==
    ASSUME IInv, NEW c \in Reconcilers, NEW ok \in BOOLEAN, ReadAnswer(c, ok),
           UNCHANGED authorized
    PROVE  /\ call[c].pc = "requesting"
           /\ responses' \in [Clients -> Seq(Response)]
           /\ \A o \in Clients : Answers(responses[o])'
           /\ ok => \E q \in authorized : SameGame(call[c].id, q)
<1> DEFINE o == call[c].client
<1>1. call[c].pc = "requesting" /\ o \in Clients
  BY DEF ReadAnswer, IInv, ClientsKnown, Asks
<1> PICK former \in {FALSE, ~call[c].open} :
       LET channel == IF former THEN call[c].former ELSE responses[call[c].client]
       IN \E i \in 1..Len(channel) :
            /\ SameGame(channel[i].id, call[c].id)
            /\ \A j \in 1..(i - 1) : ~SameGame(channel[j].id, call[c].id)
            /\ channel[i].ok = ok
            /\ responses' = IF former THEN responses
                 ELSE [responses EXCEPT ![call[c].client] =
                         SubSeq(channel, i + 1, Len(channel))]
  BY DEF ReadAnswer
<1> DEFINE channel == IF former THEN call[c].former ELSE responses[call[c].client]
<1>2. channel \in Seq(Response) /\ Answers(channel) /\ responses \in [Clients -> Seq(Response)]
  BY <1>1 DEF IInv, TypeOK, Call, Answered
<1> HIDE DEF channel
<1>3. PICK i \in 1..Len(channel) :
         /\ SameGame(channel[i].id, call[c].id)
         /\ channel[i].ok = ok
         /\ \/ responses' = [responses EXCEPT ![o] = SubSeq(channel, i + 1, Len(channel))]
            \/ responses' = responses
  BY DEF channel
<1> DEFINE rest == SubSeq(channel, i + 1, Len(channel))
<1>4. rest \in Seq(Response) /\ Answers(rest)
  <2>1. Len(channel) \in Nat /\ i \in 1..Len(channel)
    BY <1>2
  <2>2. \A j \in (i + 1)..Len(channel) : channel[j] \in Response
    BY <1>2, <2>1
  <2>3. /\ rest \in Seq(Response)
        /\ Len(rest) = IF i + 1 <= Len(channel) THEN Len(channel) - (i + 1) + 1 ELSE 0
        /\ \A j \in 1..(Len(channel) - (i + 1) + 1) : rest[j] = channel[i + 1 + j - 1]
    BY <2>1, <2>2, SubSeqProperties
  <2> HIDE DEF rest
  <2>4. ASSUME NEW j \in 1..Len(rest), rest[j].ok PROVE rest[j].id \in authorized
    <3>1. i + j \in 1..Len(channel) /\ rest[j] = channel[i + j]
      BY <2>1, <2>3
    <3>2. QED
      BY <1>2, <2>4, <3>1 DEF Answers
  <2>5. QED
    BY <2>3, <2>4 DEF Answers
<1> HIDE DEF rest
<1>5. responses' \in [Clients -> Seq(Response)]
  BY <1>1, <1>2, <1>3, <1>4 DEF rest
<1>6. ASSUME NEW d \in Clients PROVE Answers(responses[d])'
  <2>1. responses'[d] = responses[d] \/ responses'[d] = rest
    BY <1>2, <1>3 DEF rest
  <2>2. QED
    BY <1>4, <2>1 DEF IInv, Answered, Answers
<1>7. ok => \E q \in authorized : SameGame(call[c].id, q)
  BY <1>2, <1>3 DEF Answers, SameGame
<1>8. QED
  BY <1>1, <1>5, <1>6, <1>7

LEMMA ReconcileStepKeeps ==
    ASSUME IInv, NEW c \in Reconcilers, ReconcileStep(c) PROVE IInv'
<1>1. /\ call[c] \in Call /\ call \in [Reconcilers -> Call]
      /\ responses \in [Clients -> Seq(Response)]
      /\ \A o \in Clients : Answers(responses[o])
      /\ client \in Clients
  BY DEF IInv, TypeOK, Answered
<1>2. CASE NoOrder(c)
  BY <1>1, <1>2, CallEnds DEF NoOrder, Answers, Clients
<1>3. CASE ReadClient(c)
  <2> DEFINE new == [call[c] EXCEPT !.pc = "queued", !.client = client]
  <2>1. /\ new \in Call /\ new.pc = "queued" /\ new.id = call[c].id /\ Asks(new)
        /\ new.former = call[c].former
    BY <1>1 DEF Call, Asks
  <2>2. call' = [call EXCEPT ![c] = new] /\ call[c].pc = "waiting"
    BY <1>1, <1>3 DEF ReadClient, Call
  <2>3. \A o \in Clients : Answers(responses[o])'
    BY <1>1, <1>3 DEF ReadClient, Answers
  <2> HIDE DEF new
  <2>4. QED
    BY <1>1, <1>3, <2>1, <2>2, <2>3, CallGoesOn DEF ReadClient
<1>4. CASE FinalizeSend(c)
  <2> DEFINE p   == call[c].id
             o   == call[c].client
             new == [call[c] EXCEPT !.pc = "requesting", !.open = TRUE]
             r   == [id |-> p, ok |-> p \in authorized /\ call[c].order = AccountOf(o)]
  <2>1. /\ p \in Sessions /\ o \in Clients /\ call[c].pc = "queued"
    BY <1>4 DEF FinalizeSend, IInv, Asked, ClientsKnown, Asks
  <2>2. /\ new \in Call /\ new.pc = "requesting" /\ new.id = p /\ new.former = call[c].former
        /\ Asks(new)
    BY <1>1, <2>1 DEF Call, Asks
  <2>3. call' = [call EXCEPT ![c] = new]
    BY <1>1, <1>4 DEF FinalizeSend, Call
  <2>4. r \in Response /\ (r.ok => r.id \in authorized)
    BY <2>1 DEF Response
  <2>5. responses' = responses \/ responses' = [responses EXCEPT ![o] = Append(@, r)]
    BY <1>4 DEF FinalizeSend
  <2>6. UNCHANGED <<serviceVars, purchaseSessions, placing, authorized>>
    BY <1>4 DEF FinalizeSend
  <2> HIDE DEF r, new
  <2>7. /\ Append(responses[o], r) \in Seq(Response) /\ Answers(Append(responses[o], r))
    BY <1>1, <2>1, <2>4 DEF Answers
  <2>8. responses' \in [Clients -> Seq(Response)]
    BY <1>1, <2>1, <2>5, <2>7
  <2>9. ASSUME NEW d \in Clients PROVE Answers(responses[d])'
    <3>1. responses'[d] = responses[d] \/ responses'[d] = Append(responses[o], r)
      BY <1>1, <2>1, <2>5
    <3>2. QED
      BY <1>1, <2>6, <2>7, <3>1 DEF Answers
  <2>10. QED
    BY <2>1, <2>2, <2>3, <2>6, <2>8, <2>9, CallGoesOn
<1>5. CASE FinalizeAccepted(c)
  <2> DEFINE new == [NoCall EXCEPT !.pc = "refreshing", !.id = call[c].id]
  <2>1. /\ call[c].pc = "requesting" /\ responses' \in [Clients -> Seq(Response)]
        /\ \A o \in Clients : Answers(responses[o])'
        /\ \E q \in authorized : SameGame(call[c].id, q)
    BY <1>5, ReadAnswerStep DEF FinalizeAccepted
  <2>2. /\ new \in Call /\ new.pc = "refreshing" /\ new.id = call[c].id
        /\ new.former = <<>> /\ Asks(new)
    BY <1>1, RecordTypes DEF Call, NoCall, Asks
  <2>3. call' = [call EXCEPT ![c] = new]
    BY <1>5 DEF FinalizeAccepted, Refreshing
  <2> HIDE DEF new
  <2>4. QED
    BY <1>5, <2>1, <2>2, <2>3, CallGoesOn DEF FinalizeAccepted
<1>6. CASE FinalizeRejected(c)
  <2>1. /\ call[c].pc = "requesting" /\ responses' \in [Clients -> Seq(Response)]
        /\ \A o \in Clients : Answers(responses[o])'
    BY <1>6, ReadAnswerStep DEF FinalizeRejected
  <2>2. QED
    BY <1>6, <2>1, CallEnds DEF FinalizeRejected
<1>7. CASE FinalizeFails(c)
  BY <1>1, <1>7, CallEnds DEF FinalizeFails, Answers
<1>8. CASE ReconcileCommit(c)
  <2>1. PICK status \in {"completed", "awaiting_user"} : SetStatus(call[c].id, status)
    BY <1>8 DEF ReconcileCommit
  <2>2. \E q \in authorized : SameGame(call[c].id, q)
    BY <1>8 DEF ReconcileCommit, IInv, Asked
  <2>3. QED
    BY <1>1, <1>8, <2>1, <2>2, CallEnds DEF ReconcileCommit, Answers
<1>9. QED
  BY <1>2, <1>3, <1>4, <1>5, <1>6, <1>7, <1>8 DEF ReconcileStep

LEMMA NextIInv == IInv /\ [Next]_vars => IInv'
<1> SUFFICES ASSUME IInv, [Next]_vars PROVE IInv'
  OBVIOUS
<1>1. CASE UNCHANGED vars
  <2>1. TypeOK' /\ Connected'
    BY <1>1 DEF vars, serviceVars, clientVars, purchaseVars, accountVars, IInv, TypeOK,
         AccountTypeOK, Connected, steamConnected, Clients
  <2>2. Asked' /\ Answered' /\ ClientsKnown'
    BY <1>1 DEF vars, serviceVars, clientVars, purchaseVars, IInv, Asked, Answered, Answers,
         ClientsKnown, Asks, Clients
  <2>3. NoStrandedPurchase' /\ CompletedNeedsAcceptance'
    BY <1>1 DEF vars, purchaseVars, IInv, NoStrandedPurchase, CompletedNeedsAcceptance
  <2>4. QED
    BY <2>1, <2>2, <2>3 DEF IInv
<1>2. QED
  BY <1>1, AccountChangeStep, PlacingStepKeeps, AuthorizeStep, ReconcileStartStep,
     ReconcileStepKeeps DEF Next

THEOREM Invariance == Spec => []IInv
  BY InitIInv, NextIInv, PTL DEF Spec

(* Every variable keeps to its type, whatever sign-ins, purchases and calls *)
(* overlap.                                                                 *)
THEOREM TypeCorrect == Spec => []TypeOK
  BY Invariance, PTL DEF IInv

(* No error path, second call or account change leaves a purchase           *)
(* initializing or finalizing (service_store.go, service_store_state.go).   *)
THEOREM NothingStranded == Spec => []NoStrandedPurchase
  BY Invariance, PTL DEF IInv

(* A purchase completes only after an answer that accepted an authorized    *)
(* order of the same game.                                                  *)
THEOREM CompletedWasAccepted == Spec => []CompletedNeedsAcceptance
  BY Invariance, PTL DEF IInv
=============================================================================
