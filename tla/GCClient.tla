------------------------------ MODULE GCClient ------------------------------
(***************************************************************************)
(* SteamGCClient (backend/internal/transport): the connection to a Steam   *)
(* CM, the logon on it, the heartbeat, the automatic logon of a request    *)
(* whose session ended, and the bounded queue of events between the loop   *)
(* that serves a connection and the threads that wait for an answer.       *)
(*                                                                         *)
(* A connection has one loop.  It takes packets to send and packets that   *)
(* arrived in turn, and a handler that finds the queue full keeps the loop *)
(* until there is room.  A queue of Capacity + 1 events stands for a full  *)
(* queue and a loop that holds one more.                                   *)
(*                                                                         *)
(* Nothing closes a connection: SteamConnection has no Close, so Close and *)
(* closeAndClearConn only forget it, and its loop goes on.  SendPacket     *)
(* never fails either; what is sent on a lost connection is lost.          *)
(*                                                                         *)
(* Each section under the client's mutex is a step, and so is each send to *)
(* the queue after one: a logon is completed in three sections and a send, *)
(* a failure sets the state and then forgets the connection.               *)
(*                                                                         *)
(* Abstractions.  Requests are RequestInventory; the others that hold      *)
(* requestMu differ in the message they wait for.  What the client tells   *)
(* its own queue is not kept in it, but a thread that has to put an event  *)
(* waits for room (Room).  A packet is sent in the step that reads conn,   *)
(* with the event that tells of it.  A thread looks at the clock only when *)
(* there is nothing to read: deadlines are seconds long.  The loop of a    *)
(* connection runs from the time it is made.  The states "error" and       *)
(* "auth_failed" are one, and logOn's setState("error") after a Connect    *)
(* that failed, and set it, is not repeated.  Steam Guard within logOn and *)
(* protocol traces are left out.                                           *)
(***************************************************************************)
EXTENDS Naturals, Sequences

CONSTANTS
    Accounts,    \* Steam accounts
    NoAccount,   \* no account
    SignIns,     \* threads that sign in: Connect, then LogOn
    Requests,    \* threads that call RequestInventory
    MaxConns,    \* bound on the connections opened
    Capacity     \* the size of the event queue, 64 in the code

ASSUME ClientAssumption ==
    /\ NoAccount \notin Accounts
    /\ SignIns \cap Requests = {}
    /\ MaxConns \in Nat /\ Capacity \in Nat

VARIABLES
    conn,              \* SteamGCClient.conn: the connection's number
    events,            \* SteamGCClient.events: the number of the queue
    state,             \* SteamGCClient.state
    activeSteamID,     \* the account that logged on
    reauthCredentials, \* the account whose refresh token is kept
    lastWelcome,       \* the account of the ClientWelcome that is kept
    heartbeat,         \* the newest heartbeat thread: its connection, if it runs
    link,              \* the connections, as their loops and Steam have them
    queue,             \* the event queues
    thread             \* the sign-ins and requests

clientVars == <<conn, events, state, activeSteamID, reauthCredentials,
                lastWelcome, heartbeat>>
vars == <<clientVars, link, queue, thread>>

NoConn   == 0
Conns    == 1..MaxConns
Queues   == 0..MaxConns
Threads  == SignIns \cup Requests
SteamIDs == Accounts \cup {NoAccount}

States == {"disconnected", "connecting", "connected", "logged_on", "error",
           "closed", "session_lost"}
Event  == [type : {"logon_response", "logged_off", "welcome", "other"},
           account : SteamIDs]
Other  == [type |-> "other", account |-> NoAccount]
Link   == [open : BOOLEAN,        \* packets still reach Steam and back
           queue : Queues,        \* the queue its handlers were made with
           logOn : SteamIDs,      \* a logon Steam has not answered
           session : SteamIDs,    \* the account that is logged on over it
           hello : BOOLEAN,       \* a ClientHello that is not answered
           ending : BOOLEAN,      \* sessionEnded is still to be called
           ended : BOOLEAN]       \* Steam, or the thread that made it, ended it
NoLink == [open |-> FALSE, queue |-> 0, logOn |-> NoAccount, session |-> NoAccount,
           hello |-> FALSE, ending |-> FALSE, ended |-> FALSE]
PCs    == {"idle", "connect", "dial", "handshake", "connected", "logOn", "awaitLogOn",
           "activate", "remember", "loggedOn", "moveOn", "clear", "presence", "hello",
           "awaitWelcome", "settle"}
Thread == [pc : PCs,
           account : SteamIDs,    \* the credentials it logs on with
           answer : SteamIDs,     \* the account of the answer it has read
           conn : Queues,         \* the connection it opened or logs on over
           queue : Queues]        \* the queue it waits on
Idle   == [pc |-> "idle", account |-> NoAccount, answer |-> NoAccount,
           conn |-> NoConn, queue |-> 0]

TypeOK ==
    /\ conn \in Queues /\ events \in Queues
    /\ state \in States
    /\ activeSteamID \in SteamIDs
    /\ reauthCredentials \in SteamIDs
    /\ lastWelcome \in SteamIDs
    /\ heartbeat \in [on : BOOLEAN, conn : Queues]
    /\ link \in [Conns -> Link]
    /\ queue \in [Queues -> Seq(Event)]
    /\ thread \in [Threads -> Thread]

Init ==
    /\ conn = NoConn /\ events = 0
    /\ state = "disconnected"
    /\ activeSteamID = NoAccount
    /\ reauthCredentials = NoAccount
    /\ lastWelcome = NoAccount
    /\ heartbeat = [on |-> FALSE, conn |-> NoConn]
    /\ link = [c \in Conns |-> NoLink]
    /\ queue = [q \in Queues |-> <<>>]
    /\ thread = [t \in Threads |-> Idle]
-----------------------------------------------------------------------------
(* The queue.                                                              *)

Room(q)     == Len(queue[q]) < Capacity
LoopFree(c) == Len(queue[link[c].queue]) <= Capacity
Put(q, e)   == queue' = [queue EXCEPT ![q] = Append(@, e)]

(* Each turn of a waiting loop looks at the queue that is then current; a   *)
(* thread that waits already stays with the queue it waits on.              *)
Reads(t, type) ==
    LET q == thread[t].queue
    IN /\ queue[q] # <<>>
       /\ Head(queue[q]).type = type
       /\ queue' = [queue EXCEPT ![q] = Tail(@)]
NothingToRead(t) == queue[thread[t].queue] = <<>>

Goto(t, pc) == thread' = [thread EXCEPT ![t].pc = pc]
Finish(t)   == thread' = [thread EXCEPT ![t] = Idle]
GiveUp(t)   == thread' = [thread EXCEPT ![t] = [Idle EXCEPT !.pc = "clear",
                                                   !.conn = thread[t].conn]]
Present(t)  == thread' = [thread EXCEPT ![t] = [Idle EXCEPT !.pc = "presence"]]

(* clearConn and closeAndClearConn ask whose connection it is; setState,    *)
(* which comes before them or after, does not.                              *)
clearConn(t) ==
    /\ conn' = IF conn = thread[t].conn THEN NoConn ELSE conn
    /\ link' = [link EXCEPT ![thread[t].conn].ended = TRUE]

ClearConn(t) ==
    /\ thread[t].pc = "clear"
    /\ clearConn(t)
    /\ Finish(t)
    /\ UNCHANGED <<events, state, activeSteamID, reauthCredentials, lastWelcome,
                   heartbeat, queue>>
-----------------------------------------------------------------------------
(* Connect.                                                                *)

EnterConnect(t, a) ==
    /\ \/ /\ conn # NoConn
          /\ thread' = [thread EXCEPT ![t] = [Idle EXCEPT !.pc = "logOn", !.account = a]]
          /\ UNCHANGED <<events, state>>
       \/ /\ conn = NoConn /\ events < MaxConns
          /\ state' = "connecting"
          /\ events' = events + 1
          /\ thread' = [thread EXCEPT ![t] = [Idle EXCEPT !.pc = "dial", !.account = a,
                                                         !.conn = events + 1]]
    /\ UNCHANGED <<conn, activeSteamID, reauthCredentials, lastWelcome, heartbeat,
                   link, queue>>

SignIn(t, a)    == thread[t].pc = "idle" /\ EnterConnect(t, a)
ConnectStart(t) == thread[t].pc = "connect" /\ EnterConnect(t, thread[t].account)

Dial(t) ==
    LET c == thread[t].conn
    IN /\ thread[t].pc = "dial"
       /\ conn' = c
       /\ link' = [link EXCEPT ![c] = [NoLink EXCEPT !.open = TRUE, !.queue = events]]
       /\ Goto(t, "handshake")
       /\ UNCHANGED <<events, state, activeSteamID, reauthCredentials, lastWelcome,
                      heartbeat, queue>>

ConnectReady(t) ==
    /\ thread[t].pc = "handshake"
    /\ state' = "connected"
    /\ thread' = [thread EXCEPT ![t] = [Idle EXCEPT !.pc = "connected",
                                                   !.account = thread[t].account]]
    /\ UNCHANGED <<conn, events, activeSteamID, reauthCredentials, lastWelcome,
                   heartbeat, link, queue>>

(* The sends of "gc.connected" and "steam.logged_on".                       *)
Announce(t) ==
    /\ Room(events)
    /\ \/ thread[t].pc = "connected" /\ Goto(t, "logOn")
       \/ thread[t].pc = "loggedOn" /\ t \in SignIns /\ Finish(t)
       \/ thread[t].pc = "loggedOn" /\ t \in Requests /\ Present(t)
    /\ UNCHANGED <<clientVars, link, queue>>

(* No directory, no route, no handshake in time, or the caller gave up.  A  *)
(* Connect past MaxConns finds no directory.                                *)
ConnectFails(t) ==
    /\ \/ /\ \/ thread[t].pc = "dial"
             \/ thread[t].pc = "connect" /\ conn = NoConn /\ events = MaxConns
          /\ Finish(t)
       \/ thread[t].pc = "handshake" /\ GiveUp(t)
    /\ state' = "error"
    /\ UNCHANGED <<conn, events, activeSteamID, reauthCredentials, lastWelcome,
                   heartbeat, link, queue>>
-----------------------------------------------------------------------------
(* logOn.                                                                  *)

LogOnSend(t) ==
    /\ thread[t].pc = "logOn"
    /\ \/ /\ conn = NoConn
          /\ Finish(t)
          /\ UNCHANGED link
       \/ /\ conn # NoConn
          /\ LoopFree(conn) /\ Room(events)
          /\ link' = [link EXCEPT ![conn].logOn = thread[t].account]
          /\ thread' = [thread EXCEPT ![t].pc = "awaitLogOn", ![t].conn = conn,
                                      ![t].queue = events]
    /\ UNCHANGED <<clientVars, queue>>

(* A logon is completed in three sections.  None of them asks whether the   *)
(* connection is still there, or whose state it is.                         *)
LogOnAccepted(t) ==
    /\ thread[t].pc = "awaitLogOn"
    /\ Reads(t, "logon_response")
    /\ Head(queue[thread[t].queue]).account # NoAccount
    /\ state' = "logged_on"
    /\ thread' = [thread EXCEPT ![t] =
                    [Idle EXCEPT !.pc = "activate", !.account = thread[t].account,
                                 !.answer = Head(queue[thread[t].queue]).account]]
    /\ UNCHANGED <<conn, events, activeSteamID, reauthCredentials, lastWelcome,
                   heartbeat, link>>

activateAuthenticatedAccount(t) ==
    /\ thread[t].pc = "activate"
    /\ activeSteamID' = thread[t].answer
    /\ lastWelcome' = NoAccount
    /\ thread' = [thread EXCEPT ![t] = [Idle EXCEPT !.pc = "remember",
                                                   !.account = thread[t].account]]
    /\ UNCHANGED <<conn, events, state, reauthCredentials, heartbeat, link, queue>>

(* Mutant: a heartbeat that runs is kept when the session is a new one.     *)
rememberKeepsHeartbeat(t) ==
    /\ thread[t].pc = "remember"
    /\ reauthCredentials' = thread[t].account
    /\ heartbeat' = IF heartbeat.on THEN heartbeat ELSE [on |-> TRUE, conn |-> conn]
    /\ thread' = [thread EXCEPT ![t] = [Idle EXCEPT !.pc = "loggedOn"]]
    /\ UNCHANGED <<conn, events, state, activeSteamID, lastWelcome, link, queue>>

rememberAuthenticatedSession(t) ==
    /\ thread[t].pc = "remember"
    /\ reauthCredentials' = thread[t].account
    /\ heartbeat' = [on |-> TRUE, conn |-> conn]
    /\ thread' = [thread EXCEPT ![t] = [Idle EXCEPT !.pc = "loggedOn"]]
    /\ UNCHANGED <<conn, events, state, activeSteamID, lastWelcome, link, queue>>

(* Refused, logged off before the answer, or no answer in time.             *)
LogOnFails(t) ==
    /\ thread[t].pc = "awaitLogOn"
    /\ \/ /\ Reads(t, "logon_response")
          /\ Head(queue[thread[t].queue]).account = NoAccount
       \/ Reads(t, "logged_off")
       \/ NothingToRead(t) /\ UNCHANGED queue
    /\ state' = "error"
    /\ GiveUp(t)
    /\ UNCHANGED <<conn, events, activeSteamID, reauthCredentials, lastWelcome,
                   heartbeat, link>>

(* Mutant: the wait for a Steam Guard code is a state of its own.           *)
LogOnAwaitsGuard(t) ==
    /\ thread[t].pc = "awaitLogOn"
    /\ Reads(t, "logon_response")
    /\ Head(queue[thread[t].queue]).account = NoAccount
    /\ state' = "steam_guard"
    /\ Finish(t)
    /\ UNCHANGED <<conn, events, activeSteamID, reauthCredentials, lastWelcome,
                   heartbeat, link>>

(* A refusal that asks for a Steam Guard code keeps the connection.         *)
LogOnNeedsGuard(t) ==
    /\ thread[t].pc = "awaitLogOn"
    /\ Reads(t, "logon_response")
    /\ Head(queue[thread[t].queue]).account = NoAccount
    /\ state' = "connected"
    /\ Finish(t)
    /\ UNCHANGED <<conn, events, activeSteamID, reauthCredentials, lastWelcome,
                   heartbeat, link>>

(* Steam asks to try another CM: the event, and then the connection.        *)
LogOnElsewhere(t) ==
    /\ thread[t].pc = "awaitLogOn"
    /\ Reads(t, "logon_response")
    /\ Head(queue[thread[t].queue]).account = NoAccount
    /\ thread' = [thread EXCEPT ![t].pc = "moveOn", ![t].queue = 0]
    /\ UNCHANGED <<clientVars, link>>

MoveOn(t) ==
    /\ thread[t].pc = "moveOn"
    /\ Room(events)
    /\ clearConn(t)
    /\ thread' = [thread EXCEPT ![t].pc = "connect", ![t].conn = NoConn]
    /\ UNCHANGED <<events, state, activeSteamID, reauthCredentials, lastWelcome,
                   heartbeat, queue>>
-----------------------------------------------------------------------------
(* RequestInventory, under requestMu.                                      *)

ensureSteamSession(t) ==
    LET loggedOn == conn # NoConn /\ state = "logged_on"
    IN /\ \/ loggedOn /\ Present(t)
          \/ ~loggedOn /\ reauthCredentials = NoAccount /\ Finish(t)
          \/ /\ ~loggedOn /\ reauthCredentials # NoAccount
             /\ thread' = [thread EXCEPT ![t] = [Idle EXCEPT !.pc = "connect",
                                                  !.account = reauthCredentials]]
       /\ UNCHANGED <<clientVars, link, queue>>

Request(t) ==
    /\ \A r \in Requests : thread[r].pc = "idle"
    /\ ensureSteamSession(t)

sendGamesPlayed(t) ==
    /\ thread[t].pc = "presence"
    /\ \/ /\ conn = NoConn
          /\ Finish(t)
       \/ /\ conn # NoConn
          /\ LoopFree(conn) /\ Room(events)
          /\ Goto(t, "hello")
    /\ UNCHANGED <<clientVars, link, queue>>

(* What sendToGC tells the queue is dropped when the queue is full.         *)
SendHello(t) ==
    /\ thread[t].pc = "hello"
    /\ \/ /\ conn = NoConn
          /\ Finish(t)
          /\ UNCHANGED link
       \/ /\ conn # NoConn
          /\ LoopFree(conn)
          /\ link' = [link EXCEPT ![conn].hello = TRUE]
          /\ thread' = [thread EXCEPT ![t].pc = "awaitWelcome", ![t].queue = events]
    /\ UNCHANGED <<clientVars, queue>>

HelloRetry(t) ==
    /\ thread[t].pc = "awaitWelcome"
    /\ conn # NoConn
    /\ LoopFree(conn)
    /\ link' = [link EXCEPT ![conn].hello = TRUE]
    /\ thread' = [thread EXCEPT ![t].queue = events]
    /\ UNCHANGED <<clientVars, queue>>

(* A retry that finds no connection recovers the session first.             *)
HelloRecovers(t) ==
    /\ thread[t].pc = "awaitWelcome"
    /\ conn = NoConn
    /\ ensureSteamSession(t)

WelcomeRead(t) ==
    /\ thread[t].pc \in {"awaitWelcome", "settle"}
    /\ Reads(t, "welcome")
    /\ lastWelcome' = Head(queue[thread[t].queue]).account
    /\ thread' = [thread EXCEPT ![t].pc = "settle", ![t].queue = events]
    /\ UNCHANGED <<conn, events, state, activeSteamID, reauthCredentials, heartbeat,
                   link>>

(* Logged off; settled; or the deadline passed.                             *)
RequestEnds(t) ==
    /\ thread[t].pc \in {"awaitWelcome", "settle"}
    /\ Reads(t, "logged_off") \/ (NothingToRead(t) /\ UNCHANGED queue)
    /\ Finish(t)
    /\ UNCHANGED <<clientVars, link>>

Skip(t) ==
    /\ \/ /\ thread[t].pc = "awaitLogOn"
          /\ Reads(t, "other") \/ Reads(t, "welcome")
       \/ /\ thread[t].pc \in {"awaitWelcome", "settle"}
          /\ Reads(t, "other") \/ Reads(t, "logon_response")
    /\ thread' = [thread EXCEPT ![t].queue = events]
    /\ UNCHANGED <<clientVars, link>>
-----------------------------------------------------------------------------
(* Close, the heartbeat and the end of a session.                          *)

NoLiveState ==
    /\ conn' = NoConn
    /\ activeSteamID' = NoAccount
    /\ lastWelcome' = NoAccount
    /\ heartbeat' = [on |-> FALSE, conn |-> NoConn]

Close ==
    /\ NoLiveState
    /\ reauthCredentials' = NoAccount
    /\ state' = "closed"
    /\ UNCHANGED <<events, link, queue, thread>>

(* A heartbeat that finds another connection, or the session gone, ends.    *)
HeartbeatEnds ==
    /\ heartbeat.on
    /\ conn # heartbeat.conn \/ state # "logged_on"
    /\ heartbeat' = [on |-> FALSE, conn |-> NoConn]
    /\ UNCHANGED <<conn, events, state, activeSteamID, reauthCredentials,
                   lastWelcome, link, queue, thread>>

(* Mutant: the end of any connection ends the session.                      *)
SessionEndedOfAny(c) ==
    /\ link[c].ending /\ LoopFree(c)
    /\ NoLiveState
    /\ state' = "session_lost"
    /\ link' = [link EXCEPT ![c].ending = FALSE]
    /\ UNCHANGED <<events, reauthCredentials, queue, thread>>

(* handleSteamSessionEnded, after the handler told the queue.               *)
SessionEnded(c) ==
    /\ link[c].ending /\ LoopFree(c)
    /\ IF conn = c
       THEN NoLiveState /\ state' = "session_lost"
       ELSE UNCHANGED <<conn, activeSteamID, lastWelcome, heartbeat, state>>
    /\ link' = [link EXCEPT ![c].ending = FALSE]
    /\ UNCHANGED <<events, reauthCredentials, queue, thread>>
-----------------------------------------------------------------------------
(* Steam and the network (external).                                       *)

SteamAnswersLogOn(c) ==
    /\ link[c].open /\ link[c].logOn # NoAccount /\ LoopFree(c)
    /\ \E a \in {link[c].logOn, NoAccount} :
          /\ Put(link[c].queue, [type |-> "logon_response", account |-> a])
          /\ link' = [link EXCEPT ![c].logOn = NoAccount, ![c].session = a]
    /\ UNCHANGED <<clientVars, thread>>

SteamWelcomes(c) ==
    /\ link[c].open /\ link[c].hello /\ link[c].session # NoAccount /\ LoopFree(c)
    /\ Put(link[c].queue, [type |-> "welcome", account |-> link[c].session])
    /\ link' = [link EXCEPT ![c].hello = FALSE]
    /\ UNCHANGED <<clientVars, thread>>

SteamUpdates(c) ==
    /\ link[c].open /\ link[c].session # NoAccount /\ LoopFree(c)
    /\ Put(link[c].queue, Other)
    /\ UNCHANGED <<clientVars, link, thread>>

SteamLogsOff(c) ==
    /\ link[c].open /\ LoopFree(c)
    /\ Put(link[c].queue, [type |-> "logged_off", account |-> NoAccount])
    /\ link' = [link EXCEPT ![c] = [NoLink EXCEPT !.queue = link[c].queue,
                                      !.ending = TRUE, !.ended = TRUE]]
    /\ UNCHANGED <<clientVars, thread>>

(* The reader's error is dropped: nobody learns that the connection is gone. *)
ConnectionLost(c) ==
    /\ link[c].open
    /\ link' = [link EXCEPT ![c].open = FALSE, ![c].session = NoAccount,
                            ![c].logOn = NoAccount, ![c].hello = FALSE]
    /\ UNCHANGED <<clientVars, queue, thread>>
-----------------------------------------------------------------------------
ConnectStep(t) == \/ ConnectStart(t) \/ Dial(t) \/ ConnectReady(t) \/ Announce(t)
                  \/ ConnectFails(t) \/ ClearConn(t)
LogOnStep(t)   == \/ LogOnSend(t) \/ LogOnAccepted(t) \/ activateAuthenticatedAccount(t)
                  \/ rememberAuthenticatedSession(t) \/ LogOnFails(t)
                  \/ LogOnNeedsGuard(t) \/ LogOnElsewhere(t) \/ MoveOn(t)
RequestStep(t) == \/ sendGamesPlayed(t) \/ SendHello(t) \/ HelloRetry(t)
                  \/ HelloRecovers(t) \/ WelcomeRead(t) \/ RequestEnds(t)
Step(t)        == ConnectStep(t) \/ LogOnStep(t) \/ RequestStep(t) \/ Skip(t)
Steam(c)       == \/ SteamAnswersLogOn(c) \/ SteamWelcomes(c) \/ SteamUpdates(c)
                  \/ SteamLogsOff(c) \/ ConnectionLost(c)

Next == \/ \E t \in SignIns, a \in Accounts : SignIn(t, a)
        \/ \E t \in Requests : Request(t)
        \/ \E t \in Threads : Step(t)
        \/ \E c \in Conns : Steam(c) \/ SessionEnded(c)
        \/ Close
        \/ HeartbeatEnds

Spec == Init /\ [][Next]_vars

(* Threads and loops run, and a blocked sender on a channel gets the room   *)
(* there is in its turn.  The deadline of a request ends it, though it sends *)
(* its hello again and again.  Steam and the network promise nothing.       *)
FairSpec == /\ Spec
            /\ \A t \in Threads : SF_vars(Step(t))
            /\ \A t \in Requests : SF_vars(RequestEnds(t))
            /\ \A c \in Conns : WF_vars(SessionEnded(c))
-----------------------------------------------------------------------------
(* A client that says it is logged on over a connection keeps that session  *)
(* alive: the heartbeat that runs is the one of that connection.  There is   *)
(* none yet while a second Connect replaces the connection, and while a      *)
(* logon is between setState("logged_on") and rememberAuthenticatedSession,  *)
(* which starts it for whatever connection is there by then.  Whatever falls *)
(* between those sections, a logon that is through them leaves no connection *)
(* that is logged on and silent; the heartbeat of an older one stops by      *)
(* itself at its next beat.                                                  *)
LoggedOnIsKeptAlive ==
    state = "logged_on" /\ conn # NoConn =>
        \/ heartbeat = [on |-> TRUE, conn |-> conn]
        \/ \E t \in Threads : thread[t].pc = "handshake" /\ thread[t].conn = conn
        \/ \E t \in Threads : thread[t].pc \in {"activate", "remember"}

(* Two things a reader may expect and that do not hold, because Close or the *)
(* end of a session can fall before or between the sections of a logon.  A   *)
(* client that was closed may keep a refresh token, with which a request     *)
(* signs in again; and a heartbeat may be started for no connection at all.  *)
ClosedForgetsAccount   == state = "closed" => reauthCredentials = NoAccount
HeartbeatHasConnection == heartbeat.on => heartbeat.conn # NoConn

(* The client forgets its connection only when it is closed, or when that   *)
(* very connection was ended, by Steam or by the thread that made it.  What *)
(* comes late from an older one, whose loop still runs, never ends the      *)
(* session of the new one (clearConn, handleSteamSessionEnded).             *)
OwnEndsOnly ==
    [][conn # NoConn /\ conn' = NoConn =>
          state' = "closed" \/ link'[conn].ended]_vars

(* A request returns, at the latest at its deadline.  gc_inventory_send.go  *)
(* says of the queue of events that a full one must never block an          *)
(* operation; sendGamesPlayed and the handlers wait for room in it, and     *)
(* between two requests nobody reads it.                                    *)
RequestReturns == \A t \in Requests : thread[t].pc # "idle" ~> thread[t].pc = "idle"
=============================================================================
