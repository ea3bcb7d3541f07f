--------------------------- MODULE GCClientProofs ---------------------------
(***************************************************************************)
(* Proofs about GCClient, for any number of threads and connections, any   *)
(* capacity of the queue and any accounts: type correctness, that a client *)
(* that says it is logged on keeps that session alive, and that only its   *)
(* own end makes it forget a connection.                                   *)
(***************************************************************************)
EXTENDS GCClient, SequenceTheorems, TLAPS

(* A thread that connects or logs on, or gives that up, does so over a       *)
(* connection.                                                              *)
OverPCs == {"dial", "handshake", "awaitLogOn", "moveOn", "clear"}
Over    == \A t \in Threads : thread[t].pc \in OverPCs => thread[t].conn # NoConn

(* Only an ended connection still has its end to report.                    *)
Ending == \A c \in Conns : link[c].ending => link[c].ended

IInv == TypeOK /\ Over /\ Ending /\ LoggedOnIsKeptAlive

(* The threads because of which there may be no heartbeat yet.              *)
NotYet(t) == thread[t].pc \in {"handshake", "activate", "remember"}

(* What the action property says of a step.                                 *)
OwnEnd == conn # NoConn /\ conn' = NoConn => state' = "closed" \/ link'[conn].ended

LEMMA BasicTypes ==
    /\ NoConn \in Queues /\ 0 \in Queues /\ Conns \subseteq Queues
    /\ \A q \in Queues : q # NoConn => q \in Conns
    /\ NoLink \in Link /\ Idle \in Thread /\ Other \in Event /\ Idle.pc = "idle"
    /\ NoLink.ending = FALSE
  BY ClientAssumption
     DEF NoConn, Queues, Conns, NoLink, Link, Idle, Thread, PCs, Other, Event, SteamIDs

LEMMA InitIInv == Init => IInv
  BY BasicTypes
     DEF Init, IInv, TypeOK, Over, OverPCs, Ending, LoggedOnIsKeptAlive, States, SteamIDs, Idle,
         NoLink
-----------------------------------------------------------------------------
(* Reading from a queue and writing to one keep the queues queues.          *)
LEMMA ReadsKeeps ==
    ASSUME TypeOK, NEW t \in Threads, NEW type, Reads(t, type)
    PROVE  /\ queue' \in [Queues -> Seq(Event)]
           /\ Head(queue[thread[t].queue]).account \in SteamIDs
<1>1. thread[t].queue \in Queues /\ queue \in [Queues -> Seq(Event)]
  BY DEF TypeOK, Thread
<1>2. queue[thread[t].queue] \in Seq(Event) /\ queue[thread[t].queue] # <<>>
  BY <1>1 DEF Reads
<1>3. Head(queue[thread[t].queue]) \in Event /\ Tail(queue[thread[t].queue]) \in Seq(Event)
  BY <1>2
<1>4. Head(queue[thread[t].queue]).account \in SteamIDs
  BY <1>3 DEF Event
<1>5. QED
  BY <1>1, <1>3, <1>4 DEF Reads

LEMMA PutKeeps ==
    ASSUME TypeOK, NEW q \in Queues, NEW e \in Event, Put(q, e)
    PROVE  queue' \in [Queues -> Seq(Event)]
<1>1. queue[q] \in Seq(Event)
  BY DEF TypeOK
<1>2. Append(queue[q], e) \in Seq(Event)
  BY <1>1
<1>3. QED
  BY <1>2 DEF TypeOK, Put

(* A thread that moves on.                                                  *)
LEMMA ThreadMoves ==
    ASSUME IInv, NEW t \in Threads, NEW r \in Thread,
           thread' = [thread EXCEPT ![t] = r],
           r.pc \in OverPCs => r.conn # NoConn
    PROVE  thread' \in [Threads -> Thread] /\ Over'
  BY DEF IInv, TypeOK, Over

(* A connection that changes.                                               *)
LEMMA LinkChanges ==
    ASSUME IInv, NEW c \in Conns, NEW l \in Link,
           link' = [link EXCEPT ![c] = l],
           l.ending => l.ended
    PROVE  link' \in [Conns -> Link] /\ Ending'
  BY DEF IInv, TypeOK, Ending

(* A step that starts nothing leaves a session as it was, or ends it.        *)
LEMMA StillAlive ==
    ASSUME IInv, state' = state, heartbeat' = heartbeat,
           conn' # NoConn => conn' = conn,
           \A u \in Threads : NotYet(u) => thread'[u] = thread[u]
    PROVE  LoggedOnIsKeptAlive'
  BY DEF IInv, LoggedOnIsKeptAlive, NotYet

(* A thread that gives up what it connected: its connection is ended.       *)
LEMMA FailKeeps ==
    ASSUME IInv, NEW t \in Threads, thread[t].conn # NoConn, clearConn(t)
    PROVE  /\ conn' \in Queues /\ link' \in [Conns -> Link] /\ Ending' /\ OwnEnd
           /\ thread[t].conn \in Conns
<1> DEFINE c == thread[t].conn
           l == [link[c] EXCEPT !.ended = TRUE]
<1>1. c \in Conns /\ link[c] \in Link
  BY BasicTypes DEF IInv, TypeOK, Thread
<1>2. l \in Link /\ l.ended
  BY <1>1 DEF Link
<1>3. link' = [link EXCEPT ![c] = l]
  BY <1>1 DEF clearConn, IInv, TypeOK
<1>4. link' \in [Conns -> Link] /\ Ending'
  BY <1>1, <1>2, <1>3, LinkChanges
<1>5. link'[c].ended
  BY <1>1, <1>2, <1>3 DEF IInv, TypeOK
<1>6. conn' \in Queues /\ OwnEnd
  BY <1>5, BasicTypes DEF clearConn, IInv, TypeOK, OwnEnd
<1>7. QED
  BY <1>1, <1>4, <1>6
-----------------------------------------------------------------------------
(* Connect.                                                                *)
LEMMA EnterConnectKeeps ==
    ASSUME IInv, NEW t \in Threads, NEW a \in SteamIDs, EnterConnect(t, a),
           ~NotYet(t)
    PROVE  IInv' /\ OwnEnd
<1>1. thread[t] \in Thread /\ thread[t].conn \in Queues /\ events \in Queues
  BY DEF IInv, TypeOK, Thread
<1>2. CASE conn # NoConn
  <2> DEFINE r == [Idle EXCEPT !.pc = "logOn", !.account = a]
  <2>1. r \in Thread /\ r.pc = "logOn"
    BY BasicTypes DEF Idle, Thread, PCs
  <2>2. thread' = [thread EXCEPT ![t] = r] /\ UNCHANGED <<clientVars, link, queue>>
    BY <1>2 DEF EnterConnect, clientVars, IInv, TypeOK
  <2>3. thread' \in [Threads -> Thread] /\ Over'
    BY <2>1, <2>2, ThreadMoves DEF OverPCs
  <2>4. TypeOK' /\ Ending' /\ OwnEnd
    BY <2>2, <2>3 DEF IInv, TypeOK, Ending, OwnEnd, clientVars
  <2>5. \A u \in Threads : NotYet(u) => thread'[u] = thread[u]
    BY <2>2 DEF IInv, TypeOK
  <2>6. LoggedOnIsKeptAlive'
    BY <2>2, <2>5, StillAlive DEF clientVars
  <2>7. QED
    BY <2>3, <2>4, <2>6 DEF IInv
<1>3. CASE conn = NoConn
  <2> DEFINE r == [Idle EXCEPT !.pc = "dial", !.account = a, !.conn = events + 1]
  <2>1. /\ events < MaxConns /\ state' = "connecting" /\ events' = events + 1
        /\ thread' = [thread EXCEPT ![t] = r]
        /\ UNCHANGED <<conn, activeSteamID, reauthCredentials, lastWelcome, heartbeat,
                       link, queue>>
    BY <1>3 DEF EnterConnect
  <2>2. events + 1 \in Queues /\ events + 1 # NoConn
    BY <1>1, <2>1, ClientAssumption DEF Queues, NoConn
  <2>3. r \in Thread /\ r.conn # NoConn
    BY <2>2, BasicTypes DEF Idle, Thread, PCs
  <2>4. thread' \in [Threads -> Thread] /\ Over'
    BY <2>1, <2>3, ThreadMoves
  <2>5. TypeOK' /\ Ending' /\ OwnEnd /\ LoggedOnIsKeptAlive'
    BY <2>1, <2>2, <2>4 DEF IInv, TypeOK, Ending, OwnEnd, States, LoggedOnIsKeptAlive
  <2>6. QED
    BY <2>4, <2>5 DEF IInv
<1>4. QED
  BY <1>2, <1>3

LEMMA ConnectStepKeeps ==
    ASSUME IInv, NEW t \in Threads,
           Dial(t) \/ ConnectReady(t) \/ Announce(t) \/ ConnectFails(t) \/ ClearConn(t)
    PROVE  IInv' /\ OwnEnd
<1>1. thread[t] \in Thread /\ thread[t].conn \in Queues /\ events \in Queues
  BY DEF IInv, TypeOK, Thread
<1>2. CASE Dial(t)
  <2> DEFINE c == thread[t].conn
             l == [NoLink EXCEPT !.open = TRUE, !.queue = events]
             r == [thread[t] EXCEPT !.pc = "handshake"]
  <2>1. c \in Conns
    BY <1>1, <1>2, BasicTypes DEF Dial, IInv, Over, OverPCs
  <2>2. l \in Link /\ ~l.ending /\ r \in Thread /\ r.conn = c /\ r.pc = "handshake"
    BY <1>1, BasicTypes DEF Link, NoLink, Thread, PCs
  <2>3. /\ conn' = c /\ link' = [link EXCEPT ![c] = l]
        /\ thread' = [thread EXCEPT ![t] = r]
        /\ UNCHANGED <<events, state, activeSteamID, reauthCredentials, lastWelcome,
                       heartbeat, queue>>
    BY <1>2 DEF Dial, Goto, IInv, TypeOK
  <2>4. link' \in [Conns -> Link] /\ Ending'
    BY <2>1, <2>2, <2>3, LinkChanges
  <2>5. c # NoConn
    BY <1>2 DEF Dial, IInv, Over, OverPCs
  <2>6. thread' \in [Threads -> Thread] /\ Over'
    BY <2>2, <2>3, <2>5, ThreadMoves DEF OverPCs
  <2>7. thread'[t] = r
    BY <2>3 DEF IInv, TypeOK
  <2>8. LoggedOnIsKeptAlive' /\ OwnEnd
    BY <2>2, <2>3, <2>5, <2>7 DEF LoggedOnIsKeptAlive, OwnEnd
  <2>9. TypeOK'
    BY <2>1, <2>3, <2>4, <2>6, BasicTypes DEF IInv, TypeOK
  <2>10. QED
    BY <2>4, <2>6, <2>8, <2>9 DEF IInv
<1>3. CASE ConnectReady(t)
  <2> DEFINE r == [Idle EXCEPT !.pc = "connected", !.account = thread[t].account]
  <2>1. r \in Thread /\ r.pc = "connected"
    BY <1>1, BasicTypes DEF Idle, Thread, PCs
  <2>2. thread' \in [Threads -> Thread] /\ Over'
    BY <1>3, <2>1, ThreadMoves DEF ConnectReady, OverPCs
  <2>3. TypeOK' /\ Ending' /\ OwnEnd /\ LoggedOnIsKeptAlive'
    BY <1>3, <2>2 DEF ConnectReady, IInv, TypeOK, Ending, OwnEnd, LoggedOnIsKeptAlive,
                      States
  <2>4. QED
    BY <2>2, <2>3 DEF IInv
<1>4. CASE Announce(t)
  <2> DEFINE go   == [thread[t] EXCEPT !.pc = "logOn"]
             show == [Idle EXCEPT !.pc = "presence"]
  <2>1. {Idle, go, show} \subseteq Thread /\ go.pc = "logOn" /\ show.pc = "presence"
    BY <1>1, BasicTypes DEF Idle, Thread, PCs
  <2>2. \E r \in {Idle, go, show} : thread' = [thread EXCEPT ![t] = r]
    BY <1>4 DEF Announce, Finish, Present, Goto, IInv, TypeOK
  <2>3. thread' \in [Threads -> Thread] /\ Over'
    BY <2>1, <2>2, ThreadMoves, BasicTypes DEF OverPCs
  <2>4. UNCHANGED <<clientVars, link, queue>> /\ ~NotYet(t)
    BY <1>4 DEF Announce, NotYet
  <2>5. LoggedOnIsKeptAlive'
    BY <2>2, <2>4, StillAlive DEF clientVars, IInv, TypeOK
  <2>6. TypeOK' /\ Ending' /\ OwnEnd
    BY <2>3, <2>4 DEF IInv, TypeOK, Ending, OwnEnd, clientVars
  <2>7. QED
    BY <2>3, <2>5, <2>6 DEF IInv
<1>5. CASE ConnectFails(t)
  <2> DEFINE clears == [Idle EXCEPT !.pc = "clear", !.conn = thread[t].conn]
  <2>1. /\ state' = "error"
        /\ UNCHANGED <<conn, events, activeSteamID, reauthCredentials, lastWelcome,
                       heartbeat, link, queue>>
        /\ \/ thread' = [thread EXCEPT ![t] = Idle]
           \/ thread[t].pc = "handshake" /\ thread' = [thread EXCEPT ![t] = clears]
    BY <1>5 DEF ConnectFails, Finish, GiveUp
  <2>2. clears \in Thread /\ clears.conn = thread[t].conn
    BY <1>1, BasicTypes DEF Idle, Thread, PCs
  <2>3. thread[t].pc = "handshake" => thread[t].conn # NoConn
    BY DEF IInv, Over, OverPCs
  <2>4. thread' \in [Threads -> Thread] /\ Over'
    BY <2>1, <2>2, <2>3, ThreadMoves, BasicTypes DEF OverPCs
  <2>5. TypeOK' /\ Ending' /\ OwnEnd /\ LoggedOnIsKeptAlive'
    BY <2>1, <2>4 DEF IInv, TypeOK, Ending, OwnEnd, LoggedOnIsKeptAlive, States
  <2>6. QED
    BY <2>4, <2>5 DEF IInv
<1>6. CASE ClearConn(t)
  <2>1. thread[t].conn # NoConn /\ clearConn(t) /\ ~NotYet(t)
    BY <1>6 DEF ClearConn, IInv, Over, OverPCs, NotYet
  <2>2. /\ thread' = [thread EXCEPT ![t] = Idle]
        /\ UNCHANGED <<events, state, activeSteamID, reauthCredentials, lastWelcome,
                       heartbeat, queue>>
    BY <1>6 DEF ClearConn, Finish
  <2>3. thread' \in [Threads -> Thread] /\ Over'
    BY <2>2, ThreadMoves, BasicTypes DEF OverPCs
  <2>4. conn' \in Queues /\ link' \in [Conns -> Link] /\ Ending' /\ OwnEnd
    BY <2>1, FailKeeps
  <2>5. LoggedOnIsKeptAlive'
    BY <2>1, <2>2, StillAlive DEF clearConn, IInv, TypeOK
  <2>6. TypeOK'
    BY <2>2, <2>3, <2>4 DEF IInv, TypeOK
  <2>7. QED
    BY <2>3, <2>4, <2>5, <2>6 DEF IInv
<1>7. QED
  BY <1>2, <1>3, <1>4, <1>5, <1>6
-----------------------------------------------------------------------------
(* logOn.                                                                  *)
LEMMA LogOnSendKeeps ==
    ASSUME IInv, NEW t \in Threads, LogOnSend(t) PROVE IInv' /\ OwnEnd
<1>1. thread[t] \in Thread /\ conn \in Queues /\ events \in Queues
  BY DEF IInv, TypeOK
<1>2. /\ UNCHANGED <<clientVars, queue>>
      /\ thread[t].pc = "logOn"
  BY DEF LogOnSend
<1>3. thread' \in [Threads -> Thread] /\ Over' /\ link' \in [Conns -> Link] /\ Ending'
  <2>1. CASE conn = NoConn
    BY <2>1, ThreadMoves, BasicTypes DEF LogOnSend, Finish, IInv, TypeOK, Ending, OverPCs
  <2>2. CASE conn # NoConn
    <3> DEFINE r == [thread[t] EXCEPT !.pc = "awaitLogOn", !.conn = conn,
                                      !.queue = events]
               l == [link[conn] EXCEPT !.logOn = thread[t].account]
    <3>1. r \in Thread /\ r.conn # NoConn
      BY <1>1, <2>2 DEF Thread, PCs
    <3>2. thread' = [thread EXCEPT ![t] = r] /\ link' = [link EXCEPT ![conn] = l]
      BY <1>1, <2>2, BasicTypes DEF LogOnSend, IInv, TypeOK
    <3>3. link[conn] \in Link /\ conn \in Conns
      BY <1>1, <2>2, BasicTypes DEF IInv, TypeOK
    <3>4. l \in Link /\ (l.ending => l.ended)
      BY <1>1, <3>3 DEF Link, Thread, IInv, Ending
    <3>5. thread' \in [Threads -> Thread] /\ Over'
      BY <3>1, <3>2, ThreadMoves
    <3>6. link' \in [Conns -> Link] /\ Ending'
      BY <3>2, <3>3, <3>4, LinkChanges
    <3>7. QED
      BY <3>5, <3>6
  <2>3. QED
    BY <2>1, <2>2
<1>4. \A u \in Threads : NotYet(u) => thread'[u] = thread[u]
  BY <1>2 DEF LogOnSend, Finish, IInv, TypeOK, NotYet
<1>5. TypeOK' /\ OwnEnd /\ LoggedOnIsKeptAlive'
  BY <1>2, <1>3, <1>4, StillAlive DEF IInv, TypeOK, OwnEnd, clientVars
<1>6. QED
  BY <1>3, <1>5 DEF IInv

(* The three sections of a logon that is accepted.                          *)
LEMMA LogOnAcceptedKeeps ==
    ASSUME IInv, NEW t \in Threads, LogOnAccepted(t) PROVE IInv' /\ OwnEnd
<1> DEFINE answer == Head(queue[thread[t].queue]).account
           r == [Idle EXCEPT !.pc = "activate", !.account = thread[t].account,
                             !.answer = answer]
<1>1. queue' \in [Queues -> Seq(Event)] /\ answer \in SteamIDs
  BY ReadsKeeps DEF LogOnAccepted, IInv
<1>2. r \in Thread /\ r.pc = "activate"
  BY <1>1, BasicTypes DEF IInv, TypeOK, Idle, Thread, PCs
<1>3. /\ thread' = [thread EXCEPT ![t] = r] /\ state' = "logged_on"
      /\ UNCHANGED <<conn, events, activeSteamID, reauthCredentials, lastWelcome,
                     heartbeat, link>>
  BY DEF LogOnAccepted
<1>4. thread' \in [Threads -> Thread] /\ Over'
  BY <1>2, <1>3, ThreadMoves DEF OverPCs
<1>5. thread'[t].pc = "activate"
  BY <1>2, <1>3 DEF IInv, TypeOK
<1>6. TypeOK' /\ Ending' /\ OwnEnd
  BY <1>1, <1>3, <1>4 DEF IInv, TypeOK, Ending, OwnEnd, States
<1>7. LoggedOnIsKeptAlive'
  BY <1>5 DEF LoggedOnIsKeptAlive
<1>8. QED
  BY <1>4, <1>6, <1>7 DEF IInv

LEMMA activateKeeps ==
    ASSUME IInv, NEW t \in Threads, activateAuthenticatedAccount(t)
    PROVE  IInv' /\ OwnEnd
<1> DEFINE r == [Idle EXCEPT !.pc = "remember", !.account = thread[t].account]
<1>1. r \in Thread /\ r.pc = "remember" /\ thread[t].answer \in SteamIDs
  BY BasicTypes DEF IInv, TypeOK, Idle, Thread, PCs
<1>2. /\ thread' = [thread EXCEPT ![t] = r]
      /\ activeSteamID' = thread[t].answer /\ lastWelcome' = NoAccount
      /\ UNCHANGED <<conn, events, state, reauthCredentials, heartbeat, link, queue>>
  BY DEF activateAuthenticatedAccount
<1>3. thread' \in [Threads -> Thread] /\ Over'
  BY <1>1, <1>2, ThreadMoves DEF OverPCs
<1>4. thread'[t].pc = "remember"
  BY <1>1, <1>2 DEF IInv, TypeOK
<1>5. TypeOK' /\ Ending' /\ OwnEnd
  BY <1>1, <1>2, <1>3 DEF IInv, TypeOK, Ending, OwnEnd, SteamIDs
<1>6. LoggedOnIsKeptAlive'
  BY <1>4 DEF LoggedOnIsKeptAlive
<1>7. QED
  BY <1>3, <1>5, <1>6 DEF IInv

LEMMA rememberKeeps ==
    ASSUME IInv, NEW t \in Threads, rememberAuthenticatedSession(t)
    PROVE  IInv' /\ OwnEnd
<1> DEFINE r == [Idle EXCEPT !.pc = "loggedOn"]
<1>1. r \in Thread /\ r.pc = "loggedOn" /\ thread[t].account \in SteamIDs
  BY BasicTypes DEF IInv, TypeOK, Idle, Thread, PCs
<1>2. /\ thread' = [thread EXCEPT ![t] = r]
      /\ reauthCredentials' = thread[t].account
      /\ heartbeat' = [on |-> TRUE, conn |-> conn]
      /\ UNCHANGED <<conn, events, state, activeSteamID, lastWelcome, link, queue>>
  BY DEF rememberAuthenticatedSession
<1>3. thread' \in [Threads -> Thread] /\ Over'
  BY <1>1, <1>2, ThreadMoves DEF OverPCs
<1>4. heartbeat' \in [on : BOOLEAN, conn : Queues]
  BY <1>2 DEF IInv, TypeOK
<1>5. TypeOK' /\ Ending' /\ OwnEnd
  BY <1>1, <1>2, <1>3, <1>4 DEF IInv, TypeOK, Ending, OwnEnd
<1>6. LoggedOnIsKeptAlive'
  BY <1>2 DEF LoggedOnIsKeptAlive
<1>7. QED
  BY <1>3, <1>5, <1>6 DEF IInv

LEMMA LogOnEndsKeeps ==
    ASSUME IInv, NEW t \in Threads,
           LogOnFails(t) \/ LogOnNeedsGuard(t) \/ LogOnElsewhere(t)
    PROVE  IInv' /\ OwnEnd
<1> DEFINE clears == [Idle EXCEPT !.pc = "clear", !.conn = thread[t].conn]
           moves  == [thread[t] EXCEPT !.pc = "moveOn", !.queue = 0]
<1>1. queue' \in [Queues -> Seq(Event)]
  BY ReadsKeeps DEF LogOnFails, LogOnNeedsGuard, LogOnElsewhere, IInv, TypeOK
<1>2. thread[t].pc = "awaitLogOn" /\ thread[t].conn # NoConn /\ thread[t] \in Thread
  BY DEF LogOnFails, LogOnNeedsGuard, LogOnElsewhere, IInv, TypeOK, Over, OverPCs
<1>3. UNCHANGED <<conn, events, activeSteamID, reauthCredentials, lastWelcome, heartbeat,
                  link>>
  BY DEF LogOnFails, LogOnNeedsGuard, LogOnElsewhere, clientVars
<1>4. \E r \in {Idle, clears, moves} : thread' = [thread EXCEPT ![t] = r]
  BY DEF LogOnFails, LogOnNeedsGuard, LogOnElsewhere, Finish, GiveUp, IInv, TypeOK
<1>5. thread' \in [Threads -> Thread] /\ Over'
  <2>1. {Idle, clears, moves} \subseteq Thread
    BY <1>2, BasicTypes DEF Idle, Thread, PCs
  <2>2. clears.conn = thread[t].conn /\ moves.conn = thread[t].conn
    BY <1>2, BasicTypes DEF Idle, Thread
  <2>3. QED
    BY <1>2, <1>4, <2>1, <2>2, ThreadMoves, BasicTypes DEF OverPCs
<1>6. state' \in States /\ (state' = state \/ state' # "logged_on")
  BY DEF LogOnFails, LogOnNeedsGuard, LogOnElsewhere, clientVars, IInv, TypeOK, States
<1>7. LoggedOnIsKeptAlive'
  <2>1. CASE state' # "logged_on"
    BY <2>1 DEF LoggedOnIsKeptAlive
  <2>2. CASE state' = state
    BY <1>2, <1>3, <1>4, <2>2, StillAlive DEF NotYet, IInv, TypeOK
  <2>3. QED
    BY <1>6, <2>1, <2>2
<1>8. TypeOK' /\ Ending' /\ OwnEnd
  BY <1>1, <1>3, <1>5, <1>6 DEF IInv, TypeOK, Ending, OwnEnd
<1>9. QED
  BY <1>5, <1>7, <1>8 DEF IInv

LEMMA MoveOnKeeps ==
    ASSUME IInv, NEW t \in Threads, MoveOn(t) PROVE IInv' /\ OwnEnd
<1> DEFINE r == [thread[t] EXCEPT !.pc = "connect", !.conn = NoConn]
<1>1. thread[t].conn # NoConn /\ clearConn(t) /\ ~NotYet(t)
  BY DEF MoveOn, IInv, Over, OverPCs, NotYet
<1>2. /\ thread' = [thread EXCEPT ![t] = r]
      /\ UNCHANGED <<events, state, activeSteamID, reauthCredentials, lastWelcome,
                     heartbeat, queue>>
  BY DEF MoveOn, IInv, TypeOK
<1>3. r \in Thread /\ r.pc = "connect"
  BY BasicTypes DEF IInv, TypeOK, Thread, PCs
<1>4. thread' \in [Threads -> Thread] /\ Over'
  BY <1>2, <1>3, ThreadMoves DEF OverPCs
<1>5. conn' \in Queues /\ link' \in [Conns -> Link] /\ Ending' /\ OwnEnd
  BY <1>1, FailKeeps
<1>6. LoggedOnIsKeptAlive'
  BY <1>1, <1>2, StillAlive DEF clearConn, IInv, TypeOK
<1>7. TypeOK'
  BY <1>2, <1>4, <1>5 DEF IInv, TypeOK
<1>8. QED
  BY <1>4, <1>5, <1>6, <1>7 DEF IInv
-----------------------------------------------------------------------------
(* Requests.  None of their own steps touches the connection or the state.  *)
LEMMA ensureSteamSessionKeeps ==
    ASSUME IInv, NEW t \in Threads, ensureSteamSession(t), ~NotYet(t)
    PROVE  IInv' /\ OwnEnd
<1> DEFINE go == [Idle EXCEPT !.pc = "presence"]
           log == [Idle EXCEPT !.pc = "connect", !.account = reauthCredentials]
<1>1. go \in Thread /\ log \in Thread /\ go.pc = "presence" /\ log.pc = "connect"
  BY BasicTypes DEF IInv, TypeOK, Thread, PCs, Idle
<1>2. UNCHANGED <<clientVars, link, queue>>
  BY DEF ensureSteamSession
<1>3. \E r \in {go, Idle, log} : thread' = [thread EXCEPT ![t] = r]
  BY DEF ensureSteamSession, Present, Finish, IInv, TypeOK
<1>4. thread' \in [Threads -> Thread] /\ Over'
  BY <1>1, <1>3, ThreadMoves, BasicTypes DEF OverPCs
<1>5. \A u \in Threads : NotYet(u) => thread'[u] = thread[u]
  BY <1>3 DEF IInv, TypeOK
<1>6. TypeOK' /\ Ending' /\ OwnEnd /\ LoggedOnIsKeptAlive'
  BY <1>2, <1>4, <1>5, StillAlive DEF IInv, TypeOK, Ending, OwnEnd, clientVars
<1>7. QED
  BY <1>4, <1>6 DEF IInv

LEMMA RequestStepKeeps ==
    ASSUME IInv, NEW t \in Threads,
           \/ sendGamesPlayed(t) \/ SendHello(t) \/ HelloRetry(t)
           \/ WelcomeRead(t) \/ RequestEnds(t) \/ Skip(t)
    PROVE  IInv' /\ OwnEnd
<1>1. thread[t] \in Thread /\ events \in Queues /\ conn \in Queues
  BY DEF IInv, TypeOK
<1>2. /\ UNCHANGED <<conn, events, state, activeSteamID, reauthCredentials, heartbeat>>
      /\ ~NotYet(t)
  BY DEF sendGamesPlayed, SendHello, HelloRetry, WelcomeRead, RequestEnds, Skip,
         clientVars, NotYet
<1>3. queue' \in [Queues -> Seq(Event)]
  BY ReadsKeeps
     DEF sendGamesPlayed, SendHello, HelloRetry, WelcomeRead, RequestEnds, Skip, IInv,
         TypeOK
<1>4. lastWelcome' \in SteamIDs
  BY ReadsKeeps
     DEF sendGamesPlayed, SendHello, HelloRetry, WelcomeRead, RequestEnds, Skip, IInv,
         TypeOK, clientVars
<1>5. link' \in [Conns -> Link] /\ Ending'
  <2>1. CASE UNCHANGED link
    BY <2>1 DEF IInv, TypeOK, Ending
  <2>2. CASE conn # NoConn /\ link' = [link EXCEPT ![conn].hello = TRUE]
    <3> DEFINE l == [link[conn] EXCEPT !.hello = TRUE]
    <3>1. conn \in Conns /\ link[conn] \in Link
      BY <1>1, <2>2, BasicTypes DEF IInv, TypeOK
    <3>2. l \in Link /\ (l.ending => l.ended)
      BY <3>1 DEF Link, IInv, Ending
    <3>3. link' = [link EXCEPT ![conn] = l]
      BY <2>2, <3>1 DEF IInv, TypeOK
    <3>4. QED
      BY <3>1, <3>2, <3>3, LinkChanges
  <2>3. QED
    BY <2>1, <2>2
       DEF sendGamesPlayed, SendHello, HelloRetry, WelcomeRead, RequestEnds, Skip
<1>6. thread' \in [Threads -> Thread] /\ Over'
  <2> DEFINE stays   == [thread[t] EXCEPT !.queue = events]
             hello   == [thread[t] EXCEPT !.pc = "hello"]
             await   == [thread[t] EXCEPT !.pc = "awaitWelcome", !.queue = events]
             settles == [thread[t] EXCEPT !.pc = "settle", !.queue = events]
  <2>1. /\ {stays, hello, await, settles} \subseteq Thread
        /\ stays.pc = thread[t].pc /\ stays.conn = thread[t].conn
        /\ hello.pc = "hello" /\ await.pc = "awaitWelcome" /\ settles.pc = "settle"
    BY <1>1 DEF Thread, PCs
  <2>2. PICK r \in {Idle, stays, hello, await, settles} : thread' = [thread EXCEPT ![t] = r]
    BY DEF sendGamesPlayed, SendHello, HelloRetry, WelcomeRead, RequestEnds, Skip, Finish,
           Goto, IInv, TypeOK
  <2>3. stays.pc \in OverPCs => stays.conn # NoConn
    BY <2>1 DEF IInv, Over
  <2>4. /\ r \in Thread
        /\ r.pc \in OverPCs => r.conn # NoConn
    <3> HIDE DEF stays, hello, await, settles
    <3>1. QED
      BY <2>1, <2>3, BasicTypes DEF OverPCs
  <2>5. QED
    BY <2>2, <2>4, ThreadMoves
<1>7. \A u \in Threads : NotYet(u) => thread'[u] = thread[u]
  BY <1>2 DEF sendGamesPlayed, SendHello, HelloRetry, WelcomeRead, RequestEnds, Skip,
              Finish, Goto, IInv, TypeOK
<1>8. OwnEnd /\ LoggedOnIsKeptAlive'
  BY <1>2, <1>7, StillAlive DEF OwnEnd
<1>9. QED
  BY <1>2, <1>3, <1>4, <1>5, <1>6, <1>8 DEF IInv, TypeOK
-----------------------------------------------------------------------------
(* Close, the heartbeat, the end of a session, and Steam.                   *)
LEMMA CloseKeeps ==
    ASSUME IInv, Close \/ HeartbeatEnds PROVE IInv' /\ OwnEnd
<1>1. CASE Close
  BY <1>1, BasicTypes
     DEF Close, NoLiveState, IInv, TypeOK, Over, Ending, OwnEnd, LoggedOnIsKeptAlive,
         States, SteamIDs
<1>2. CASE HeartbeatEnds
  BY <1>2, BasicTypes
     DEF HeartbeatEnds, IInv, TypeOK, Over, Ending, OwnEnd, LoggedOnIsKeptAlive
<1>3. QED
  BY <1>1, <1>2

LEMMA SessionEndedKeeps ==
    ASSUME IInv, NEW c \in Conns, SessionEnded(c) PROVE IInv' /\ OwnEnd
<1> DEFINE l == [link[c] EXCEPT !.ending = FALSE]
<1>1. link[c] \in Link /\ link[c].ended
  BY DEF SessionEnded, IInv, TypeOK, Ending
<1>2. l \in Link /\ ~l.ending /\ l.ended
  BY <1>1 DEF Link
<1>3. link' = [link EXCEPT ![c] = l] /\ UNCHANGED <<events, reauthCredentials, queue, thread>>
  BY DEF SessionEnded, IInv, TypeOK
<1>4. link' \in [Conns -> Link] /\ Ending' /\ link'[c].ended
  BY <1>2, <1>3, LinkChanges DEF IInv, TypeOK
<1>5. CASE conn = c
  <2>1. /\ conn' = NoConn /\ activeSteamID' = NoAccount /\ lastWelcome' = NoAccount
        /\ heartbeat' = [on |-> FALSE, conn |-> NoConn] /\ state' = "session_lost"
    BY <1>5 DEF SessionEnded, NoLiveState
  <2>2. heartbeat' \in [on : BOOLEAN, conn : Queues] /\ conn' \in Queues
    BY <2>1, BasicTypes
  <2>3. state' \in States /\ activeSteamID' \in SteamIDs /\ lastWelcome' \in SteamIDs
    BY <2>1 DEF States, SteamIDs
  <2>4. TypeOK'
    BY <1>3, <1>4, <2>2, <2>3 DEF IInv, TypeOK
  <2>5. Over' /\ OwnEnd /\ LoggedOnIsKeptAlive'
    BY <1>3, <1>4, <1>5, <2>1 DEF IInv, Over, OwnEnd, LoggedOnIsKeptAlive
  <2>6. QED
    BY <1>4, <2>4, <2>5 DEF IInv
<1>6. CASE conn # c
  BY <1>3, <1>4, <1>6
     DEF SessionEnded, IInv, TypeOK, Over, OwnEnd, LoggedOnIsKeptAlive
<1>7. QED
  BY <1>5, <1>6

LEMMA SteamKeeps ==
    ASSUME IInv, NEW c \in Conns, Steam(c) PROVE IInv' /\ OwnEnd
<1>1. link[c] \in Link /\ link[c].queue \in Queues /\ UNCHANGED <<clientVars, thread>>
  BY DEF Steam, SteamAnswersLogOn, SteamWelcomes, SteamUpdates, SteamLogsOff,
         ConnectionLost, IInv, TypeOK, Link
<1>2. link' \in [Conns -> Link] /\ Ending'
  <2>1. ASSUME NEW l \in Link, link' = [link EXCEPT ![c] = l], l.ending => l.ended
        PROVE  link' \in [Conns -> Link] /\ Ending'
    BY <2>1, LinkChanges
  <2>2. CASE SteamAnswersLogOn(c)
    <3>1. PICK a \in {link[c].logOn, NoAccount} :
             link' = [link EXCEPT ![c].logOn = NoAccount, ![c].session = a]
      BY <2>2 DEF SteamAnswersLogOn
    <3> DEFINE l == [link[c] EXCEPT !.logOn = NoAccount, !.session = a]
    <3>2. l \in Link /\ l.ending = link[c].ending /\ l.ended = link[c].ended
      BY <1>1 DEF Link, SteamIDs
    <3>3. link' = [link EXCEPT ![c] = l]
      BY <3>1 DEF IInv, TypeOK
    <3>4. l.ending => l.ended
      BY <3>2 DEF IInv, Ending
    <3>5. QED
      BY <2>1, <3>2, <3>3, <3>4
  <2>3. CASE SteamWelcomes(c)
    <3> DEFINE l == [link[c] EXCEPT !.hello = FALSE]
    <3>1. l \in Link /\ (l.ending => l.ended)
      BY <1>1 DEF Link, IInv, Ending
    <3>2. link' = [link EXCEPT ![c] = l]
      BY <2>3 DEF SteamWelcomes, IInv, TypeOK
    <3>3. QED
      BY <2>1, <3>1, <3>2
  <2>4. CASE SteamUpdates(c)
    BY <2>4 DEF SteamUpdates, IInv, TypeOK, Ending
  <2>5. CASE SteamLogsOff(c)
    <3> DEFINE l == [NoLink EXCEPT !.queue = link[c].queue, !.ending = TRUE,
                                   !.ended = TRUE]
    <3>1. l \in Link /\ l.ended
      BY <1>1, BasicTypes DEF Link, NoLink
    <3>2. link' = [link EXCEPT ![c] = l]
      BY <2>5 DEF SteamLogsOff
    <3>3. QED
      BY <2>1, <3>1, <3>2
  <2>6. CASE ConnectionLost(c)
    <3> DEFINE l == [link[c] EXCEPT !.open = FALSE, !.session = NoAccount,
                                    !.logOn = NoAccount, !.hello = FALSE]
    <3>1. l \in Link /\ (l.ending => l.ended)
      BY <1>1 DEF Link, SteamIDs, IInv, Ending
    <3>2. link' = [link EXCEPT ![c] = l]
      BY <2>6 DEF ConnectionLost, IInv, TypeOK
    <3>3. QED
      BY <2>1, <3>1, <3>2
  <2>7. QED
    BY <2>2, <2>3, <2>4, <2>5, <2>6 DEF Steam
<1>3. queue' \in [Queues -> Seq(Event)]
  <2>1. CASE \E e \in Event : Put(link[c].queue, e)
    BY <1>1, <2>1, PutKeeps DEF IInv
  <2>2. CASE UNCHANGED queue
    BY <2>2 DEF IInv, TypeOK
  <2>3. /\ \A a \in SteamIDs : [type |-> "logon_response", account |-> a] \in Event
        /\ \A a \in SteamIDs : [type |-> "welcome", account |-> a] \in Event
        /\ [type |-> "logged_off", account |-> NoAccount] \in Event /\ Other \in Event
    BY BasicTypes DEF Event, SteamIDs
  <2>4. link[c].logOn \in SteamIDs /\ link[c].session \in SteamIDs /\ NoAccount \in SteamIDs
    BY <1>1 DEF Link, SteamIDs
  <2>5. QED
    BY <2>1, <2>2, <2>3, <2>4
       DEF Steam, SteamAnswersLogOn, SteamWelcomes, SteamUpdates, SteamLogsOff,
           ConnectionLost
<1>4. QED
  BY <1>1, <1>2, <1>3
     DEF IInv, TypeOK, Over, OwnEnd, LoggedOnIsKeptAlive, clientVars
-----------------------------------------------------------------------------
LEMMA NextKeeps == ASSUME IInv, Next PROVE IInv' /\ OwnEnd
<1>1. ASSUME NEW t \in SignIns, NEW a \in Accounts, SignIn(t, a)
      PROVE  IInv' /\ OwnEnd
  BY <1>1, EnterConnectKeeps DEF SignIn, Threads, SteamIDs, NotYet
<1>2. ASSUME NEW t \in Requests, Request(t) PROVE IInv' /\ OwnEnd
  BY <1>2, ensureSteamSessionKeeps DEF Request, Threads, NotYet
<1>3. ASSUME NEW t \in Threads, Step(t) PROVE IInv' /\ OwnEnd
  <2>1. CASE ConnectStart(t)
    BY <2>1, EnterConnectKeeps DEF ConnectStart, IInv, TypeOK, Thread, NotYet
  <2>2. CASE Dial(t) \/ ConnectReady(t) \/ Announce(t) \/ ConnectFails(t) \/ ClearConn(t)
    BY <2>2, ConnectStepKeeps
  <2>3. CASE LogOnStep(t)
    BY <2>3, LogOnSendKeeps, LogOnAcceptedKeeps, activateKeeps, rememberKeeps,
       LogOnEndsKeeps, MoveOnKeeps DEF LogOnStep
  <2>4. CASE HelloRecovers(t)
    BY <2>4, ensureSteamSessionKeeps DEF HelloRecovers, NotYet
  <2>5. CASE (RequestStep(t) \/ Skip(t)) /\ ~HelloRecovers(t)
    BY <2>5, RequestStepKeeps DEF RequestStep
  <2>6. QED
    BY <1>3, <2>1, <2>2, <2>3, <2>4, <2>5 DEF Step, ConnectStep
<1>4. QED
  BY <1>1, <1>2, <1>3, SteamKeeps, SessionEndedKeeps, CloseKeeps DEF Next, Threads

LEMMA StutterKeeps == ASSUME IInv, UNCHANGED vars PROVE IInv' /\ OwnEnd
  BY DEF vars, clientVars, IInv, TypeOK, Over, Ending, LoggedOnIsKeptAlive, OwnEnd

(* The inductive invariant: beside the property, that a thread that dials,  *)
(* shakes hands or logs on does so over a connection, and that a connection *)
(* with an end to report was ended.                                         *)
THEOREM Invariance == Spec => []IInv
<1>1. Init => IInv
  BY InitIInv
<1>2. IInv /\ [Next]_vars => IInv'
  BY NextKeeps, StutterKeeps
<1>3. QED
  BY <1>1, <1>2, PTL DEF Spec

(* Every variable of the client keeps its type.                             *)
THEOREM TypeCorrect == Spec => []TypeOK
  BY Invariance, PTL DEF IInv

(* A client that says it is logged on keeps that session alive.             *)
THEOREM LoggedOnIsAlive == Spec => []LoggedOnIsKeptAlive
  BY Invariance, PTL DEF IInv

(* Only its own end makes the client forget a connection.                   *)
THEOREM EndsAreOwn == Spec => OwnEndsOnly
<1>1. IInv /\ [Next]_vars =>
        [conn # NoConn /\ conn' = NoConn => state' = "closed" \/ link'[conn].ended]_vars
  BY NextKeeps DEF OwnEnd
<1>2. QED
  BY <1>1, Invariance, PTL DEF Spec, OwnEndsOnly
=============================================================================
