--------------------------- MODULE TradeUpsProofs ---------------------------
(***************************************************************************)
(* The safety of trade-up receipts, for any number of trade-ups, accounts, *)
(* items and clients.  The inductive invariant follows an answer from its  *)
(* request to the execution that takes it, and an item to the craft that   *)
(* spends it.                                                              *)
(***************************************************************************)
EXTENDS TradeUps, TLAPS

Made(o) == operations[o].state # "none"

(* A trade-up that was never requested has left no trace; one that was      *)
(* belongs to an account and names items there have been.                   *)
Requested ==
    \A o \in Ops :
       /\ Made(o) => /\ operations[o].owner \in Accounts
                     /\ operations[o].inputs \subseteq Items \cup applied
       /\ ~Made(o) => /\ run[o] = NoRun
                      /\ o \notin applied
                      /\ \A c \in Conns : <<o, c>> \notin requests /\ o \notin answers[c]
                      /\ \A r \in Ops : run[r].answer # o
       /\ Completed(o) => run[o].pc = "over"

(* An answer is still to come, in one channel, or taken by one execution.   *)
AnswerInOnePlace ==
    /\ \A o \in Ops : \A c, d \in Conns :
          /\ <<o, c>> \in requests => /\ o \notin applied
                                      /\ o \notin answers[d]
                                      /\ <<o, d>> \in requests => c = d
          /\ o \in answers[c] /\ o \in answers[d] => c = d
    /\ \A o, r \in Ops : \A c \in Conns :
          <<o, c>> \in requests \/ o \in answers[c] => run[r].answer # o

(* What a craft gave is in the inventory of its account only.               *)
ProductsInPlace ==
    \A a \in Accounts : \A q \in Ops \cap holdings[a] :
       q \in applied /\ operations[q].owner = a

(* What an account lost, it lost to a craft of its own.                     *)
SpentByCraft ==
    \A a \in Accounts : \A i \in Belongings[a] \ holdings[a] :
       \E q \in applied : i \in operations[q].inputs /\ operations[q].owner = a

(* A fetched inventory was some account's, and what it lacked of the inputs *)
(* that account lacks still.                                                *)
FetchedFrom(o, a) ==
    /\ \A q \in Ops \cap run[o].after : q \in applied /\ operations[q].owner = a
    /\ (operations[o].inputs \ run[o].after) \cap holdings[a] = {}
FetchedFromOne ==
    \A o \in Ops : run[o].pc = "compare" => \E a \in Accounts : FetchedFrom(o, a)

(* Who is connected is so over the newest connection.                       *)
SessionInv == connected => conn \in Conns /\ account[conn] \in Accounts

IInv == /\ TypeOK
        /\ SessionInv
        /\ Requested
        /\ AnswerInOnePlace
        /\ AnswerTakenOnce
        /\ ProductsInPlace
        /\ SpentByCraft
        /\ FetchedFromOne
        /\ CompletedIsBacked

(* What CompletedIsBacked says of one trade-up.                             *)
Backed(o) ==
    LET q == run[o].answer
    IN  q \in applied /\ operations[o].inputs \cap holdings[operations[q].owner] = {}

LEMMA BasicTypes ==
    /\ NotMade \in Receipt /\ NotMade.state = "none"
    /\ NoRun \in Run /\ NoRun.pc = "none" /\ NoRun.answer = NoOp /\ NoOp \notin Ops
    /\ NoAccount \in SteamIDs /\ NoConn \notin Conns /\ Accounts \subseteq SteamIDs
    /\ \A x \in SteamIDs : x # NoAccount => x \in Accounts
    /\ Belongings \in [Accounts -> SUBSET Goods] /\ Ops \cap Items = {}
    /\ \A x \in Accounts : Belongings[x] \cap Ops = {}
  BY TradeUpAssumption
     DEF NotMade, Receipt, States, NoRun, Run, NoConn, Conns, SteamIDs, Goods

LEMMA InitIInv == Init => IInv
<1> SUFFICES ASSUME Init PROVE IInv
  OBVIOUS
<1>1. TypeOK /\ SessionInv
  BY BasicTypes DEF Init, TypeOK, SessionInv
<1>2. Requested /\ AnswerInOnePlace /\ AnswerTakenOnce /\ CompletedIsBacked
  BY BasicTypes DEF Init, Requested, AnswerInOnePlace, AnswerTakenOnce,
                    CompletedIsBacked, Made, Completed
<1>3. ProductsInPlace /\ SpentByCraft /\ FetchedFromOne
  BY BasicTypes DEF Init, ProductsInPlace, SpentByCraft, FetchedFromOne
<1>4. QED
  BY <1>1, <1>2, <1>3 DEF IInv
-----------------------------------------------------------------------------
(* Of a completed trade-up, the inputs of its account's are spent.          *)
LEMMA BackedInputsWereSpent == IInv => InputsWereSpent
<1> SUFFICES ASSUME IInv, NEW o \in Ops, Completed(o),
                    operations[run[o].answer].owner = operations[o].owner,
                    NEW x \in operations[o].inputs \cap Belongings[operations[o].owner]
             PROVE  \E q \in applied : /\ x \in operations[q].inputs
                                       /\ operations[q].owner = operations[o].owner
  BY DEF InputsWereSpent
<1>1. Made(o) /\ operations[o].owner \in Accounts
  BY DEF Completed, Made, IInv, Requested
<1>2. x \notin holdings[operations[o].owner]
  BY DEF IInv, CompletedIsBacked
<1>3. QED
  BY <1>1, <1>2 DEF IInv, SpentByCraft
-----------------------------------------------------------------------------
(* Steps that leave the trade-ups alone, but for answers that are lost.     *)
LEMMA SessionKeeps ==
    ASSUME IInv, UNCHANGED <<operations, run, coordinatorVars>>,
           (TypeOK /\ SessionInv)',
           \A c \in Conns : answers'[c] \subseteq answers[c]
    PROVE  IInv'
<1> USE DEF coordinatorVars
<1>1. Requested'
  BY DEF IInv, Requested, Made, Completed
<1>2. AnswerInOnePlace'
  BY DEF IInv, AnswerInOnePlace
<1>3. AnswerTakenOnce' /\ ProductsInPlace' /\ SpentByCraft' /\ CompletedIsBacked'
  BY DEF IInv, AnswerTakenOnce, ProductsInPlace, SpentByCraft, CompletedIsBacked, Completed
<1>4. FetchedFromOne'
  BY DEF IInv, FetchedFromOne, FetchedFrom
<1>5. QED
  BY <1>1, <1>2, <1>3, <1>4 DEF IInv

LEMMA SignInKeeps == ASSUME IInv, NEW a \in Accounts, SignIn(a) PROVE IInv'
<1>1. /\ conn' = conn + 1 /\ conn' \in Conns /\ conn' # NoConn
      /\ account' = [account EXCEPT ![conn'] = a]
      /\ UNCHANGED <<operations, run, answers, coordinatorVars>>
  BY TradeUpAssumption DEF SignIn, IInv, TypeOK, Conns, NoConn
<1>2. client' \in [Conns -> Conns \cup {NoConn}]
  <2>1. CASE client' = [client EXCEPT ![conn'] = conn']
    BY <1>1, <2>1 DEF IInv, TypeOK
  <2>2. CASE conn # NoConn /\ client' = [client EXCEPT ![conn'] = client[conn]]
    BY <1>1, <2>2 DEF IInv, TypeOK
  <2>3. QED
    BY <2>1, <2>2 DEF SignIn
<1>3. (TypeOK /\ SessionInv)'
  BY <1>1, <1>2, BasicTypes
     DEF SignIn, IInv, TypeOK, SessionInv, coordinatorVars
<1>4. QED
  BY <1>1, <1>3, SessionKeeps

LEMMA SignOutKeeps == ASSUME IInv, SignOut PROVE IInv'
<1>1. (TypeOK /\ SessionInv)'
  BY DEF SignOut, IInv, TypeOK, SessionInv, coordinatorVars
<1>2. QED
  BY <1>1, SessionKeeps DEF SignOut

LEMMA OtherWaitKeeps == ASSUME IInv, NEW c \in Conns, OtherWaitReads(c) PROVE IInv'
<1>1. /\ answers' \in [Conns -> SUBSET Ops]
      /\ \A d \in Conns : answers'[d] \subseteq answers[d]
  BY DEF OtherWaitReads, IInv, TypeOK
<1>2. (TypeOK /\ SessionInv)'
  BY <1>1 DEF OtherWaitReads, IInv, TypeOK, SessionInv, sessionVars, coordinatorVars
<1>3. QED
  BY <1>1, <1>2, SessionKeeps DEF OtherWaitReads
-----------------------------------------------------------------------------
(* Requesting a trade-up.                                                   *)
LEMMA SubmitKeeps ==
    ASSUME IInv, NEW o \in Ops, NEW inputs \in Selections, submitTradeUp(o, inputs)
    PROVE  IInv'
<1> DEFINE a == account[conn]
           new == [state |-> "sent", owner |-> a, inputs |-> inputs]
<1>1. conn \in Conns /\ a \in Accounts /\ inputs \subseteq Goods /\ inputs \subseteq Items \cup applied
  BY BasicTypes, TradeUpAssumption DEF submitTradeUp, IInv, SessionInv, Goods
<1>2. /\ operations' = [operations EXCEPT ![o] = new]
      /\ requests' = requests \cup {<<o, conn>>}
      /\ run' = [run EXCEPT ![o].pc = "start"]
      /\ UNCHANGED <<connected, conn, client, account, answers, holdings, applied>>
  BY DEF submitTradeUp, sessionVars
<1>3. /\ ~Made(o) /\ run[o] = NoRun /\ o \notin applied
      /\ \A c \in Conns : <<o, c>> \notin requests /\ o \notin answers[c]
      /\ \A r \in Ops : run[r].answer # o
  BY DEF submitTradeUp, Made, IInv, Requested
<1>4. new \in Receipt
  BY <1>1, BasicTypes DEF Receipt, States
<1>5. /\ run'[o] = [NoRun EXCEPT !.pc = "start"] /\ run'[o] \in Run
      /\ run'[o].answer = NoOp /\ run'[o].pc = "start"
      /\ \A r \in Ops : run'[r].answer = run[r].answer
  BY <1>2, <1>3, BasicTypes DEF IInv, TypeOK, Run, NoRun
<1>6. /\ operations'[o] = new
      /\ \A p \in Ops \ {o} : operations'[p] = operations[p] /\ run'[p] = run[p]
  BY <1>2 DEF IInv, TypeOK
<1>7. (TypeOK /\ SessionInv)'
  BY <1>1, <1>2, <1>4, <1>5 DEF IInv, TypeOK, SessionInv
<1>8. Requested'
  BY <1>1, <1>2, <1>3, <1>5, <1>6 DEF IInv, Requested, Made, Completed
<1>9. AnswerInOnePlace' /\ AnswerTakenOnce'
  BY <1>2, <1>3, <1>5 DEF IInv, TypeOK, AnswerInOnePlace, AnswerTakenOnce
<1>10. ProductsInPlace' /\ SpentByCraft'
  BY <1>2, <1>3, <1>6 DEF IInv, TypeOK, ProductsInPlace, SpentByCraft
<1>11. FetchedFromOne'
  BY <1>2, <1>3, <1>5, <1>6 DEF IInv, TypeOK, FetchedFromOne, FetchedFrom
<1>12. CompletedIsBacked'
  BY <1>2, <1>3, <1>5, <1>6 DEF IInv, TypeOK, CompletedIsBacked, Completed
<1>13. QED
  BY <1>7, <1>8, <1>9, <1>10, <1>11, <1>12 DEF IInv
-----------------------------------------------------------------------------
(* A step of an execution, or of the receipt, that takes no answer.         *)
LEMMA RunMoves ==
    ASSUME IInv, NEW o \in Ops, Made(o), NEW r \in Run, NEW s \in States \ {"none"},
           operations' = [operations EXCEPT ![o].state = s],
           run' = [run EXCEPT ![o] = r],
           UNCHANGED <<sessionVars, answers, coordinatorVars>>,
           r.answer = run[o].answer,
           r.pc = "compare" =>
              \E a \in Accounts :
                 /\ \A q \in Ops \cap r.after : q \in applied /\ operations[q].owner = a
                 /\ (operations[o].inputs \ r.after) \cap holdings[a] = {},
           s = "completed" => r.pc = "over" /\ Backed(o)
    PROVE  IInv'
<1> USE DEF sessionVars, coordinatorVars
<1>1. /\ operations'[o].state = s /\ run'[o] = r
      /\ \A p \in Ops : /\ operations'[p].owner = operations[p].owner
                        /\ operations'[p].inputs = operations[p].inputs
                        /\ run'[p].answer = run[p].answer
      /\ \A p \in Ops \ {o} : operations'[p] = operations[p] /\ run'[p] = run[p]
  BY DEF IInv, TypeOK, Receipt
<1>2. (TypeOK /\ SessionInv)'
  BY DEF IInv, TypeOK, SessionInv, Receipt
<1>3. Requested'
  BY <1>1 DEF IInv, Requested, Made, Completed
<1>4. AnswerInOnePlace' /\ AnswerTakenOnce'
  BY <1>1 DEF IInv, AnswerInOnePlace, AnswerTakenOnce
<1>5. ProductsInPlace' /\ SpentByCraft'
  BY <1>1 DEF IInv, TypeOK, ProductsInPlace, SpentByCraft
<1>6. FetchedFromOne'
  BY <1>1 DEF IInv, FetchedFromOne, FetchedFrom
<1>7. CompletedIsBacked'
  <2> SUFFICES ASSUME NEW p \in Ops, Completed(p)' PROVE Backed(p)'
    BY DEF CompletedIsBacked, Backed
  <2>1. Backed(p)
    BY <1>1 DEF IInv, CompletedIsBacked, Completed, Backed
  <2>2. QED
    BY <1>1, <2>1 DEF IInv, TypeOK, Backed
<1>8. QED
  BY <1>2, <1>3, <1>4, <1>5, <1>6, <1>7 DEF IInv

(* updateTradeUpReceipt writes a state or finds no receipt.                 *)
LEMMA UpdateWrites ==
    ASSUME IInv, NEW o \in Ops, Made(o), NEW state, updateTradeUpReceipt(o, state)
    PROVE  operations' = [operations EXCEPT ![o].state =
                             IF @ = "sent" THEN "sent" ELSE state]
  BY DEF updateTradeUpReceipt, IInv, TypeOK, Receipt

LEMMA MadeIfRunning == ASSUME IInv, NEW o \in Ops, run[o].pc # "none" PROVE Made(o)
  BY BasicTypes DEF IInv, Requested

LEMMA addEventKeeps == ASSUME IInv, NEW o \in Ops, addEvent(o) PROVE IInv'
<1>1. Made(o) /\ run[o] \in Run /\ operations[o].state = "sent"
  BY DEF addEvent, Made, IInv, TypeOK
<1>2. "awaiting_gc_confirmation" \in States \ {"none"}
  BY DEF States
<1>3. run' = [run EXCEPT ![o] = run[o]]
  BY DEF addEvent, IInv, TypeOK
<1>4. run[o].pc = "compare" => \E a \in Accounts : FetchedFrom(o, a)
  BY DEF IInv, FetchedFromOne
<1>5. QED
  BY <1>1, <1>2, <1>3, <1>4, RunMoves DEF addEvent, FetchedFrom

LEMMA StartWaitKeeps == ASSUME IInv, NEW o \in Ops, StartWait(o) PROVE IInv'
<1> DEFINE r == [run[o] EXCEPT !.pc = "waiting", !.conn = conn]
<1>1. /\ run[o] \in Run /\ r \in Run /\ r.answer = run[o].answer /\ r.pc = "waiting"
      /\ run' = [run EXCEPT ![o] = r]
  BY DEF StartWait, IInv, TypeOK, Run
<1>2. /\ Made(o) /\ operations[o].state \in States \ {"none"}
      /\ operations[o].state # "completed"
  BY MadeIfRunning DEF StartWait, Made, IInv, TypeOK, Receipt, Requested, Completed
<1>3. operations' = [operations EXCEPT ![o].state = operations[o].state]
  BY DEF StartWait, IInv, TypeOK, Receipt
<1>4. QED
  BY <1>1, <1>2, <1>3, RunMoves DEF StartWait

LEMMA OverTypes ==
    ASSUME IInv, NEW o \in Ops
    PROVE  Over(o) \in Run /\ Over(o).pc = "over" /\ Over(o).answer = run[o].answer
  BY DEF Over, NoRun, Run, NoConn, IInv, TypeOK

LEMMA GiveUpKeeps == ASSUME IInv, NEW o \in Ops, GiveUp(o) PROVE IInv'
<1> DEFINE s == IF operations[o].state = "sent" THEN "sent" ELSE "reconciling_inventory"
<1>1. Made(o)
  BY MadeIfRunning DEF GiveUp
<1>2. s \in States \ {"none"} /\ s # "completed"
  BY DEF States
<1>3. operations' = [operations EXCEPT ![o].state = s]
  BY <1>1, UpdateWrites DEF GiveUp, IInv, TypeOK
<1>4. QED
  BY <1>1, <1>2, <1>3, OverTypes, RunMoves DEF GiveUp

LEMMA FetchKeeps == ASSUME IInv, NEW o \in Ops, Fetch(o) PROVE IInv'
<1> DEFINE a == account[conn]
           r == [run[o] EXCEPT !.pc = "compare", !.after = holdings[a]]
<1>1. a \in Accounts /\ holdings[a] \subseteq Goods
  BY DEF Fetch, IInv, TypeOK, SessionInv
<1>2. /\ r \in Run /\ r.answer = run[o].answer /\ r.after = holdings[a]
      /\ r.pc = "compare"
      /\ run' = [run EXCEPT ![o] = r]
  BY <1>1 DEF Fetch, IInv, TypeOK, Run
<1>3. /\ Made(o) /\ operations[o].state \in States \ {"none"}
      /\ operations[o].state # "completed"
  BY MadeIfRunning DEF Fetch, Made, IInv, TypeOK, Receipt, Requested, Completed
<1>4. operations' = [operations EXCEPT ![o].state = operations[o].state]
  BY DEF Fetch, IInv, TypeOK, Receipt
<1>5. /\ \A q \in Ops \cap r.after : q \in applied /\ operations[q].owner = a
      /\ (operations[o].inputs \ r.after) \cap holdings[a] = {}
  BY <1>1, <1>2 DEF IInv, ProductsInPlace
<1>6. UNCHANGED <<sessionVars, answers, coordinatorVars>>
  BY DEF Fetch
<1>7. QED
  <2> HIDE DEF r
  <2> QED
    BY <1>1, <1>2, <1>3, <1>4, <1>5, <1>6, RunMoves

(* The craft of the answer is the fetched account's, for there its product  *)
(* is, and what that account lacked of the inputs it lacks still.           *)
LEMMA MatchIsBacked ==
    ASSUME IInv, NEW o \in Ops, run[o].pc = "compare", Matches(o) PROVE Backed(o)
<1>1. PICK a \in Accounts : FetchedFrom(o, a)
  BY DEF IInv, FetchedFromOne
<1>2. run[o].answer \in applied \cap run[o].after
  BY DEF Matches, GainedItemIDs
<1>3. operations[run[o].answer].owner = a
  BY <1>1, <1>2 DEF FetchedFrom, IInv, TypeOK
<1>4. QED
  BY <1>1, <1>2, <1>3 DEF Matches, FetchedFrom, Backed

LEMMA CompareKeeps == ASSUME IInv, NEW o \in Ops, Compare(o) PROVE IInv'
<1> DEFINE s == IF operations[o].state = "sent" THEN "sent"
                ELSE IF Matches(o) THEN "completed" ELSE "reconciling_inventory"
<1>1. Made(o)
  BY MadeIfRunning DEF Compare
<1>2. s \in States \ {"none"}
  BY DEF States
<1>3. operations' = [operations EXCEPT ![o].state = s]
  <2>1. PICK state : state = IF Matches(o) THEN "completed" ELSE "reconciling_inventory"
    OBVIOUS
  <2>2. updateTradeUpReceipt(o, state)
    BY <2>1 DEF Compare
  <2>3. operations' = [operations EXCEPT ![o].state =
                          IF operations[o].state = "sent" THEN "sent" ELSE state]
    BY <1>1, <2>2, UpdateWrites DEF IInv, TypeOK
  <2>4. QED
    BY <2>1, <2>3
<1>4. Matches(o) => Backed(o)
  BY MatchIsBacked DEF Compare
<1>5. s = "completed" => Over(o).pc = "over" /\ Backed(o)
  BY <1>4, OverTypes
<1>6. /\ Over(o) \in Run /\ Over(o).pc # "compare"
      /\ Over(o).answer = run[o].answer
  BY OverTypes
<1>7. run' = [run EXCEPT ![o] = Over(o)] /\ UNCHANGED <<sessionVars, answers, coordinatorVars>>
  BY DEF Compare
<1>8. QED
  BY <1>1, <1>2, <1>3, <1>5, <1>6, <1>7, RunMoves
-----------------------------------------------------------------------------
(* The answer leaves the channel for the execution that takes it.           *)
LEMMA TakeAnswerKeeps == ASSUME IInv, NEW o \in Ops, TakeAnswer(o) PROVE IInv'
<1>1. PICK c \in Conns : \E q \in answers[c] :
         /\ run' = [run EXCEPT ![o] = [NoRun EXCEPT !.pc = "fetch", !.answer = q]]
         /\ answers' = [answers EXCEPT ![c] = @ \ {q}]
  BY DEF TakeAnswer, Channels
<1>2. PICK q \in answers[c] :
         /\ run' = [run EXCEPT ![o] = [NoRun EXCEPT !.pc = "fetch", !.answer = q]]
         /\ answers' = [answers EXCEPT ![c] = @ \ {q}]
  BY <1>1
<1> DEFINE r == [NoRun EXCEPT !.pc = "fetch", !.answer = q]
<1>3. q \in Ops
  BY DEF IInv, TypeOK
<1>4. UNCHANGED <<operations, connected, conn, client, account, requests, holdings, applied>>
  BY DEF TakeAnswer, sessionVars, coordinatorVars
<1>5. r \in Run /\ r.pc = "fetch" /\ r.answer = q /\ run' = [run EXCEPT ![o] = r]
  BY <1>2, <1>3 DEF Run, NoRun, NoConn
<1>6. /\ run'[o] = r /\ \A p \in Ops \ {o} : run'[p] = run[p]
      /\ answers'[c] = answers[c] \ {q}
      /\ \A d \in Conns \ {c} : answers'[d] = answers[d]
  BY <1>2, <1>3 DEF IInv, TypeOK
<1> HIDE DEF r
<1>7. Made(o) /\ ~Completed(o) /\ Made(q)
  <2>1. run[o].pc = "waiting"
    BY DEF TakeAnswer
  <2>2. q \in Ops /\ c \in Conns /\ q \in answers[c]
    BY <1>3
  <2>3. Made(o)
    BY <2>1, MadeIfRunning
  <2>4. ~Completed(o)
    BY <2>1 DEF IInv, Requested
  <2>5. Made(q)
    BY <2>2 DEF IInv, Requested
  <2>6. QED
    BY <2>3, <2>4, <2>5
<1>8. /\ \A p \in Ops : run[p].answer # q
      /\ \A d \in Conns : <<q, d>> \notin requests /\ (q \in answers[d] => d = c)
  BY <1>3 DEF IInv, AnswerInOnePlace
<1>9. (TypeOK /\ SessionInv)'
  BY <1>2, <1>3, <1>4, <1>5 DEF IInv, TypeOK, SessionInv
<1>10. Requested'
  BY <1>4, <1>5, <1>6, <1>7 DEF IInv, Requested, Made, Completed
<1>11. AnswerInOnePlace'
  BY <1>3, <1>4, <1>5, <1>6, <1>8 DEF IInv, AnswerInOnePlace
<1>12. AnswerTakenOnce'
  BY <1>5, <1>6, <1>8 DEF IInv, AnswerTakenOnce
<1>13. ProductsInPlace' /\ SpentByCraft'
  BY <1>4 DEF IInv, ProductsInPlace, SpentByCraft
<1>14. FetchedFromOne' /\ CompletedIsBacked'
  BY <1>4, <1>5, <1>6, <1>7 DEF IInv, FetchedFromOne, FetchedFrom, CompletedIsBacked,
                               Completed
<1>15. QED
  BY <1>9, <1>10, <1>11, <1>12, <1>13, <1>14 DEF IInv
-----------------------------------------------------------------------------
(* The coordinator's craft.                                                 *)
LEMMA CraftKeeps == ASSUME IInv, NEW o \in Ops, NEW c \in Conns, Craft(o, c) PROVE IInv'
<1> DEFINE a == operations[o].owner
           inputs == operations[o].inputs
<1>1. /\ <<o, c>> \in requests /\ requests' = requests \ {<<o, c>>}
      /\ answers' \in {answers, [answers EXCEPT ![c] = @ \cup {o}]}
      /\ UNCHANGED <<operations, run, connected, conn, client, account>>
  BY DEF Craft, sessionVars
<1>2. /\ Made(o) /\ a \in Accounts /\ inputs \subseteq Items \cup applied
      /\ o \notin applied /\ \A d \in Conns : o \notin answers[d]
      /\ \A d \in Conns : <<o, d>> \in requests => d = c
      /\ \A r \in Ops : run[r].answer # o
  BY <1>1 DEF IInv, Requested, AnswerInOnePlace
<1>3. \/ /\ inputs \subseteq holdings[a]
         /\ holdings' = [holdings EXCEPT ![a] = (@ \ inputs) \cup {o}]
         /\ applied' = applied \cup {o}
      \/ UNCHANGED <<holdings, applied>>
  BY DEF Craft
<1>4. /\ applied \subseteq applied' /\ applied' \subseteq applied \cup {o}
      /\ \A d \in Accounts \ {a} : holdings'[d] = holdings[d]
      /\ holdings'[a] \subseteq holdings[a] \cup {o}
      /\ holdings[a] \ holdings'[a] \subseteq inputs
      /\ holdings' # holdings => o \in applied'
      /\ holdings' \in [Accounts -> SUBSET Goods]
  BY <1>2, <1>3 DEF IInv, TypeOK, Goods
<1>5. \A d \in Conns : answers'[d] \subseteq IF d = c THEN answers[d] \cup {o} ELSE answers[d]
  BY <1>1 DEF IInv, TypeOK
<1>6. (TypeOK /\ SessionInv)'
  BY <1>1, <1>4 DEF IInv, TypeOK, SessionInv
<1>7. Requested'
  BY <1>1, <1>2, <1>4, <1>5 DEF IInv, Requested, Made, Completed
<1>8. AnswerInOnePlace'
  BY <1>1, <1>2, <1>4, <1>5 DEF IInv, AnswerInOnePlace
<1>9. AnswerTakenOnce'
  BY <1>1 DEF IInv, AnswerTakenOnce
<1>10. ProductsInPlace'
  BY <1>1, <1>2, <1>3, <1>4 DEF IInv, TypeOK, ProductsInPlace
<1>11. SpentByCraft'
  BY <1>1, <1>2, <1>4 DEF IInv, SpentByCraft
<1>12. ASSUME NEW p \in Ops, Made(p) PROVE o \notin operations[p].inputs
  BY <1>2, <1>12, BasicTypes DEF IInv, Requested
<1>13. FetchedFromOne'
  <2> SUFFICES ASSUME NEW p \in Ops, run[p].pc = "compare"
               PROVE  \E d \in Accounts : FetchedFrom(p, d)'
    BY <1>1 DEF FetchedFromOne
  <2>1. PICK d \in Accounts : FetchedFrom(p, d)
    BY DEF IInv, FetchedFromOne
  <2>2. o \notin operations[p].inputs
    BY <1>12, MadeIfRunning
  <2>3. holdings'[d] \subseteq holdings[d] \cup {o}
    BY <1>4
  <2>4. FetchedFrom(p, d)'
    BY <1>1, <1>4, <2>1, <2>2, <2>3 DEF FetchedFrom
  <2>5. QED
    BY <2>4
<1>14. CompletedIsBacked'
  <2> SUFFICES ASSUME NEW p \in Ops, Completed(p) PROVE Backed(p)'
    BY <1>1 DEF CompletedIsBacked, Completed, Backed
  <2> DEFINE q == run[p].answer
  <2>1. q \in applied /\ operations[p].inputs \cap holdings[operations[q].owner] = {}
    BY DEF IInv, CompletedIsBacked
  <2>2. q \in Ops /\ Made(q) /\ o \notin operations[p].inputs
    BY <1>12, <2>1 DEF Completed, Made, IInv, TypeOK, Requested
  <2>3. operations[q].owner \in Accounts
    BY <2>2 DEF IInv, Requested
  <2>4. holdings'[operations[q].owner] \subseteq holdings[operations[q].owner] \cup {o}
    BY <1>4, <2>3
  <2>5. QED
    BY <1>1, <1>4, <2>1, <2>2, <2>4 DEF Backed
<1>15. QED
  BY <1>6, <1>7, <1>8, <1>9, <1>10, <1>11, <1>13, <1>14 DEF IInv
-----------------------------------------------------------------------------
LEMMA NextKeepsIInv == IInv /\ [Next]_vars => IInv'
<1> SUFFICES ASSUME IInv, [Next]_vars PROVE IInv'
  OBVIOUS
<1>1. CASE \E o \in Ops : \E inputs \in Selections : submitTradeUp(o, inputs)
  BY <1>1, SubmitKeeps
<1>2. CASE \E o \in Ops : addEvent(o)
  BY <1>2, addEventKeeps
<1>3. CASE \E o \in Ops : ReconcileTradeUp(o)
  BY <1>3, StartWaitKeeps, TakeAnswerKeeps, GiveUpKeeps, FetchKeeps, CompareKeeps
     DEF ReconcileTradeUp
<1>4. CASE \E o \in Ops, c \in Conns : Craft(o, c)
  BY <1>4, CraftKeeps
<1>5. CASE \E c \in Conns : OtherWaitReads(c)
  BY <1>5, OtherWaitKeeps
<1>6. CASE SignOut \/ \E a \in Accounts : SignIn(a)
  BY <1>6, SignInKeeps, SignOutKeeps
<1>7. CASE UNCHANGED vars
  <2>1. (TypeOK /\ SessionInv)'
    BY <1>7 DEF vars, sessionVars, coordinatorVars, IInv, TypeOK, SessionInv
  <2>2. QED
    BY <1>7, <2>1, SessionKeeps DEF vars
<1>8. QED
  BY <1>1, <1>2, <1>3, <1>4, <1>5, <1>6, <1>7 DEF Next, TradeUp

THEOREM Invariance == Spec => []IInv
  BY InitIInv, NextKeepsIInv, PTL DEF Spec

(* Receipts, executions, clients and inventories keep their types.          *)
THEOREM TypeCorrect == Spec => []TypeOK
  BY Invariance, PTL DEF IInv

(* A completed trade-up is backed by a craft that was done, on an account   *)
(* that has none of its inputs (reconcileCS2TradeUp).                       *)
THEOREM CompletionIsBacked == Spec => []CompletedIsBacked
  BY Invariance, PTL DEF IInv

(* No craft answer settles two trade-ups (WaitForCS2CraftResponse).         *)
THEOREM AnswersAreTakenOnce == Spec => []AnswerTakenOnce
  BY Invariance, PTL DEF IInv

(* What a trade-up confirmed for its own account used of that account's is  *)
(* spent by trade-ups that were done (reconcileCS2TradeUp).                 *)
THEOREM InputsAreSpent == Spec => []InputsWereSpent
  BY Invariance, BackedInputsWereSpent, PTL
-----------------------------------------------------------------------------
(* The ledger.  An execution writes its receipt with its last step, so that *)
(* a receipt that is settled has no execution left that could rewrite it.   *)
Settled(o) == operations[o].state \in {"reconciling_inventory", "completed"}
SettledIsOver == \A o \in Ops : Settled(o) => run[o].pc = "over"

LedgerStep == [Ledger!Next]_(Ledger!ledgerVars)

(* What the executions do that write a receipt.                             *)
LEMMA OverWrites ==
    ASSUME IInv, SettledIsOver, NEW o \in Ops, GiveUp(o) \/ Compare(o)
    PROVE  /\ \/ operations' = operations /\ operations[o].state = "sent"
              \/ /\ operations[o].state = "awaiting_gc_confirmation"
                 /\ \/ operations' = [operations EXCEPT ![o].state = "reconciling_inventory"]
                    \/ /\ operations' = [operations EXCEPT ![o].state = "completed"]
                       /\ Backed(o)
           /\ run' = [run EXCEPT ![o] = Over(o)] /\ run[o].pc # "over" /\ UNCHANGED applied
<1>1. /\ run[o].pc \notin {"none", "over"} /\ UNCHANGED applied
      /\ run' = [run EXCEPT ![o] = Over(o)]
  BY DEF GiveUp, Compare, coordinatorVars
<1>2. operations[o].state \in {"sent", "awaiting_gc_confirmation"}
  BY <1>1, MadeIfRunning DEF Made, SettledIsOver, Settled, IInv, TypeOK, Receipt, States
<1>3. Compare(o) /\ Matches(o) => Backed(o)
  BY MatchIsBacked DEF Compare
<1>4. \/ updateTradeUpReceipt(o, "reconciling_inventory")
      \/ updateTradeUpReceipt(o, "completed") /\ Backed(o)
  BY <1>3 DEF GiveUp, Compare
<1>5. QED
  BY <1>1, <1>2, <1>4 DEF updateTradeUpReceipt

LEMMA StepSettledIsOver ==
    ASSUME IInv, SettledIsOver, [Next]_vars PROVE SettledIsOver'
<1>1. operations \in [Ops -> Receipt] /\ run \in [Ops -> Run]
  BY DEF IInv, TypeOK
<1>2. ASSUME NEW o \in Ops, GiveUp(o) \/ Compare(o) PROVE SettledIsOver'
  <2>1. /\ run'[o].pc = "over"
        /\ \A p \in Ops \ {o} : operations'[p] = operations[p] /\ run'[p] = run[p]
    BY <1>1, <1>2, OverWrites, OverTypes
  <2>2. QED
    BY <2>1 DEF SettledIsOver, Settled
<1>3. ASSUME NEW o \in Ops,
             (\E inputs \in Selections : submitTradeUp(o, inputs)) \/ addEvent(o)
      PROVE  SettledIsOver'
  <2>1. /\ operations'[o].state \in {"sent", "awaiting_gc_confirmation"}
        /\ \A p \in Ops \ {o} : operations'[p] = operations[p] /\ run'[p] = run[p]
    BY <1>1, <1>3 DEF submitTradeUp, addEvent, Receipt
  <2>2. QED
    BY <2>1 DEF SettledIsOver, Settled
<1>4. ASSUME NEW o \in Ops, StartWait(o) \/ TakeAnswer(o) \/ Fetch(o)
      PROVE  SettledIsOver'
  <2>1. /\ run[o].pc # "over" /\ UNCHANGED operations
        /\ \A p \in Ops \ {o} : run'[p] = run[p]
    BY <1>1, <1>4 DEF StartWait, TakeAnswer, Fetch
  <2>2. QED
    BY <2>1 DEF SettledIsOver, Settled
<1>5. CASE UNCHANGED <<operations, run>>
  BY <1>5 DEF SettledIsOver, Settled
<1>6. QED
  BY <1>2, <1>3, <1>4, <1>5 DEF Next, TradeUp, ReconcileTradeUp, Craft, OtherWaitReads,
     SignIn, SignOut, vars

(* A step that moves one receipt, seen in the ledger.                       *)
LEMMA ReceiptMoves ==
    ASSUME NEW o \in Ops, NEW s,
           operations'[o].state = s,
           \A p \in Ops \ {o} : operations'[p] = operations[p] /\ run'[p] = run[p]
    PROVE  /\ receipts' = [receipts EXCEPT ![o] = s]
           /\ receipts[o] = operations[o].state
           /\ evidences' = [evidences EXCEPT ![o] =
                               IF s = "completed" THEN run'[o].answer ELSE NoOp]
           /\ ~Completed(o) => evidences[o] = NoOp
BY DEF receipts, evidences, Completed

LEMMA SameLedger ==
    ASSUME UNCHANGED <<operations, applied>>,
           \A o \in Ops : Completed(o) => run'[o].answer = run[o].answer
    PROVE  LedgerStep
BY DEF receipts, evidences, Completed, LedgerStep, Ledger!ledgerVars

LEMMA OverLedger ==
    ASSUME IInv, SettledIsOver, NEW o \in Ops, GiveUp(o) \/ Compare(o)
    PROVE  LedgerStep
<1>1. operations \in [Ops -> Receipt] /\ run \in [Ops -> Run]
  BY DEF IInv, TypeOK
<1>2. /\ UNCHANGED applied /\ run[o].pc # "over" /\ ~Completed(o)
      /\ run'[o].answer = run[o].answer
      /\ \A p \in Ops \ {o} : run'[p] = run[p]
  BY <1>1, OverWrites, OverTypes DEF Completed
<1>3. CASE operations' = operations
  BY <1>2, <1>3, SameLedger
<1>4. CASE /\ operations[o].state = "awaiting_gc_confirmation"
           /\ operations' = [operations EXCEPT ![o].state = "reconciling_inventory"]
  <2>1. /\ operations'[o].state = "reconciling_inventory"
        /\ \A p \in Ops \ {o} : operations'[p] = operations[p]
    BY <1>1, <1>4 DEF Receipt
  <2>2. /\ receipts' = [receipts EXCEPT ![o] = "reconciling_inventory"]
        /\ receipts[o] = "awaiting_gc_confirmation"
        /\ evidences' = [evidences EXCEPT ![o] = NoOp] /\ evidences[o] = NoOp
    BY <1>2, <1>4, <2>1, ReceiptMoves
  <2>3. UNCHANGED evidences
    BY <2>2 DEF evidences
  <2>4. Ledger!Leave(o)
    BY <1>2, <2>2, <2>3 DEF Ledger!Leave, Ledger!Becomes
  <2>5. QED
    BY <2>4 DEF LedgerStep, Ledger!Next
<1>5. CASE /\ operations[o].state = "awaiting_gc_confirmation"
           /\ operations' = [operations EXCEPT ![o].state = "completed"]
           /\ Backed(o)
  <2> DEFINE q == run[o].answer
  <2>1. /\ operations'[o].state = "completed"
        /\ \A p \in Ops \ {o} : operations'[p] = operations[p]
    BY <1>1, <1>5 DEF Receipt
  <2>2. /\ receipts' = [receipts EXCEPT ![o] = "completed"]
        /\ receipts[o] = "awaiting_gc_confirmation"
        /\ evidences' = [evidences EXCEPT ![o] = q]
    BY <1>2, <1>5, <2>1, ReceiptMoves
  <2>3. q \in applied /\ q \in Ops /\ q # NoOp
    BY <1>5, TradeUpAssumption DEF Backed, IInv, TypeOK
  <2>4. ASSUME NEW other \in Ops PROVE evidences[other] # q
    BY <1>2, <2>3 DEF evidences, IInv, AnswerTakenOnce
  <2>5. Ledger!Complete(o, q)
    BY <1>2, <2>2, <2>3, <2>4 DEF Ledger!Complete, Ledger!Becomes
  <2>6. QED
    BY <2>3, <2>5 DEF LedgerStep, Ledger!Next
<1>6. QED
  BY <1>3, <1>4, <1>5, OverWrites

LEMMA AskLedger ==
    ASSUME IInv, NEW o \in Ops, NEW inputs \in Selections, submitTradeUp(o, inputs)
    PROVE  LedgerStep
<1>1. /\ operations[o].state = "none" /\ operations'[o].state = "sent"
      /\ \A p \in Ops \ {o} : operations'[p] = operations[p] /\ run'[p] = run[p]
      /\ UNCHANGED applied /\ ~Completed(o)
  BY DEF submitTradeUp, IInv, TypeOK, Completed
<1>2. /\ receipts' = [receipts EXCEPT ![o] = "sent"] /\ receipts[o] = "none"
      /\ evidences' = [evidences EXCEPT ![o] = NoOp] /\ evidences[o] = NoOp
  BY <1>1, ReceiptMoves
<1>3. UNCHANGED evidences
  BY <1>2 DEF evidences
<1>4. Ledger!Ask(o)
  BY <1>1, <1>2, <1>3 DEF Ledger!Ask, Ledger!Becomes
<1>5. QED
  BY <1>4 DEF LedgerStep, Ledger!Next

LEMMA ListLedger == ASSUME IInv, NEW o \in Ops, addEvent(o) PROVE LedgerStep
<1> DEFINE s == "awaiting_gc_confirmation"
<1>1. /\ operations[o].state = "sent" /\ operations'[o].state = s
      /\ \A p \in Ops \ {o} : operations'[p] = operations[p] /\ run'[p] = run[p]
      /\ UNCHANGED applied /\ ~Completed(o)
  BY DEF addEvent, IInv, TypeOK, Receipt, Completed, coordinatorVars
<1>2. /\ receipts' = [receipts EXCEPT ![o] = s] /\ receipts[o] = "sent"
      /\ evidences' = [evidences EXCEPT ![o] = NoOp] /\ evidences[o] = NoOp
  BY <1>1, ReceiptMoves
<1>3. UNCHANGED evidences
  BY <1>2 DEF evidences
<1>4. Ledger!List(o)
  BY <1>1, <1>2, <1>3 DEF Ledger!List, Ledger!Becomes
<1>5. QED
  BY <1>4 DEF LedgerStep, Ledger!Next

LEMMA DoLedger ==
    ASSUME IInv, NEW o \in Ops, NEW c \in Conns, Craft(o, c) PROVE LedgerStep
<1>1. /\ <<o, c>> \in requests /\ UNCHANGED <<operations, run>>
      /\ applied' = applied \cup {o} \/ UNCHANGED applied
  BY DEF Craft
<1>2. o \notin applied /\ Made(o)
  BY <1>1 DEF IInv, Requested, AnswerInOnePlace
<1>3. CASE UNCHANGED applied
  BY <1>1, <1>3, SameLedger
<1>4. CASE applied' = applied \cup {o}
  <2>1. UNCHANGED <<receipts, evidences>> /\ receipts[o] # "none"
    BY <1>1, <1>2 DEF receipts, evidences, Completed, Made
  <2>2. Ledger!Do(o)
    BY <1>2, <1>4, <2>1 DEF Ledger!Do
  <2>3. QED
    BY <2>2 DEF LedgerStep, Ledger!Next
<1>5. QED
  BY <1>1, <1>3, <1>4

LEMMA StepLedger ==
    ASSUME IInv, SettledIsOver, [Next]_vars PROVE LedgerStep
<1>1. ASSUME NEW o \in Ops, StartWait(o) \/ TakeAnswer(o) \/ Fetch(o) PROVE LedgerStep
  <2>1. run[o].pc # "over" /\ UNCHANGED <<operations, applied>>
    BY <1>1 DEF StartWait, TakeAnswer, Fetch, coordinatorVars
  <2>2. \A p \in Ops \ {o} : run'[p] = run[p]
    BY <1>1 DEF StartWait, TakeAnswer, Fetch, IInv, TypeOK
  <2>3. QED
    BY <2>1, <2>2, SameLedger DEF IInv, Requested
<1>2. CASE UNCHANGED <<operations, run, applied>>
  BY <1>2, SameLedger
<1>3. QED
  BY <1>1, <1>2, OverLedger, AskLedger, ListLedger, DoLedger
     DEF Next, TradeUp, ReconcileTradeUp, OtherWaitReads, SignIn, SignOut, vars,
         coordinatorVars

(* The receipts of trade-ups are settled once, and completed only on a      *)
(* craft that was done and settles no other, whatever answers are lost,     *)
(* taken by another execution or late (updateTradeUpReceipt).               *)
THEOREM ReceiptsImplementLedger == Spec => ImplementsCraftLedger
<1>1. Init => Ledger!Init /\ SettledIsOver
  BY DEF Init, Ledger!Init, receipts, evidences, Completed, NotMade, SettledIsOver, Settled
<1>2. IInv /\ SettledIsOver /\ [Next]_vars => SettledIsOver'
  BY StepSettledIsOver
<1>3. IInv /\ SettledIsOver /\ [Next]_vars => [Ledger!Next]_(Ledger!ledgerVars)
  BY StepLedger DEF LedgerStep
<1>4. QED
  BY <1>1, <1>2, <1>3, Invariance, PTL DEF Spec, ImplementsCraftLedger, Ledger!Spec
=============================================================================
