------------------------------ MODULE TradeUps ------------------------------
(***************************************************************************)
(* The trade-ups of CS2 from their request to the last word on their       *)
(* receipt (service_tradeups.go).  submitTradeUp sends the craft, starts a *)
(* goroutine and appends the receipt; reconcileCS2TradeUp, the goroutine,  *)
(* waits for a craft answer, fetches the inventory, compares and rewrites  *)
(* the receipt.                                                            *)
(*                                                                         *)
(* A craft answer does not say which craft it answers, and in the event    *)
(* channel of a connection it goes to whoever reads it first: the          *)
(* goroutine of any trade-up, or a wait for something else, which drops    *)
(* it.  A connection outlives a sign-out, a wait goes on from one          *)
(* connection of its client to the next, and inventories are fetched from  *)
(* whichever account is connected by then.                                 *)
(*                                                                         *)
(* Abstractions.  A trade-up whose check or send fails has its receipt at  *)
(* once and is left out; check and send are one step here (CS2Inventory    *)
(* has them apart, with the inventory that is stored), and so is a sign-in.*)
(* The snapshot that inputs are chosen from may be old or of the account   *)
(* before: they are items there have been, of Selections.  How many they   *)
(* are is left out.                                                        *)
(***************************************************************************)
EXTENDS Naturals, FiniteSets

CONSTANTS
    Ops,         \* operation ids; the item a craft gives is named by its id
    Items,       \* items the accounts start with
    Accounts,    \* Steam accounts
    Belongings,  \* what each account has at the start
    Selections,  \* what a request may select as its inputs
    NoAccount,   \* of a connection that was not made yet
    NoOp,        \* no craft answer
    MaxConns     \* bound on the connections made

ASSUME TradeUpAssumption ==
    /\ Ops \cap Items = {}
    /\ Belongings \in [Accounts -> SUBSET Items]
    /\ Selections \subseteq (SUBSET (Items \cup Ops)) \ {{}}
    /\ NoAccount \notin Accounts
    /\ NoOp \notin Ops
    /\ MaxConns \in Nat

VARIABLES
    operations,  \* Service.operations, with what each request asked for
    run,         \* the executions of reconcileCS2TradeUp
    connected,   \* steamConnected(Service.connection)
    conn,        \* the number of connections made, and the newest of them
    client,      \* the client of each connection, by its first connection
    account,     \* the account each connection is logged on as
    answers,     \* craft answers in each connection's channel, by operation
    requests,    \* crafts on their way to the coordinator, and over which
    holdings,    \* the coordinator's inventory of each account
    applied      \* the crafts the coordinator did

sessionVars     == <<connected, conn, client, account>>
coordinatorVars == <<requests, holdings, applied>>
vars == <<operations, run, sessionVars, answers, coordinatorVars>>

Conns    == 1..MaxConns
NoConn   == 0
Goods    == Items \cup Ops
SteamIDs == Accounts \cup {NoAccount}

(* "sent" is a trade-up whose receipt is not appended yet.                  *)
States  == {"none", "sent", "awaiting_gc_confirmation", "reconciling_inventory",
            "completed"}
Receipt == [state : States, owner : SteamIDs, inputs : SUBSET Goods]
NotMade == [state |-> "none", owner |-> NoAccount, inputs |-> {}]

Run   == [pc : {"none", "start", "waiting", "fetch", "compare", "over"},
          conn : Conns \cup {NoConn},  \* whose channel it waits on first
          answer : Ops \cup {NoOp},  \* the craft whose answer it took
          after : SUBSET Goods]      \* the inventory it fetched
NoRun == [pc |-> "none", conn |-> NoConn, answer |-> NoOp, after |-> {}]

TypeOK ==
    /\ operations \in [Ops -> Receipt]
    /\ run \in [Ops -> Run]
    /\ connected \in BOOLEAN
    /\ conn \in Conns \cup {NoConn}
    /\ client \in [Conns -> Conns \cup {NoConn}]
    /\ account \in [Conns -> SteamIDs]
    /\ answers \in [Conns -> SUBSET Ops]
    /\ requests \subseteq Ops \X Conns
    /\ holdings \in [Accounts -> SUBSET Goods]
    /\ applied \subseteq Ops

Init ==
    /\ operations = [o \in Ops |-> NotMade]
    /\ run = [o \in Ops |-> NoRun]
    /\ connected = FALSE
    /\ conn = NoConn
    /\ client = [c \in Conns |-> NoConn]
    /\ account = [c \in Conns |-> NoAccount]
    /\ answers = [c \in Conns |-> {}]
    /\ requests = {}
    /\ holdings = Belongings
    /\ applied = {}
-----------------------------------------------------------------------------
(* Signing in and out.  A sign-in makes a connection with a channel of its  *)
(* own: on a new client while an account is connected or after a sign-in    *)
(* that failed, on the client there is after a sign-out, which closes no    *)
(* connection (GCClient).                                                   *)
SignIn(a) ==
    /\ conn < MaxConns
    /\ connected' = TRUE
    /\ conn' = conn + 1
    /\ \/ client' = [client EXCEPT ![conn'] = conn']
       \/ /\ ~connected /\ conn # NoConn
          /\ client' = [client EXCEPT ![conn'] = client[conn]]
    /\ account' = [account EXCEPT ![conn'] = a]
    /\ UNCHANGED <<operations, run, answers, coordinatorVars>>

SignOut ==
    /\ connected
    /\ connected' = FALSE
    /\ UNCHANGED <<operations, run, conn, client, account, answers,
                   coordinatorVars>>
-----------------------------------------------------------------------------
(* submitTradeUp, and addEvent, which appends the receipt after the craft   *)
(* was sent and the goroutine started.                                      *)
submitTradeUp(o, inputs) ==
    /\ operations[o].state = "none"
    /\ inputs \subseteq Items \cup applied
    /\ connected
    /\ operations' = [operations EXCEPT ![o] =
          [state |-> "sent", owner |-> account[conn], inputs |-> inputs]]
    /\ requests' = requests \cup {<<o, conn>>}
    /\ run' = [run EXCEPT ![o].pc = "start"]
    /\ UNCHANGED <<sessionVars, answers, holdings, applied>>

addEvent(o) ==
    /\ operations[o].state = "sent"
    /\ operations' = [operations EXCEPT ![o].state = "awaiting_gc_confirmation"]
    /\ UNCHANGED <<run, sessionVars, answers, coordinatorVars>>
-----------------------------------------------------------------------------
(* reconcileCS2TradeUp.                                                     *)

(* updateTradeUpReceipt finds a receipt only once it has been appended.     *)
updateTradeUpReceipt(o, state) ==
    operations' = IF operations[o].state = "sent" THEN operations
                  ELSE [operations EXCEPT ![o].state = state]

(* Its locals go when an execution ends; the answer is kept for the         *)
(* properties.                                                              *)
Over(o) == [NoRun EXCEPT !.pc = "over", !.answer = run[o].answer]

StartWait(o) ==
    /\ run[o].pc = "start"
    /\ run' = [run EXCEPT ![o].pc = "waiting", ![o].conn = conn]
    /\ UNCHANGED <<operations, sessionVars, answers, coordinatorVars>>

(* Its wait goes on in the channel of a later connection of the client.     *)
Channels(o) ==
    {c \in Conns : c >= run[o].conn /\ client[c] = client[run[o].conn]}

(* Mutant: the answer stays in the channel.                                 *)
TakeAnswerLeavesIt(o) ==
    /\ run[o].pc = "waiting"
    /\ \E c \in Channels(o) : \E q \in answers[c] :
          run' = [run EXCEPT ![o] = [NoRun EXCEPT !.pc = "fetch", !.answer = q]]
    /\ UNCHANGED <<operations, sessionVars, answers, coordinatorVars>>

(* WaitForCS2CraftResponse takes any craft answer there.                    *)
TakeAnswer(o) ==
    /\ run[o].pc = "waiting"
    /\ \E c \in Channels(o) : \E q \in answers[c] :
          /\ run' = [run EXCEPT ![o] = [NoRun EXCEPT !.pc = "fetch", !.answer = q]]
          /\ answers' = [answers EXCEPT ![c] = @ \ {q}]
    /\ UNCHANGED <<operations, sessionVars, coordinatorVars>>

(* Mutant: an execution that gave up records a state nobody knows.          *)
GiveUpUnknownState(o) ==
    /\ run[o].pc \in {"waiting", "fetch"}
    /\ updateTradeUpReceipt(o, "timed_out")
    /\ run' = [run EXCEPT ![o] = Over(o)]
    /\ UNCHANGED <<sessionVars, answers, coordinatorVars>>

(* Mutant: an execution that gave up leaves the receipt alone.              *)
GiveUpSilently(o) ==
    /\ run[o].pc \in {"waiting", "fetch"}
    /\ run' = [run EXCEPT ![o] = Over(o)]
    /\ UNCHANGED <<operations, sessionVars, answers, coordinatorVars>>

(* No answer within 45 seconds, or the inventory cannot be fetched.         *)
GiveUp(o) ==
    /\ run[o].pc \in {"waiting", "fetch"}
    /\ updateTradeUpReceipt(o, "reconciling_inventory")
    /\ run' = [run EXCEPT ![o] = Over(o)]
    /\ UNCHANGED <<sessionVars, answers, coordinatorVars>>

(* fetchInventory asks the client that is current by now.                   *)
Fetch(o) ==
    /\ run[o].pc = "fetch"
    /\ connected
    /\ run' = [run EXCEPT ![o].pc = "compare", ![o].after = holdings[account[conn]]]
    /\ UNCHANGED <<operations, sessionVars, answers, coordinatorVars>>

(* What an answer says was gained: nothing if the craft was refused.        *)
GainedItemIDs(q) == {q} \cap applied

(* Mutant: inputs that are still there do not count.                        *)
MatchesWithInputsLeft(o) ==
    /\ GainedItemIDs(run[o].answer) # {}
    /\ GainedItemIDs(run[o].answer) \subseteq run[o].after

(* Every input is missing and every gained item, of at least one, present.  *)
Matches(o) ==
    /\ GainedItemIDs(run[o].answer) # {}
    /\ GainedItemIDs(run[o].answer) \subseteq run[o].after
    /\ operations[o].inputs \cap run[o].after = {}

Compare(o) ==
    /\ run[o].pc = "compare"
    /\ updateTradeUpReceipt(o, IF Matches(o) THEN "completed"
                                             ELSE "reconciling_inventory")
    /\ run' = [run EXCEPT ![o] = Over(o)]
    /\ UNCHANGED <<sessionVars, answers, coordinatorVars>>

ReconcileTradeUp(o) == StartWait(o) \/ TakeAnswer(o) \/ GiveUp(o) \/ Fetch(o) \/ Compare(o)

(* Every other wait on the channel, of a refresh, a redemption, a container,*)
(* drops what it does not wait for.                                         *)
OtherWaitReads(c) ==
    /\ \E q \in answers[c] : answers' = [answers EXCEPT ![c] = @ \ {q}]
    /\ UNCHANGED <<operations, run, sessionVars, coordinatorVars>>
-----------------------------------------------------------------------------
(* The coordinator.  It does a craft if the account has all the inputs, and *)
(* answers over the connection, if that still lasts.                        *)
Craft(o, c) ==
    LET owner == operations[o].owner
    IN /\ <<o, c>> \in requests
       /\ requests' = requests \ {<<o, c>>}
       /\ IF operations[o].inputs \subseteq holdings[owner]
          THEN /\ holdings' = [holdings EXCEPT ![owner] =
                                 (@ \ operations[o].inputs) \cup {o}]
               /\ applied' = applied \cup {o}
          ELSE UNCHANGED <<holdings, applied>>
       /\ answers' \in {answers, [answers EXCEPT ![c] = @ \cup {o}]}
       /\ UNCHANGED <<operations, run, sessionVars>>
-----------------------------------------------------------------------------
TradeUp(o) ==
    \/ \E inputs \in Selections : submitTradeUp(o, inputs)
    \/ addEvent(o) \/ ReconcileTradeUp(o)
    \/ \E c \in Conns : Craft(o, c)

Next == \/ \E o \in Ops : TradeUp(o)
        \/ \E c \in Conns : OtherWaitReads(c)
        \/ \E a \in Accounts : SignIn(a)
        \/ SignOut

Spec == Init /\ [][Next]_vars

(* Goroutines run, and the wait for an answer ends after 45 seconds.  The    *)
(* fetch does not: it is a RequestInventory, which waits for requestMu and   *)
(* for room in the client's event queue whatever its context says, and may   *)
(* never return (RequestReturns of GCClient, which fails).  Nothing is       *)
(* assumed of the coordinator or of the user.                                *)
TimedStep(o) == run[o].pc # "fetch" /\ ReconcileTradeUp(o)
Fairness     == \A o \in Ops : WF_vars(addEvent(o)) /\ WF_vars(TimedStep(o))

FairSpec == Spec /\ Fairness
-----------------------------------------------------------------------------
Completed(o) == operations[o].state = "completed"

(* A completed trade-up is backed by a craft that was done: the one whose   *)
(* answer it took.  None of its inputs is left to the account of that craft *)
(* (service_tradeups.go:155), whatever was crafted and whoever signed in    *)
(* since.  That it was its own craft does not follow (TradeUpWasDone).      *)
CompletedIsBacked ==
    \A o \in Ops : Completed(o) =>
       LET q == run[o].answer
       IN /\ q \in applied
          /\ operations[o].inputs \cap holdings[operations[q].owner] = {}

(* No two trade-ups are settled by the same answer: what one reports as     *)
(* gained no other reports.                                                 *)
AnswerTakenOnce ==
    \A o, other \in Ops : run[o].answer = run[other].answer
                          => o = other \/ run[o].answer = NoOp

(* Confirmed by the coordinator of its own account, a trade-up of that      *)
(* account's items has lost each of them to a trade-up that was done: its   *)
(* own, unless others used the same items.                                  *)
InputsWereSpent ==
    \A o \in Ops : Completed(o) =>
       \/ operations[run[o].answer].owner # operations[o].owner
       \/ \A i \in operations[o].inputs \cap Belongings[operations[o].owner] :
             \E q \in applied : /\ i \in operations[q].inputs
                                /\ operations[q].owner = operations[o].owner

(* The receipts implement CraftLedger: each is settled at most once, in one *)
(* of two ways, and completed only on a craft that was done and settles no  *)
(* other, whoever took whose answer over which connection                   *)
(* (service_tradeups.go:191, updateTradeUpReceipt).                         *)
receipts  == [o \in Ops |-> operations[o].state]
evidences == [o \in Ops |-> IF Completed(o) THEN run[o].answer ELSE NoOp]

Ledger == INSTANCE CraftLedger WITH
    receipt <- receipts, evidence <- evidences, done <- applied,
    Crafts <- Ops, NoCraft <- NoOp

ImplementsCraftLedger == Ledger!Spec

(* A receipt that is listed as awaiting confirmation before its goroutine   *)
(* ended does not stay so, unless the fetch is stuck in the transport for   *)
(* good: no answer, a stolen answer, a sign-out and a failed fetch all end  *)
(* in a state.                                                              *)
Awaits(o) == /\ operations[o].state = "awaiting_gc_confirmation"
             /\ run[o].pc # "over"
ReceiptSettles ==
    \A o \in Ops :
       \/ Awaits(o) ~> operations[o].state \in {"reconciling_inventory", "completed"}
       \/ <>[](run[o].pc = "fetch")

(* service_tradeups.go:160, "CS2 trade-up completed and inventory           *)
(* reconciled": the craft was done.  Known not to hold.                     *)
TradeUpWasDone == \A o \in Ops : Completed(o) => o \in applied

(* No receipt keeps awaiting confirmation when its goroutine is over, which *)
(* happens when the update came before the receipt was appended.  Known not *)
(* to hold.                                                                 *)
NoReceiptLost ==
    \A o \in Ops : run[o].pc = "over"
                   => operations[o].state # "awaiting_gc_confirmation"
=============================================================================
