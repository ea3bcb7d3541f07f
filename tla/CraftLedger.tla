----------------------------- MODULE CraftLedger -----------------------------
(***************************************************************************)
(* What the receipts of trade-ups promise, with connections, answers,      *)
(* inventories and goroutines left out.  A craft that was asked for is     *)
(* done at most once.  A receipt that was listed is settled at most once,  *)
(* and the last word stands: it is completed on the evidence of a craft    *)
(* that was done, which settles no other receipt, or it is left to the     *)
(* inventory.                                                              *)
(***************************************************************************)
CONSTANTS
    Crafts,     \* operation ids
    NoCraft     \* no evidence

VARIABLES
    receipt,    \* of every operation: the state of its receipt
    evidence,   \* the craft on which a receipt was completed
    done        \* the crafts that were done

ledgerVars == <<receipt, evidence, done>>

Init ==
    /\ receipt = [o \in Crafts |-> "none"]
    /\ evidence = [o \in Crafts |-> NoCraft]
    /\ done = {}

Becomes(o, before, after) ==
    /\ receipt[o] = before
    /\ receipt' = [receipt EXCEPT ![o] = after]

Ask(o)  == Becomes(o, "none", "sent") /\ UNCHANGED <<evidence, done>>

List(o) == Becomes(o, "sent", "awaiting_gc_confirmation") /\ UNCHANGED <<evidence, done>>

Do(o) ==
    /\ receipt[o] # "none"
    /\ o \notin done
    /\ done' = done \cup {o}
    /\ UNCHANGED <<receipt, evidence>>

Complete(o, q) ==
    /\ Becomes(o, "awaiting_gc_confirmation", "completed")
    /\ q \in done
    /\ \A other \in Crafts : evidence[other] # q
    /\ evidence' = [evidence EXCEPT ![o] = q]
    /\ UNCHANGED done

Leave(o) ==
    /\ Becomes(o, "awaiting_gc_confirmation", "reconciling_inventory")
    /\ UNCHANGED <<evidence, done>>

Next == \E o \in Crafts : \/ Ask(o) \/ List(o) \/ Do(o) \/ Leave(o)
                          \/ \E q \in Crafts : Complete(o, q)

Spec == Init /\ [][Next]_ledgerVars
=============================================================================
