----------------------------- MODULE SessionKeys -----------------------------
(***************************************************************************)
(* What the session key of the Local Agent promises whoever captured it    *)
(* before asynchronous work and compares it afterwards                     *)
(* (docs/multi-account-architecture.md, State and concurrency rules): a    *)
(* key is the name of one sign-in of one account.  A sign-in gets an epoch *)
(* that no sign-in had before, keeps it while it lasts and never returns,  *)
(* so a key that is current again, or still, was current all the while.    *)
(***************************************************************************)
EXTENDS Naturals

CONSTANTS Accounts, NoSession

VARIABLES
    session,   \* the sign-in in use, by account and epoch, or NoSession
    newest     \* no sign-in so far had an epoch above this one

keyVars == <<session, newest>>

Init == session = NoSession /\ newest = 0

Begin(a) ==
    /\ newest' > newest
    /\ session' = [account |-> a, epoch |-> newest']

(* A sign-in ends before the next one begins, or is ended by it; epochs may *)
(* be skipped.                                                              *)
End == session' = NoSession /\ newest' >= newest

Next == End \/ \E a \in Accounts : Begin(a)

Spec == Init /\ [][Next]_keyVars
=============================================================================
