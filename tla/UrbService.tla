----------------------------- MODULE UrbService -----------------------------
(***************************************************************************)
(* What an attached host may rely on, without the tasks, the locks and the  *)
(* queues that provide it: endpoints are independent of each other; each    *)
(* endpoint completes its URBs in the order they were submitted; an unlink  *)
(* takes one URB back; an URB is dropped only when the connection ends.     *)
(* vqa40x-usbip/src/lib.rs states it above OutJob, Pending and the workers. *)
(***************************************************************************)
EXTENDS Integers

CONSTANTS InEps, OutEps, MaxSeq

Eps  == InEps \cup OutEps
Urbs == 1..MaxSeq

VARIABLES
    status,     \* what became of each URB
    waiting,    \* per endpoint, the URBs still owed an answer
    open        \* the connection has not been cancelled

vars == <<status, waiting, open>>

Init ==
    /\ status = [u \in Urbs |-> "new"]
    /\ waiting = [e \in Eps |-> {}]
    /\ open = TRUE

\* The host's URBs arrive in the order of their numbers.
Arrives(u) == status[u] = "new" /\ \A v \in Urbs : v < u => status[v] # "new"

\* A closing connection may drop an URB on arrival.
Accept(u, e) ==
    /\ Arrives(u)
    /\ status' = [status EXCEPT ![u] = "waiting"]
    /\ \/ waiting' = [waiting EXCEPT ![e] = @ \cup {u}]
       \/ ~open /\ waiting' = waiting
    /\ UNCHANGED open

\* Endpoint 0 answers at once.
Control(u) ==
    /\ Arrives(u)
    /\ status' = [status EXCEPT ![u] = "completed"]
    /\ UNCHANGED <<waiting, open>>

\* URBs arrive in number order: the oldest an endpoint owes has the least number.
Oldest(u, e) == u \in waiting[e] /\ \A v \in waiting[e] : u <= v

Complete(u, e) ==
    /\ Oldest(u, e)
    /\ status' = [status EXCEPT ![u] = "completed"]
    /\ waiting' = [waiting EXCEPT ![e] = @ \ {u}]
    /\ UNCHANGED open

TakeBack(u) ==
    /\ status[u] = "waiting"
    /\ status' = [status EXCEPT ![u] = "unlinked"]
    /\ waiting' = [e \in Eps |-> waiting[e] \ {u}]
    /\ UNCHANGED open

Close == open /\ open' = FALSE /\ UNCHANGED <<status, waiting>>

Drop(e) ==
    /\ ~open
    /\ waiting' = [waiting EXCEPT ![e] = {}]
    /\ UNCHANGED <<status, open>>

Next ==
    \/ \E u \in Urbs : Control(u) \/ TakeBack(u)
    \/ \E u \in Urbs, e \in Eps : Accept(u, e) \/ Complete(u, e)
    \/ \E e \in Eps : Drop(e)
    \/ Close

Spec == Init /\ [][Next]_vars
=============================================================================
