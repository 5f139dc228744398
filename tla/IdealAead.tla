----------------------------- MODULE IdealAead -----------------------------
(***************************************************************************)
(* What an authenticated cipher promises: a packet that arrives opens if   *)
(* and only if it is one that was sealed, and to what was sealed then.     *)
(***************************************************************************)
CONSTANTS
  Messages,     \* what can be sealed
  None,         \* no request, or no answer
  Forged,       \* a request: any packet that was not sealed
  Refused       \* the answer to it

VARIABLES
  sealed,       \* the messages sealed so far
  request,      \* the message whose packet arrived last
  answer        \* the message it opened to

Init == sealed = {} /\ request = None /\ answer = None

Seal(m) == /\ sealed' = sealed \cup {m}
           /\ request' = None /\ answer' = None

Open(m) == /\ m \in sealed
           /\ request' = m /\ answer' = m
           /\ UNCHANGED sealed

Refuse == request' = Forged /\ answer' = Refused /\ UNCHANGED sealed

(* A call without effect, for reasons that have nothing to do with what    *)
(* arrived.                                                                *)
Fail == request' = None /\ answer' = None /\ UNCHANGED sealed

Next == Refuse \/ Fail \/ \E m \in Messages : Seal(m) \/ Open(m)

Spec == Init /\ [][Next]_<<sealed, request, answer>>
=============================================================================
