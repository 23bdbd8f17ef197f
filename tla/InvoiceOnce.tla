----------------------------- MODULE InvoiceOnce -----------------------------
(***************************************************************************)
(* What the automation backbone promises of an upstream billing event: its *)
(* source is billed at most once, with one content that never changes, and *)
(* the resulting invoice is announced on the bus at most once and only     *)
(* after it exists.                                                        *)
(***************************************************************************)
CONSTANTS Sources, Contents, None

VARIABLES
    billed,     \* the content each source was billed with
    announced   \* sources whose invoice has an accepted ready event

Init ==
    /\ billed = [s \in Sources |-> None]
    /\ announced = {}

Bill(s, c) ==
    /\ billed[s] = None
    /\ billed' = [billed EXCEPT ![s] = c]
    /\ UNCHANGED announced

Announce(s) ==
    /\ billed[s] # None /\ s \notin announced
    /\ announced' = announced \cup {s}
    /\ UNCHANGED billed

Next == \E s \in Sources : Announce(s) \/ \E c \in Contents : Bill(s, c)

Spec == Init /\ [][Next]_<<billed, announced>>
=============================================================================
