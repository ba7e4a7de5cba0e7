----------------------------- MODULE Directory -----------------------------
(* What the server's registry promises, whatever it is kept in: a set of     *)
(* registrations, in which a name is found exactly if it was registered, and *)
(* which is listed with one name for each.  No promise is made that the       *)
(* latest of several registrations of a name is found.                      *)
EXTENDS Integers, FiniteSets

CONSTANTS
    Entries,    \* registrations
    Names, None

VARIABLES
    regs,       \* the registrations since the server started
    reply       \* what the last step was asked and answered, if anything

Nothing == [kind |-> "nothing"]

Named(n) == {e \in regs : e.name = n}

(* A list of the registrations in some order, each of them once *)
Listings ==
    {f \in [1 .. Cardinality(regs) -> regs] :
       \A e \in regs : \E i \in 1 .. Cardinality(regs) : f[i] = e}

Init == regs = {} /\ reply = Nothing

Register(e) == regs' = regs \cup {e} /\ reply' = Nothing

Restart == regs' = {} /\ reply' = Nothing

Find(n) ==
    /\ \E e \in IF Named(n) = {} THEN {None} ELSE Named(n) :
         reply' = [kind |-> "found", asked |-> n, found |-> e]
    /\ UNCHANGED regs

List ==
    /\ \E f \in Listings : reply' = [kind |-> "list", names |-> [i \in DOMAIN f |-> f[i].name]]
    /\ UNCHANGED regs

Other == reply' = Nothing /\ UNCHANGED regs

Next ==
    \/ Restart \/ List \/ Other
    \/ \E e \in Entries : Register(e)
    \/ \E n \in Names : Find(n)

Spec == Init /\ [][Next]_<<regs, reply>>
=============================================================================
