------------------------------- MODULE Family -------------------------------
(***************************************************************************)
(* What fork, exit and wait promise: every process but the first has one   *)
(* living parent, the first process inherits the children of the dead, and *)
(* a dead process is buried once, by its parent.                           *)
(***************************************************************************)
EXTENDS Integers, FiniteSets

CONSTANTS People, Ancestor

VARIABLES life,   \* "none", "alive" or "dead"
          parent,
          mourns  \* how many children each, but the first, has yet to bury

vars == <<life, parent, mourns>>

Descendants == People \ {Ancestor}

Init == /\ life = [k \in People |-> IF k = Ancestor THEN "alive" ELSE "none"]
        /\ parent = [k \in Descendants |-> Ancestor]
        /\ mourns = [k \in Descendants |-> 0]

Children(p) == {k \in Descendants : parent[k] = p /\ life[k] # "none"}

Birth(p, c) == /\ life[p] = "alive" /\ life[c] = "none"
               /\ life' = [life EXCEPT ![c] = "alive"]
               /\ parent' = [parent EXCEPT ![c] = p]
               /\ mourns' = [mourns EXCEPT ![p] = @ + 1]

Death(p) == /\ p # Ancestor /\ life[p] = "alive"
            /\ life' = [life EXCEPT ![p] = "dead"]
            /\ parent' = [k \in Descendants |-> IF k \in Children(p) THEN Ancestor ELSE parent[k]]
            /\ mourns' = [mourns EXCEPT ![p] = 0]

Burial(p, k) == /\ life[p] = "alive" /\ k \in Children(p) /\ life[k] = "dead"
                /\ life' = [life EXCEPT ![k] = "none"]
                /\ parent' = [parent EXCEPT ![k] = Ancestor]
                /\ mourns' = [mourns EXCEPT ![p] = @ - 1]

Next == \E p \in People : \/ \E k \in Descendants : Birth(p, k) \/ Burial(p, k)
                          \/ Death(p)

Spec == Init /\ [][Next]_vars
=============================================================================
