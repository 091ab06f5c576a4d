------------------------------ MODULE Delivery ------------------------------
(***************************************************************************)
(* What `vmfree migrate` promises the owner of some VMs: a VM is delivered *)
(* once, in one step, and from then on everything its delivery refers to   *)
(* is usable.  How long a migration takes, how often it fails on the way   *)
(* and what happens to other VMs meanwhile cannot be seen.                 *)
(***************************************************************************)
CONSTANT Goods

VARIABLES delivered,  \* VMs with a domain or a script in the output directory
          usable      \* those of them whose disk images are whole

Init == delivered = {} /\ usable = {}

Deliver(x) == /\ x \notin delivered
              /\ delivered' = delivered \cup {x}
              /\ usable' = usable \cup {x}

Next == \E x \in Goods : Deliver(x)

Spec == Init /\ [][Next]_<<delivered, usable>>
=============================================================================
