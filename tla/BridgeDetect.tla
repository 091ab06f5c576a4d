---------------------------- MODULE BridgeDetect ----------------------------
(***************************************************************************)
(* detect_bridge (network/detect.py): which bridge of the host a migrated  *)
(* VM is attached to when --bridge is not given.  Pure: the host as        *)
(* sysfs and /proc/net/route show it, and the answer.                      *)
(***************************************************************************)
EXTENDS Integers, Sequences

CONSTANTS SortedNames,  \* interface names a host may have, in sorted order
          MaxRoutes     \* bound: lines of the routing table

Names == {SortedNames[i] : i \in 1..Len(SortedNames)}
Route == [iface : Names, default : BOOLEAN]

VARIABLES target,   \* "kvm", "proxmox"
          sysfs,    \* the interfaces with a bridge/ directory
          routes,   \* /proc/net/route without its header
          answer    \* what detect_bridge returned, or Pending

vars == <<target, sysfs, routes, answer>>

Pending == "pending"

DEFAULT_BRIDGES == [proxmox |-> "vmbr0", kvm |-> "virbr0"]

\* Of the members of a sequence that are wanted, of which there are some, the first.
First(seq, wanted) ==
  seq[CHOOSE i \in 1..Len(seq) : seq[i] \in wanted /\ \A j \in 1..(i - 1) : seq[j] \notin wanted]

Some(seq, wanted) == \E i \in 1..Len(seq) : seq[i] \in wanted

\* find_bridges returns the interfaces with a bridge/ directory, sorted: the
\* set is sysfs, and this the first element of the list.
FirstBridge(bridges) == First(SortedNames, bridges)

Defaults == {r \in Route : r.default}

\* Mutant: the loop over the lines has no return, and the last one counts.
LastDefaultRoute(lines) ==
  LET numbers == {i \in 1..Len(lines) : lines[i] \in Defaults}
  IN  IF numbers = {} THEN "" ELSE lines[CHOOSE i \in numbers : \A j \in numbers : j <= i].iface

\* fields[0] of the first line whose destination is 00000000; "" if none.
_find_default_route_interface(lines) ==
  IF Some(lines, Defaults) THEN First(lines, Defaults).iface ELSE ""

\* The first well-known name that is a bridge, else the first bridge.
PreferredBridge(bridges) ==
  LET known == <<"vmbr0", "br0", "virbr0">>
  IN  IF Some(known, bridges) THEN First(known, bridges) ELSE FirstBridge(bridges)

\* Mutant: the interface of the default route is not looked for in bridges.
ChooseBridge_NoCheck(bridges, lines) ==
  LET default_iface == _find_default_route_interface(lines)
  IN  IF default_iface # "" THEN default_iface ELSE PreferredBridge(bridges)

ChooseBridge(bridges, lines) ==
  LET default_iface == _find_default_route_interface(lines)
  IN  IF default_iface \in bridges THEN default_iface ELSE PreferredBridge(bridges)

detect_bridge(tgt, bridges, lines) ==
  IF bridges = {} THEN DEFAULT_BRIDGES[tgt]
  ELSE IF \E b \in bridges : bridges = {b} THEN FirstBridge(bridges)
  ELSE ChooseBridge(bridges, lines)

Init == /\ target \in {"kvm", "proxmox"}
        /\ sysfs \in SUBSET Names
        /\ routes \in UNION {[1..n -> Route] : n \in 0..MaxRoutes}
        /\ answer = Pending

Detect == /\ answer = Pending
          /\ answer' = detect_bridge(target, sysfs, routes)
          /\ UNCHANGED <<target, sysfs, routes>>

Next == Detect

Spec == Init /\ [][Next]_vars

-----------------------------------------------------------------------------
(* The VM is attached to a bridge the host has; only on a host without any *)
(* is it the target's customary one.                                       *)
AnswerIsABridge ==
  answer # Pending => answer \in sysfs \/ (sysfs = {} /\ answer = DEFAULT_BRIDGES[target])

(* Among several bridges, the one that carries the first default route of  *)
(* the table goes before every well-known name.                            *)
FirstRouteDecides ==
  \A i \in 1..Len(routes) :
    /\ answer # Pending
    /\ routes[i].default /\ routes[i].iface \in sysfs
    /\ \A j \in 1..(i-1) : ~routes[j].default
    => answer = routes[i].iface \/ sysfs = {answer}
=============================================================================
