--------------------------- MODULE MCGuestNetwork ---------------------------
(* Guests for TLC: which stores are used, by which NICs, under which names. *)
EXTENDS GuestNetwork

Guest(stanzas, extras) ==
  [stanzas |-> [s \in StoreSet |-> IF s \in DOMAIN stanzas THEN stanzas[s] ELSE {}],
   dirs    |-> DOMAIN stanzas \cup extras,
   extras  |-> extras,
   udev    |-> TRUE]

\* An ifcfg file goes by the name it configures.
Stat(s, name, nic) == [file |-> IF s = "ifcfg" THEN name ELSE Exact(""), iface |-> name, nic |-> nic]

Vlan(stem)   == [lead |-> "", stem |-> stem, rest |-> ".100"]
Bridge(stem) == [lead |-> "br-", stem |-> stem, rest |-> ""]

\* One NIC, static or not, in each of the stores.
OneNicGuests ==
  {Guest([x \in {s} |-> {Stat(s, Exact(i), "nic1")}], {}) : s \in StoreSet, i \in {"ens192", "eno1"}}
    \cup {Guest([x \in {} |-> {}], {}), Guest([netplan |-> {}], {})}

\* Two NICs under VMware's names in the files sed edits; in ifcfg files, the
\* second NIC has a name of its own.
TwoNicGuests ==
  {Guest([x \in {s} |-> {Stat(s, Exact("ens160"), "nic1"), Stat(s, Exact("ens192"), "nic2")}], {}) :
     s \in StoreSet \ {"ifcfg"}}
    \cup {Guest([ifcfg |-> {Stat("ifcfg", Exact("ens193"), "nic1"), Stat("ifcfg", Exact("eno1"), "nic2")}],
                {"ifcfg"})}

\* A NIC, and a VLAN or a bridge whose name holds its name.
PartGuests ==
  {Guest([x \in {s} |-> {Stat(s, Exact("ens192"), "nic1"), Stat(s, part, "nic2")}], {}) :
     s \in StoreSet, part \in {Vlan("ens192"), Bridge("ens192"), Vlan("eno1")}}

PassGuests == OneNicGuests \cup TwoNicGuests \cup PartGuests

\* Two ifcfg files under VMware's names.
IfcfgGuests ==
  {Guest([ifcfg |-> {Stat("ifcfg", Exact("ens160"), "nic1"), Stat("ifcfg", Exact("ens192"), "nic2")}], {"ifcfg"})}
=============================================================================
