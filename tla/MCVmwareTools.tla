--------------------------- MODULE MCVmwareTools ----------------------------
(* Guests for TLC.                                                          *)
EXTENDS VmwareTools

Guest(manager, marked, packages, needs) ==
  [manager  |-> manager,
   marked   |-> marked,
   packages |-> packages,
   needs    |-> needs,
   services |-> {"vmtoolsd.service", "open-vm-tools.service"},
   paths    |-> {"/etc/vmware-tools", "/var/log/vmware-*"},
   modules  |-> TRUE]

Desktop == {"open-vm-tools", "open-vm-tools-desktop"}
Minion  == {"open-vm-tools", "open-vm-tools-salt-minion"}

\* The packages that need open-vm-tools, as Debian's do.
Needs(packages) == {<<p, "open-vm-tools">> : p \in packages \ {"open-vm-tools"}}

\* Both families, with a listed package that needs another; on Debian, also with
\* one that is not listed; and one with no release file that is looked for
\* (SUSE).
NamedGuests == {Guest("rpm", TRUE, Desktop, Needs(Desktop)),
                Guest("deb", TRUE, Desktop, Needs(Desktop)),
                Guest("deb", TRUE, Minion, Needs(Minion)),
                Guest("rpm", FALSE, {"open-vm-tools"}, {})}
=============================================================================
