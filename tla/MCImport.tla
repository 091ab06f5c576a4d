------------------------------ MODULE MCImport ------------------------------
(* Machines for TLC, and the ways to export them.                          *)
EXTENDS Import

Numbers ==
  (0..16) \cup {29, 96, 112, 512, 1024, 2048, 4096, 524288, 1048576, 2097152, 536870912, 1073741824}

Names5 == <<"br0", "br1", "eth0", "virbr0", "vmbr0">>

Drive(bus, number, unit, stem, sectors) ==
  [bus |-> bus, number |-> number, unit |-> unit, kind |-> "disk", file |-> <<stem, ".vmdk">>, sectors |-> sectors]

Cdrom(bus, number, unit, file) ==
  [bus |-> bus, number |-> number, unit |-> unit, kind |-> "cdrom", file |-> file, sectors |-> 0]

TakenOut(d) == [d EXCEPT !.kind = "removed"]

Vmxnet3 == [vmx |-> "vmxnet3", ovf |-> "VmxNet3"]
E1000   == [vmx |-> "e1000", ovf |-> "E1000"]
Vlance  == [vmx |-> "vlance", ovf |-> "PCNet32"]

NicOf(dev, mac, static) == [dev |-> dev, mac |-> mac, static |-> static]

\* Two disks on two controllers, one between them that was taken out, two NICs.
Server ==
  [name |-> "server", windows |-> FALSE, memory |-> 4096, vcpus |-> 2, efi |-> TRUE,
   guest |-> [vmx |-> "ubuntu-64", osType |-> "ubuntu64Guest", id |-> "96"],
   controller |-> [vmx |-> "pvscsi", ovf |-> "VirtualSCSI"],
   drives |-> << Drive("scsi", 0, 0, "server", 2097152), TakenOut(Drive("scsi", 0, 1, "old", 1048576)),
                 Drive("scsi", 3, 15, "data", 1048576), Cdrom("ide", 1, 0, <<"install", ".ISO">>) >>,
   nics |-> << NicOf(Vmxnet3, "00-50-56-00-00-01", TRUE), NicOf(E1000, "00:50:56:00:00:02", FALSE) >>]

\* A disk on SATA, the physical CD-ROM drive before it.
Desktop ==
  [name |-> "desktop", windows |-> TRUE, memory |-> 2048, vcpus |-> 4, efi |-> TRUE,
   guest |-> [vmx |-> "windows9-64", osType |-> "windows9_64Guest", id |-> "112"],
   controller |-> [vmx |-> "lsisas1068", ovf |-> "lsilogicsas"],
   drives |-> << Cdrom("ide", 0, 0, <<"auto detect", "">>), Drive("sata", 0, 0, "desktop", 2097152) >>,
   nics |-> << NicOf(E1000, "00:50:56:00:00:02", FALSE) >>]

\* Two disks on one IDE bus, an old NIC.
Legacy ==
  [name |-> "legacy", windows |-> FALSE, memory |-> 1024, vcpus |-> 1, efi |-> FALSE,
   guest |-> [vmx |-> "ubuntu-64", osType |-> "ubuntu64Guest", id |-> "96"],
   controller |-> [vmx |-> "", ovf |-> ""],
   drives |-> << Drive("ide", 0, 0, "legacy", 1048576), Drive("ide", 0, 1, "more", 2097152) >>,
   nics |-> << NicOf(Vlance, "00-50-56-00-00-02", TRUE) >>]

\* Disks on one SCSI controller beyond unit 15, on a SATA port beyond it and on NVMe.
Archive ==
  [Server EXCEPT !.name = "archive", !.drives =
     << Drive("scsi", 0, 0, "archive", 2097152), Drive("scsi", 0, 16, "old", 1048576),
        Drive("sata", 1, 29, "older", 1048576), Drive("nvme", 0, 0, "cache", 2097152) >>]

\* A machine without disks and without NICs.
Router == [Legacy EXCEPT !.name = "router", !.drives = <<>>, !.nics = <<>>]

\* A VMX file without displayName; a file that is no export.
Nameless == [Legacy EXCEPT !.name = ""]

\* Windows Server 2003.
Server2003 ==
  [Desktop EXCEPT !.name = "server2003", !.guest =
     [vmx |-> "winNetEnterprise", osType |-> "winNetEnterpriseGuest", id |-> "70"]]

Machines == {Server, Desktop, Legacy, Router, Archive}

Of(m, suffix, style, split, target) ==
  [machine |-> m, source |-> <<m.name, suffix>>, style |-> style, split |-> split, target |-> target,
   bridge |-> "br0", preserve_mac |-> TRUE, windows_safe |-> FALSE]

Plain == [camel |-> TRUE, reversed |-> FALSE]

VmxRuns == {Of(m, s, style, split, t) :
              m \in Machines, s \in {".vmx", ".VMX"}, style \in VmxStyles,
              split \in {"one", "two", "binary"}, t \in {"kvm", "proxmox"}}

\* Windows is told by osType alone.
OvfRuns == {r \in {Of(m, s, style, "one", t) :
                     m \in Machines, s \in {".ovf", ".ova"}, style \in OvfStyles, t \in {"kvm", "proxmox"}} :
              r.machine.windows => r.style.osType}

\* Options, unusable files, and --bridge left to the program.
OtherRuns ==
  {[Of(m, ".vmx", Plain, "one", t) EXCEPT !.windows_safe = safe, !.preserve_mac = ~safe] :
      m \in Machines, t \in {"kvm", "proxmox"}, safe \in BOOLEAN}
    \cup {Of(Nameless, ".vmx", Plain, "one", "kvm"), Of(Server, ".qcow2", Plain, "one", "kvm")}
    \cup {[Of(Legacy, ".vmx", Plain, "one", t) EXCEPT !.bridge = NoBridge] : t \in {"kvm", "proxmox"}}

AllRuns == VmxRuns \cup OvfRuns \cup OtherRuns

ASSUME WindowsIsKnownThere == WindowsIsKnown(AllRuns)

Server2003Runs == {Of(Server2003, ".vmx", Plain, "one", "kvm")}
=============================================================================
