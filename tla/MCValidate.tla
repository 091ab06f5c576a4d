----------------------------- MODULE MCValidate -----------------------------
(* One VM with two disks and EFI, and one whose disk has an unknown size.   *)
EXTENDS Validate

Vm(name, disks, firmware) ==
  [name |-> name, dir |-> "exports", disks |-> disks, nics |-> <<>>, memory_mb |-> 1024, vcpus |-> 1,
   scsi_controller |-> "pvscsi", firmware |-> firmware, windows |-> FALSE, ova |-> FALSE]

Box  == Vm("box", <<"d1", "d2">>, "efi")
Thin == [Vm("thin", <<"d3">>, "bios") EXCEPT !.ova = TRUE]

Machines == {Box, Thin}
Nameless == {Thin}

OwnStems == [d \in Disk |-> d]
NoStrays == <<>>

Sizes      == "d1" :> 1 @@ "d2" :> 2 @@ "d3" :> 1
KnownSizes == [Sizes EXCEPT !["d3"] = 0]

Run(x, output, format) ==
  [source |-> x, target |-> "kvm", output |-> output, format |-> format,
   net |-> [bridge |-> "br0", preserve_mac |-> TRUE],
   windows_safe |-> FALSE, dry_run |-> FALSE, execute |-> FALSE]

Runs == {Run(Box, NoOutput, "raw"), Run(Thin, "exports", "qcow2")}

Checks == {[source |-> Box, output |-> "exports"], [source |-> Box, output |-> NoOutput],
           [source |-> Thin, output |-> NoOutput]}
=============================================================================
