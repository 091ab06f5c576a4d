---------------------------- MODULE HardwareMap ----------------------------
(***************************************************************************)
(* The translation tables of mapper/hardware.py, as functions.  Device     *)
(* names are the code's own strings.                                       *)
(***************************************************************************)
EXTENDS Text

CONTROLLER_MAP == [pvscsi     |-> "virtio-scsi",
                   lsilogic   |-> "virtio-scsi",
                   lsisas1068 |-> "virtio-scsi",
                   buslogic   |-> "virtio-scsi",
                   ahci       |-> "virtio-scsi",
                   nvme       |-> "nvme"]

NIC_MAP == [vmxnet3 |-> "virtio-net",
            e1000   |-> "e1000",
            e1000e  |-> "e1000e",
            vlance  |-> "virtio-net"]

NoFirmware   == "seabios"
FIRMWARE_MAP == [efi |-> "ovmf", bios |-> NoFirmware]

WINDOWS_SAFE_CONTROLLER == "ide"
WINDOWS_SAFE_NIC        == "e1000"

map_controller(vmware_type, windows_safe) ==
  IF windows_safe THEN WINDOWS_SAFE_CONTROLLER
                  ELSE Get(CONTROLLER_MAP, Lower(vmware_type), "virtio-scsi")

map_nic(vmware_type, windows_safe) ==
  IF windows_safe THEN WINDOWS_SAFE_NIC
                  ELSE Get(NIC_MAP, Lower(vmware_type), "virtio-net")

map_firmware(firmware_type) == Get(FIRMWARE_MAP, Lower(firmware_type), NoFirmware)

\* Every display adapter becomes virtio-vga, so MappedHardware.display is left out.
map_hardware(scsi_controller, nic_type, firmware, windows_safe) ==
  [controller   |-> map_controller(scsi_controller, windows_safe),
   nic          |-> map_nic(nic_type, windows_safe),
   firmware     |-> map_firmware(firmware),
   is_safe_mode |-> windows_safe]
=============================================================================
