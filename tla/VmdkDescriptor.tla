--------------------------- MODULE VmdkDescriptor ---------------------------
(***************************************************************************)
(* inspect_vmdk (parsers/vmdk.py): the type and the virtual size of a disk *)
(* from its VMDK descriptor.  A file is [binary, lines]; a line is         *)
(*   [kind |-> "comment"]                         blank, or begins with #, *)
(*   [kind |-> "entry", key, value]               key = "value",           *)
(*   [kind |-> "extent", access, sectors, words]  access sectors type ...  *)
(* where words counts the words of an extent line.  All text is as written.*)
(***************************************************************************)
EXTENDS Numerals

SECTOR_SIZE == 512

NotADescriptor == [error |-> "ValueError"]

VMDKInfo == [version |-> 1, cid |-> "ffffffff", parent_cid |-> "ffffffff", create_type |-> "",
             sectors |-> <<>>, ddb |-> <<>>, error |-> ""]

\* The keys of the disk data base, and the one that is kept along with them.
DDB_KEYS == {"ddb.adaptertype", "ddb.virtualhwversion", "parentfilenamehint"}

\* One key=value line.
_parse_entry(info, line) ==
  LET key == Lower(line.key)
  IN  CASE key = "version"    -> IF IsInt(line.value) THEN [info EXCEPT !.version = NUMERALS[line.value]]
                                                      ELSE [info EXCEPT !.error = "ValueError"]
        [] key = "cid"        -> [info EXCEPT !.cid = line.value]
        [] key = "parentcid"  -> [info EXCEPT !.parent_cid = line.value]
        [] key = "createtype" -> [info EXCEPT !.create_type = line.value]
        [] key \in DDB_KEYS   -> [info EXCEPT !.ddb = (key :> line.value) @@ @]
        [] OTHER              -> info

\* Mutant: the first extent is taken for the whole disk.
_parse_extent_line_First(info, line) ==
  IF info.sectors = <<>> /\ IsInt(line.sectors)
    THEN [info EXCEPT !.sectors = <<NUMERALS[line.sectors]>>] ELSE info

\* An extent of fewer than four words, or whose size is no number, is no extent.
_parse_extent_line(info, line) ==
  IF /\ line.words >= 4
     /\ line.access \in {"RW", "RDONLY", "NOACCESS"}
     /\ IsInt(line.sectors)
    THEN [info EXCEPT !.sectors = Append(@, NUMERALS[line.sectors])] ELSE info

_parse_line(info, line) == CASE line.kind = "entry"  -> _parse_entry(info, line)
                             [] line.kind = "extent" -> _parse_extent_line(info, line)
                             [] OTHER                -> info

_parse_descriptor(lines) ==
  LET info[n \in 0..Len(lines)] == IF n = 0 THEN VMDKInfo ELSE _parse_line(info[n - 1], lines[n])
  IN  info[Len(lines)]

\* sum(ext.size_bytes for ext in self.extents)
virtual_size_bytes(info) ==
  LET total[n \in 0..Len(info.sectors)] == IF n = 0 THEN 0 ELSE total[n - 1] + info.sectors[n]
  IN  total[Len(info.sectors)] * SECTOR_SIZE

DISK_TYPES == {"monolithicsparse", "monolithicflat", "twogbmaxextentsparse", "twogbmaxextentflat",
               "vmfs", "vmfssparse", "vmfsthin", "sesparse", "streamoptimized"}

_classify_disk_type(create_type) ==
  IF Lower(create_type) \in DISK_TYPES THEN Lower(create_type) ELSE "unknown"

inspect_vmdk(file) ==
  LET info == _parse_descriptor(file.lines)
  IN  IF file.binary \/ info.error # "" \/ info.create_type = "" THEN NotADescriptor
      ELSE [size_bytes |-> virtual_size_bytes(info),
            disk_type  |-> _classify_disk_type(info.create_type), error |-> ""]
=============================================================================
