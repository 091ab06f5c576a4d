-------------------------------- MODULE Text --------------------------------
(***************************************************************************)
(* What the parsers and the mapper do to the words they read: they fold    *)
(* case, look words up in dicts, and keep some of a list.  lower() is a    *)
(* table of the words that occur in exports.                               *)
(***************************************************************************)
EXTENDS Integers, Sequences, TLC

\* dict.get(key, default)
Get(map, key, default) == IF key \in DOMAIN map THEN map[key] ELSE default

\* The words that are not in lower case, with what lower() makes of them.
LOWER ==
 {<<"displayName", "displayname">>, <<"guestOS", "guestos">>, <<"memSize", "memsize">>,
  <<"numvCPUs", "numvcpus">>, <<"virtualDev", "virtualdev">>, <<"fileName", "filename">>,
  <<"deviceType", "devicetype">>, <<"addressType", "addresstype">>,
  <<"generatedAddress", "generatedaddress">>, <<"TRUE", "true">>, <<"FALSE", "false">>,
  <<"EFI", "efi">>, <<".ISO", ".iso">>, <<".VMX", ".vmx">>, <<"VmxNet3", "vmxnet3">>,
  <<"E1000", "e1000">>, <<"E1000e", "e1000e">>, <<"PCNet32", "pcnet32">>,
  <<"VirtualSCSI", "virtualscsi">>, <<"createType", "createtype">>,
  <<"parentCID", "parentcid">>, <<"CID", "cid">>,
  <<"parentFileNameHint", "parentfilenamehint">>,
  <<"ddb.adapterType", "ddb.adaptertype">>, <<"MegaBytes", "megabytes">>,
  <<"GigaBytes", "gigabytes">>, <<"twoGbMaxExtentFlat", "twogbmaxextentflat">>,
  <<"monolithicSparse", "monolithicsparse">>, <<"windows9_64Guest", "windows9_64guest">>,
  <<"winNetEnterprise", "winnetenterprise">>,
  <<"winNetEnterpriseGuest", "winnetenterpriseguest">>,
  <<"ubuntu64Guest", "ubuntu64guest">>}

Lower(s) == IF \E w \in LOWER : w[1] = s THEN (CHOOSE w \in LOWER : w[1] = s)[2] ELSE s

\* A dict filled in a loop over pairs of [key, value]: a later pair replaces an earlier one.
Dict(pairs) ==
  [k \in {pairs[i].key : i \in DOMAIN pairs} |->
     LET same == {i \in DOMAIN pairs : pairs[i].key = k}
     IN  pairs[CHOOSE last \in same : \A i \in same : i <= last].value]

\* The elements of the sequence s that are in the set wanted, in their order.
Only(s, wanted) ==
  LET kept[n \in 0..Len(s)] == IF n = 0 THEN <<>>
                               ELSE IF s[n] \in wanted THEN Append(kept[n - 1], s[n]) ELSE kept[n - 1]
  IN  kept[Len(s)]

\* What occurs in the sequence s.
Elements(s) == {s[i] : i \in 1..Len(s)}
=============================================================================
