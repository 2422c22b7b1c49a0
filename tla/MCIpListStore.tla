---------------------------- MODULE MCIpListStore ----------------------------
(***************************************************************************)
(* Two-bit V4 and three-bit V6 addresses: hosts, networks with host bits   *)
(* set, and a V6 network whose length is that of a V4 host.                *)
(***************************************************************************)
EXTENDS IpListStore

net(f, n, l) == [fam |-> f, num |-> n, len |-> l]

MCWidth == [f \in {"V4", "V6"} |-> IF f = "V4" THEN 2 ELSE 3]

MCEntries == {net("V4", 1, 2), net("V4", 3, 1), net("V6", 5, 2), net("V4", 0, 0), Bad}

MCIpFiles == {{net("V4", 1, 2), net("V6", 5, 2)}, {}}

MCIps == {[fam |-> "V4", num |-> 1], [fam |-> "V4", num |-> 2],
          [fam |-> "V6", num |-> 4], Bad}
==============================================================================
