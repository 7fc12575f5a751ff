-------------------------------- MODULE Disk --------------------------------
(***************************************************************************)
(* What the block cache promises the rest of the file system: the blocks   *)
(* of the devices.  Getting a block returns what was last written to it,   *)
(* and nothing but writing changes it, as long as no driver reports an     *)
(* error.                                                                  *)
(***************************************************************************)
CONSTANTS Addrs, Values

VARIABLES
  contents,  \* what each block holds
  call       \* the call that has just returned: its name, blocks and value

diskVars == <<contents, call>>

Init == contents \in [Addrs -> Values]

Get == /\ call'.op = "get"
       /\ \A a \in call'.at : call'.val = contents[a]
       /\ UNCHANGED contents

Write == /\ call'.op = "write"
         /\ contents' = [a \in Addrs |-> IF a \in call'.at THEN call'.val ELSE contents[a]]

Other == call'.op = "other" /\ UNCHANGED contents

Spec == Init /\ [][Get \/ Write \/ Other]_diskVars
=============================================================================
