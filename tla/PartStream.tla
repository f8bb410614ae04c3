----------------------------- MODULE PartStream -----------------------------
(***************************************************************************)
(* What README.md promises of a connection that transfers one part after   *)
(* another: Reads get the parts in the order of the Writes, each part      *)
(* once, and a Write returns only when its part has been read.             *)
(***************************************************************************)
EXTENDS Naturals, Sequences

CONSTANT Ids  \* part ids

VARIABLES
  written,   \* parts whose Write has begun
  got,       \* parts that Reads have returned, in order
  returned   \* parts whose Write has returned

vars == <<written, got, returned>>

Read == {got[i] : i \in 1..Len(got)}

Init == written = {} /\ got = <<>> /\ returned = {}

BeginWrite(id) ==
  /\ written = returned
  /\ \A w \in written : w < id
  /\ written' = written \cup {id}
  /\ UNCHANGED <<got, returned>>

ReadNext(id) ==
  /\ id \in written \ Read
  /\ got' = Append(got, id)
  /\ UNCHANGED <<written, returned>>

ReturnWrite(id) ==
  /\ id \in (written \cap Read) \ returned
  /\ returned' = returned \cup {id}
  /\ UNCHANGED <<written, got>>

Next == \E id \in Ids : BeginWrite(id) \/ ReadNext(id) \/ ReturnWrite(id)

Spec == Init /\ [][Next]_vars
=============================================================================
