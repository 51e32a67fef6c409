---------------------------- MODULE RestoredTree ----------------------------
(***************************************************************************)
(* What extract (extract.go) promises about the tree it restores files     *)
(* into, however many workers share the work and however often it is cut   *)
(* short and begun again: only the places of the entries that are wanted   *)
(* are touched, an entry counts as restored only when its file is there,   *)
(* whole, and such a file is not touched again.                            *)
(***************************************************************************)
CONSTANTS Entries     \* of the archive

VARIABLES content,    \* of each entry
          place,      \* where it goes
          wanted,     \* the entries to restore
          tree,       \* what is at each place
          restored    \* the entries that count as restored

vars == <<content, place, wanted, tree, restored>>

Init == restored = {}

(* Something happens at the place of a wanted entry.                       *)
Touch(i) ==
  /\ \A j \in restored : place[j] # place[i]
  /\ DOMAIN tree' = DOMAIN tree
  /\ \A p \in DOMAIN tree : p # place[i] => tree'[p] = tree[p]
  /\ UNCHANGED <<content, place, wanted, restored>>

Restore(i) ==
  /\ tree[place[i]] = content[i]
  /\ restored' = restored \cup {i}
  /\ UNCHANGED <<content, place, wanted, tree>>

BeginAgain ==
  /\ restored' = {}
  /\ UNCHANGED <<content, place, wanted, tree>>

Next == (\E i \in wanted : Touch(i) \/ Restore(i)) \/ BeginAgain

Spec == Init /\ [][Next]_vars
=============================================================================
