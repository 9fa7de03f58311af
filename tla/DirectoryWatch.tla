--------------------------- MODULE DirectoryWatch ---------------------------
(***************************************************************************)
(* What a directory watcher promises its owner, without any of its         *)
(* threads: the changes the kernel records while the watch is in place are *)
(* handed to the callback one at a time and in the order they were made,   *)
(* and once the watcher is destroyed the callback is never entered again.  *)
(* The module is the abstract specification that FileWatch implements.     *)
(***************************************************************************)
EXTENDS Sequences, Naturals

CONSTANT Events             \* the changes the kernel can record

VARIABLES posted,           \* the changes recorded so far, oldest first
          delivered,        \* the changes the callback has been called with
          live              \* FALSE once the destructor has returned

vars == <<posted, delivered, live>>

Init ==
  /\ posted = << >>
  /\ delivered = << >>
  /\ live = TRUE

\* A change is recorded, even by a watcher that is being torn down.
Record(e) ==
  /\ posted' = Append(posted, e)
  /\ UNCHANGED <<delivered, live>>

\* The callback is called with the oldest change it has not seen.
Deliver ==
  /\ live
  /\ Len(delivered) < Len(posted)
  /\ delivered' = Append(delivered, posted[Len(delivered) + 1])
  /\ UNCHANGED <<posted, live>>

Destroy ==
  /\ live
  /\ live' = FALSE
  /\ UNCHANGED <<posted, delivered>>

Next ==
  \/ \E e \in Events : Record(e)
  \/ Deliver
  \/ Destroy

Spec == Init /\ [][Next]_vars
=============================================================================
