------------------------------ MODULE CacheSlots ------------------------------
(***************************************************************************)
(* The slots of a remote_cache: which one a message waits in, and how post *)
(* distributes the messages of one over all of them.                       *)
(***************************************************************************)
EXTENDS Integers, Sequences

CONSTANT RemoteSlotBits

RemoteSlots == 0 .. 2 ^ RemoteSlotBits - 1

(* (id >> bits) & RemoteMask. *)
SlotAt(id, bits) == (id \div 2 ^ bits) % 2 ^ RemoteSlotBits

(* The messages <<object, target id, size class>> of l that belong in slot *)
(* i, in the order in which the loop of post meets them.                   *)
Bucket(l, at, i) ==
  LET walked[n \in 0 .. Len(l)] ==
        IF n = 0 THEN <<>>
        ELSE IF SlotAt(l[n][2], at) = i THEN Append(walked[n - 1], l[n])
                                        ELSE walked[n - 1]
  IN  walked[Len(l)]
=============================================================================
