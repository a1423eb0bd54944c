------------------------------ MODULE RemoteCache ------------------------------
(***************************************************************************)
(* What a thread's remote_cache promises: messages wait in the slots of    *)
(* their targets until a post gives every one of them away, in the order   *)
(* they came.  ThreadAllocator sees the cache this way; RemoteList, with   *)
(* the links through the freed objects themselves, implements it.          *)
(***************************************************************************)
EXTENDS CacheSlots, SequencesExt

CONSTANTS
  Objects,
  Classes,         \* their size classes
  Ids,             \* the ids of remote_allocators that messages are for
  MyId             \* that of the thread

VARIABLES
  lists,    \* the messages <<object, target id, size class>> of each slot
  posting,  \* whether the thread is in post
  shift,
  out       \* what it has pushed to a queue in the last step

vars == <<lists, posting, shift, out>>

Init == /\ lists = [i \in RemoteSlots |-> <<>>]
        /\ posting = FALSE /\ shift = 0
        /\ out = <<>>

Waiting == {msg[1] : msg \in UNION {Range(lists[i]) : i \in RemoteSlots}}

Enqueue(obj, id, sc) ==
  /\ ~posting /\ obj \notin Waiting
  /\ lists' = [lists EXCEPT ![SlotAt(id, 0)] = Append(@, <<obj, id, sc>>)]
  /\ out' = <<>>
  /\ UNCHANGED <<posting, shift>>

Begin == /\ ~posting /\ posting' = TRUE
         /\ out' = <<>>
         /\ UNCHANGED <<lists, shift>>

OwnSlot == SlotAt(MyId, shift)

OtherSlots == {i \in RemoteSlots \ {OwnSlot} : lists[i] # <<>>}

(* A slot that is not the thread's own is pushed as a whole. *)
Push == /\ posting
        /\ \E i \in OtherSlots : /\ \A j \in OtherSlots : i <= j
                                 /\ out' = lists[i]
                                 /\ lists' = [lists EXCEPT ![i] = <<>>]
        /\ UNCHANGED <<posting, shift>>

(* The thread's own is distributed by the next bits of the targets. *)
Rebucket ==
  LET own == lists[OwnSlot]
      next == shift + RemoteSlotBits
  IN  /\ posting /\ OtherSlots = {} /\ own # <<>>
      /\ lists' = [i \in RemoteSlots |-> Bucket(own, next, i)]
      /\ shift' = next
      /\ out' = <<>>
      /\ UNCHANGED posting

Done == /\ posting /\ \A i \in RemoteSlots : lists[i] = <<>>
        /\ posting' = FALSE /\ shift' = 0
        /\ out' = <<>>
        /\ UNCHANGED lists

Next ==
  \/ \E obj \in Objects, id \in Ids, sc \in Classes : Enqueue(obj, id, sc)
  \/ Begin \/ Push \/ Rebucket \/ Done

Spec == Init /\ [][Next]_vars
=============================================================================
