------------------------------ MODULE RemoteList ------------------------------
(***************************************************************************)
(* The remote_cache of one thread, at the level of memory: remote_lists    *)
(* are linked through the freed objects, whose second word holds target    *)
(* and size class.  post takes the list of the thread's own slot apart     *)
(* while it appends its nodes to other lists.                              *)
(***************************************************************************)
EXTENDS CacheSlots, SequencesExt, FiniteSets

CONSTANTS
  Objects,         \* the addresses of objects of other threads' slabs
  Ids, MyId,
  Classes,         \* the size classes of the objects
  SizeclassShift, WordBits

nullptr == 0

RemoteListConstants ==
  /\ Objects \subseteq Nat \ {nullptr} /\ IsFiniteSet(Objects)
  /\ SizeclassShift \in Nat /\ WordBits \in Nat /\ SizeclassShift <= WordBits
  /\ Ids \cup {MyId} \subseteq 0 .. 2 ^ SizeclassShift - 1 /\ MyId \notin Ids
  /\ RemoteSlotBits \in Nat \ {0}
  /\ Classes \subseteq 0 .. 2 ^ 8 - 1
  /\ Classes \subseteq 0 .. 2 ^ (WordBits - SizeclassShift) - 1

VARIABLES
  next,   \* non_atomic_next of each object and of the dummy of each list
  value,  \* the second word of each object
  last,   \* of each list
  pc, shift, r,  \* of post; r is the node it is at in the own list
  out     \* what has been pushed to a queue in the last step

vars == <<next, value, last, pc, shift, r, out>>

dummy(i) == -1 - i

Cells == Objects \cup {dummy(i) : i \in RemoteSlots}

Init == /\ next = [c \in Cells |-> nullptr]
        /\ value = [o \in Objects |-> 0]
        /\ last = [i \in RemoteSlots |-> dummy(i)]
        /\ pc = "idle" /\ shift = 0 /\ r = nullptr
        /\ out = <<>>

-----------------------------------------------------------------------------
target_id(v) == v % 2 ^ SizeclassShift

sizeclass(v) == (v \div 2 ^ SizeclassShift) % 2 ^ 8

set_sizeclass(v, sc) == target_id(v) + ((sc * 2 ^ SizeclassShift) % 2 ^ WordBits)

set_target_id(v, id) == id + (v - target_id(v))

(* Mutation: the node that is appended ends the list. *)
insert_ended(mem, i, node) == [mem EXCEPT ![last[i]] = node, ![node] = nullptr]

(* remote_list::insert, of one node: it keeps its own link. *)
insert(mem, i, node) == [mem EXCEPT ![last[i]] = node]

(* remote_list::clear ends the list, and returns what its dummy leads to.  *)
clear(i) == [next EXCEPT ![last[i]] = nullptr]

empty(i) == last[i] = dummy(i)

-----------------------------------------------------------------------------
(* The node after n links from a cell. *)
Node(mem, cell, n) ==
  LET node[k \in Nat] ==
        IF k = 0 THEN cell
        ELSE IF node[k - 1] \in Cells THEN mem[node[k - 1]] ELSE nullptr
  IN  node[n]

Steps == 0 .. Cardinality(Objects)

(* How many links lead from a cell to another, or -1. *)
Distance(mem, from, to) ==
  IF \E n \in Steps : Node(mem, from, n) = to
  THEN CHOOSE n \in Steps : Node(mem, from, n) = to /\ \A k \in 0 .. n - 1 : Node(mem, from, k) # to
  ELSE -1

Message(o) == <<o, target_id(value[o]), sizeclass(value[o])>>

Chain(mem, from, to) ==
  [n \in 1 .. Distance(mem, from, to) + 1 |-> Message(Node(mem, from, n - 1))]

(* The objects of the list of slot i, in order. *)
ChainOf(i) == IF empty(i) THEN <<>> ELSE Chain(next, next[dummy(i)], last[i])

(* What post has not yet distributed. *)
Rest == [n \in 1 .. Distance(next, r, nullptr) |-> Message(Node(next, r, n - 1))]

Waiting == {msg[1] : msg \in UNION {{ChainOf(i)[n] : n \in DOMAIN ChainOf(i)} : i \in RemoteSlots}}

-----------------------------------------------------------------------------
(* enqueue, of an object whose words are as its last user left them.       *)
Enqueue(o, id, sc) ==
  /\ pc = "idle" /\ o \notin Waiting
  /\ \E word \in {0, 2 ^ WordBits - 1} :
       value' = [value EXCEPT ![o] = set_target_id(set_sizeclass(word, sc), id)]
  /\ \E link \in Objects \cup {nullptr} :
       next' = insert([next EXCEPT ![o] = link], SlotAt(id, 0), o)
  /\ last' = [last EXCEPT ![SlotAt(id, 0)] = o]
  /\ out' = <<>>
  /\ UNCHANGED <<pc, shift, r>>

Begin == /\ pc = "idle" /\ pc' = "post"
         /\ out' = <<>>
         /\ UNCHANGED <<next, value, last, shift, r>>

my_slot_index == SlotAt(MyId, shift)

OtherSlots == {i \in RemoteSlots \ {my_slot_index} : ~empty(i)}

(* The slots of others, from the lowest on.  The queue takes what leads    *)
(* from first to last; their words are then the queue's.                   *)
Push ==
  LET i == CHOOSE i \in OtherSlots : \A j \in OtherSlots : i <= j
      mem == clear(i)
      chain == Chain(mem, mem[dummy(i)], last[i])
      given == {chain[n][1] : n \in DOMAIN chain}
  IN  /\ pc = "post" /\ r = nullptr /\ OtherSlots # {}
      /\ out' = chain
      /\ next' = [c \in Cells |-> IF c \in given THEN nullptr ELSE mem[c]]
      /\ value' = [o \in Objects |-> IF o \in given THEN 0 ELSE value[o]]
      /\ last' = [last EXCEPT ![i] = dummy(i)]
      /\ UNCHANGED <<pc, shift, r>>

(* Mutation: the shift stays. *)
next_shift_same == shift

next_shift == shift + RemoteSlotBits

(* The own slot is emptied ... *)
TakeOwn ==
  LET mem == clear(my_slot_index) IN
  /\ pc = "post" /\ r = nullptr /\ OtherSlots = {} /\ ~empty(my_slot_index)
  /\ next' = mem
  /\ r' = mem[dummy(my_slot_index)]
  /\ last' = [last EXCEPT ![my_slot_index] = dummy(my_slot_index)]
  /\ shift' = next_shift
  /\ out' = <<>>
  /\ UNCHANGED <<value, pc>>

(* ... and each node appended to the list of its next slot, after which    *)
(* its link is read. *)
Distribute ==
  LET slot == SlotAt(target_id(value[r]), shift) IN
  /\ pc = "post" /\ r # nullptr
  /\ next' = insert(next, slot, r)
  /\ last' = [last EXCEPT ![slot] = r]
  /\ r' = next'[r]
  /\ out' = <<>>
  /\ UNCHANGED <<value, pc, shift>>

Done == /\ pc = "post" /\ r = nullptr /\ OtherSlots = {} /\ empty(my_slot_index)
        /\ pc' = "idle" /\ shift' = 0
        /\ out' = <<>>
        /\ UNCHANGED <<next, value, last, r>>

Step == Push \/ TakeOwn \/ Distribute \/ Done

Next == \/ \E o \in Objects, id \in Ids, sc \in Classes : Enqueue(o, id, sc)
        \/ Begin
        \/ Step

Spec == Init /\ [][Next]_vars

(* A thread that posts keeps running. *)
FairSpec == Spec /\ WF_vars(Step)

-----------------------------------------------------------------------------
(* shift stays below the width of the ids: they differ from MyId in a bit. *)
TypeOK == /\ next \in [Cells -> Objects \cup {nullptr}]
          /\ value \in [Objects -> 0 .. 2 ^ WordBits - 1]
          /\ \A i \in RemoteSlots : last[i] \in Objects \cup {dummy(i)}
          /\ pc \in {"idle", "post"}
          /\ shift \in 0 .. SizeclassShift - 1
          /\ r \in Objects \cup {nullptr}

(* Each list leads from its dummy to its last node, what is left of the    *)
(* own list leads to nullptr, and no node is in two of them, although      *)
(* nodes are appended that still have the link of the list they come from. *)
ChainsApart ==
  LET chains == [k \in RemoteSlots \cup {-1} |-> IF k = -1 THEN Rest ELSE ChainOf(k)]
      positions == {p \in (DOMAIN chains) \X Steps : p[2] \in DOMAIN chains[p[1]]}
  IN  /\ \A i \in RemoteSlots : Distance(next, dummy(i), last[i]) # -1
      /\ Distance(next, r, nullptr) # -1
      /\ \A p, q \in positions : p # q => chains[p[1]][p[2]][1] # chains[q[1]][q[2]][1]

(* The links and words implement the lists of messages: the ones a walk    *)
(* has not reached count as distributed.                                   *)
Lists == [i \in RemoteSlots |-> ChainOf(i) \o Bucket(Rest, shift, i)]

Abstract == INSTANCE RemoteCache WITH lists <- Lists, posting <- pc = "post"

ImplementsCache == Abstract!Spec

(* Every post ends. *)
PostEnds == pc = "post" ~> pc = "idle"
=============================================================================
