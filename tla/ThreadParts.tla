----------------------------- MODULE ThreadParts -----------------------------
(***************************************************************************)
(* The parts of a thread_allocator that no other thread touches: a         *)
(* medium_slab, a small_slab and the lists of the remote_cache.  They      *)
(* share no variable, so that letting them interleave would show nothing   *)
(* more: in a behaviour of this module one of them takes all the steps,    *)
(* and the others stay as they are initially.  ThreadAllocator puts        *)
(* together what they promise.                                             *)
(***************************************************************************)
EXTENDS Sizeclass

CONSTANTS
  MediumInUse, SmallInUse, Scribbles,                                \* the slabs'
  Objects, Ids, MyId, RemoteSlotBits, Classes, SizeclassShift, WordBits  \* RemoteList's

VARIABLES
  part,                                                  \* the one that takes steps
  stack, top, slots, sizeclass, committed, held, listed, \* MediumSlab's
  s_stack, s_top, s_sizeclass, s_slots, s_head, s_next, s_held, s_listed, \* SmallSlab's
  next, value, last, pc, shift, r, out                   \* RemoteList's

Medium == INSTANCE MediumSlab WITH InUse <- MediumInUse

Small ==
  INSTANCE SmallSlab WITH
    InUse <- SmallInUse,
    stack <- s_stack, top <- s_top, sizeclass <- s_sizeclass, slots <- s_slots,
    head <- s_head, next <- s_next, held <- s_held, listed <- s_listed

Remote == INSTANCE RemoteList

ASSUME PartsConstants ==
  Medium!MediumSlabConstants /\ Small!SmallSlabConstants /\ Remote!RemoteListConstants

medium_vars == <<stack, top, slots, sizeclass, committed, held, listed>>
small_vars == <<s_stack, s_top, s_sizeclass, s_slots, s_head, s_next, s_held, s_listed>>
remote_vars == <<next, value, last, pc, shift, r, out>>

all_vars == <<part, medium_vars, small_vars, remote_vars>>

(* A medium slab that takes no step is in one initial state. *)
PartsInit ==
  /\ part \in {"medium_slab", "small_slab", "remote_list"}
  /\ Medium!Init /\ Small!Init /\ Remote!Init
  /\ part # "medium_slab" => sizeclass = Min(MediumInUse)

RemoteStep == /\ part = "remote_list" /\ Remote!Step
              /\ UNCHANGED <<part, medium_vars, small_vars>>

PartsNext ==
  \/ /\ part = "medium_slab" /\ Medium!Next
     /\ UNCHANGED <<part, small_vars, remote_vars>>
  \/ /\ part = "small_slab" /\ Small!Next
     /\ UNCHANGED <<part, medium_vars, remote_vars>>
  \/ /\ part = "remote_list" /\ Remote!Next
     /\ UNCHANGED <<part, medium_vars, small_vars>>

(* A thread that posts keeps running. *)
PartsSpec == PartsInit /\ [][PartsNext]_all_vars /\ WF_all_vars(RemoteStep)

-----------------------------------------------------------------------------
(* Objects of slabs overlap neither each other nor their chunk's header    *)
(* nor its end.                                                            *)
ObjectsApart == /\ part = "medium_slab" => Medium!ObjectsApart
                /\ part = "small_slab" => Small!ObjectsApart

(* The lists are right: that through the objects of a small slab has its   *)
(* free ones, a slab is in its owner's list exactly while it has a free    *)
(* object, and no node of the remote_cache is in two lists.                *)
ListsAgree ==
  /\ part = "medium_slab" => Medium!ListedIffAvailable
  /\ part = "small_slab" => Small!ListIsFreeObjects /\ Small!ListedIffAvailable
  /\ part = "remote_list" => Remote!ChainsApart

(* No object loses its memory while it is held. *)
HeldUndisturbed == Medium!HeldUndisturbed

(* Stacks of offsets and lists through objects implement sets of objects.  *)
ImplementsSlab == Medium!ImplementsSlab /\ Small!ImplementsSlab

(* Links and packed words implement lists of messages, also while post     *)
(* takes one of them apart.  (This is Remote!ImplementsCache, of which the *)
(* steps of other parts are stutters.)                                     *)
ImplementsCache ==
  /\ Remote!Abstract!Init
  /\ [][part = "remote_list" => [Remote!Abstract!Next]_(Remote!Abstract!vars)]_all_vars

(* Every post ends. *)
PostEnds == Remote!PostEnds
=============================================================================
