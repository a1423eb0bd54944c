----------------------------- MODULE SystemParts -----------------------------
(***************************************************************************)
(* What stands above and below the allocators: the entry points with the   *)
(* arithmetic of size classes (Interface), the page map (Pagemap) and the  *)
(* calls of the operating system (Pal).  They share no variable, so in a   *)
(* behaviour of this module one of them takes all the steps and the others *)
(* stay as they are in one of their initial states.                        *)
(***************************************************************************)
EXTENDS Interface

CONSTANTS MapPageBits, GranularityBits, MapAddressBits, EntrySizes, Body   \* Pagemap's

VARIABLES
  part,                                             \* the one that takes steps
  entry_size, LazyCommit, access, registered, ref,  \* Pagemap's
  system, prot, content, reusable, errno, pc, op, kept, zeroed, failed  \* Pal's

Map == INSTANCE Pagemap WITH PageBits <- MapPageBits, AddressBits <- MapAddressBits

OS == INSTANCE Pal

ASSUME MapConstants == Map!PagemapConstants

map_vars == <<entry_size, LazyCommit, access, registered, ref>>
pal_vars == <<system, prot, content, reusable, errno, pc, op, kept, zeroed, failed>>
all_vars == <<part, vars, map_vars, pal_vars>>

SystemInit ==
  /\ part \in {"interface", "pagemap", "pal"}
  /\ Init /\ Map!Init /\ OS!Init
  /\ part # "interface" => entry = "interface" /\ request = 0
  /\ part # "pagemap" => entry_size = Min(EntrySizes) /\ LazyCommit
  /\ part # "pal" => system = "linux" /\ errno = "0"

PalStep == part = "pal" /\ OS!Step /\ UNCHANGED <<part, vars, map_vars>>

SystemNext ==
  \/ part = "interface" /\ Next /\ UNCHANGED <<part, map_vars, pal_vars>>
  \/ part = "pagemap" /\ Map!Next /\ UNCHANGED <<part, vars, pal_vars>>
  \/ part = "pal" /\ OS!Next /\ UNCHANGED <<part, vars, map_vars>>

(* A thread in a call keeps running, and madvise does not say EAGAIN for   *)
(* ever. *)
SystemSpec == SystemInit /\ [][SystemNext]_all_vars /\ WF_all_vars(PalStep)

-----------------------------------------------------------------------------
(* What is committed of the page map are the pages of the entries of what  *)
(* is registered; entries are accessible when they are read or written,    *)
(* and lead back to the addresses they are for.                            *)
MapSound == part = "pagemap" => Map!RegisteredCommitted /\ Map!NeverFaults /\ Map!EntryLeadsBack

(* What system calls that fail can do to a call of the pal: nothing to its *)
(* zeros but in pal_linux::zero, nothing to errno where it is stored, and  *)
(* a fault only when no way to make memory accessible is left.             *)
FailuresContained == part = "pal" => OS!ZerosAreZero /\ OS!FaultsAtLast /\ OS!ErrnoKept

(* Every call of the pal returns, or faults. *)
CallsReturn == OS!CallsReturn
=============================================================================
