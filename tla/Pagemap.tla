------------------------------- MODULE Pagemap -------------------------------
(***************************************************************************)
(* pagemap<T>: a flat array with one entry for each granule of the address *)
(* space, in memory that is reserved once and committed where addresses    *)
(* are registered.  Entries need not divide a page.                        *)
(***************************************************************************)
EXTENDS Integers, FiniteSetsExt

CONSTANTS
  PageBits,         \* of pal::page_size
  GranularityBits,
  AddressBits,
  EntrySizes,       \* sizeof(T), one of these
  Body              \* where pal::reserve puts the map

PageSize == 2 ^ PageBits
Granularity == 2 ^ GranularityBits
MapSize == 2 ^ (AddressBits - GranularityBits)

PagemapConstants ==
  /\ {PageBits, GranularityBits, AddressBits} \subseteq Nat /\ GranularityBits <= AddressBits
  /\ EntrySizes \subseteq Nat \ {0}
  /\ Body \in Nat \ {0} /\ Body % PageSize = 0

VARIABLES
  entry_size, LazyCommit,  \* what the map has been compiled for
  access,      \* of the pages of the map: "none", "read" or "write"
  registered,  \* history: the granules that have been registered
  ref          \* history: the last call: what it did, the address, and of which entry

vars == <<entry_size, LazyCommit, access, registered, ref>>

align_down(p) == (p \div PageSize) * PageSize
align_up(p) == ((p + PageSize - 1) \div PageSize) * PageSize

MapSizeBytes == align_up(MapSize * entry_size)

PagesBetween(first, last) == first \div PageSize .. (last - 1) \div PageSize

MapPages == PagesBetween(Body, Body + MapSizeBytes)

(* Where the entry of the granule with this number is. *)
EntryAt(index) == Body + index * entry_size

NoRef == [op |-> "none"]

(* The map is reserved, and can be read at once if the platform commits    *)
(* lazily.                                                                 *)
Init == /\ entry_size \in EntrySizes /\ LazyCommit \in BOOLEAN
        /\ access = [page \in MapPages |-> IF LazyCommit THEN "read" ELSE "none"]
        /\ registered = {} /\ ref = NoRef

(* Mutation: only the pages that the entries fill. *)
register_range_within(ptr, length) ==
  LET first == EntryAt(ptr \div Granularity)
      last == EntryAt((ptr + length - 1 + Granularity) \div Granularity)
  IN  [page \in MapPages |->
         IF page \in PagesBetween(align_up(first), align_down(last)) THEN "write" ELSE access[page]]

(* register_range: pal::commit of the pages from that of the first entry   *)
(* to that of the last one.                                                *)
register_range(ptr, length) ==
  LET first == EntryAt(ptr \div Granularity)
      last == EntryAt((ptr + length - 1 + Granularity) \div Granularity)
      committed == PagesBetween(align_down(first), align_up(last))
  IN  [page \in MapPages \cup committed |-> IF page \in committed THEN "write" ELSE access[page]]

Granules(ptr, length) == ptr \div Granularity .. (ptr + length - 1) \div Granularity

Addresses == 0 .. 2 ^ AddressBits - 1

Register(ptr, length) ==
  /\ access' = register_range(ptr, length)
  /\ registered' = registered \cup Granules(ptr, length)
  /\ ref' = NoRef
  /\ UNCHANGED <<entry_size, LazyCommit>>

(* get: callers assume only what they have registered. *)
Get(ptr, AssumeRegistered) ==
  /\ AssumeRegistered => ptr \div Granularity \in registered
  /\ IF ~AssumeRegistered /\ ~LazyCommit
     THEN /\ access' = register_range(ptr, 1)
          /\ registered' = registered \cup Granules(ptr, 1)
     ELSE UNCHANGED <<access, registered>>
  /\ ref' = [op |-> "get", ptr |-> ptr, entry |-> EntryAt(ptr \div Granularity)]
  /\ UNCHANGED <<entry_size, LazyCommit>>

(* set, of what the caller has registered. *)
Set(ptr) ==
  /\ ptr \div Granularity \in registered
  /\ ref' = [op |-> "set", ptr |-> ptr, entry |-> EntryAt(ptr \div Granularity)]
  /\ UNCHANGED <<entry_size, LazyCommit, access, registered>>

(* get_page_ptr, of a pointer to an entry. *)
get_page_ptr(entry) == ((entry - Body) \div entry_size) * Granularity

Next == \/ \E ptr \in Addresses :
             \/ \E length \in 1 .. 2 ^ AddressBits - ptr : Register(ptr, length)
             \/ \E AssumeRegistered \in BOOLEAN : Get(ptr, AssumeRegistered)
             \/ Set(ptr)

Spec == Init /\ [][Next]_vars

-----------------------------------------------------------------------------
TypeOK == /\ access \in [MapPages -> {"none", "read", "write"}]
          /\ registered \subseteq 0 .. MapSize - 1

PagesOfEntry(index) == PagesBetween(EntryAt(index), EntryAt(index + 1))

(* The pages on which registered entries are, also those that lie across a *)
(* boundary of pages, can be written to, and no others: the map, which has *)
(* an entry for every granule of the address space, stays sparse.          *)
RegisteredCommitted ==
  {page \in MapPages : access[page] = "write"} = UNION {PagesOfEntry(index) : index \in registered}

(* What get returns can be read, and written to as far as it is known to   *)
(* be registered.                                                          *)
NeverFaults ==
  ref # NoRef =>
    \A page \in PagesBetween(ref.entry, ref.entry + entry_size) :
      access[page] \in (IF ref.op = "get" THEN {"read", "write"} ELSE {"write"})

(* The address of an entry, which is a node of the large buddy, leads back *)
(* to the granule it is for. *)
EntryLeadsBack ==
  ref # NoRef => /\ get_page_ptr(ref.entry) <= ref.ptr
                 /\ ref.ptr < get_page_ptr(ref.entry) + Granularity
=============================================================================
