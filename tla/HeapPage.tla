------------------------------ MODULE HeapPage ------------------------------
(***************************************************************************)
(* The slotted heap page of storage/heapstore (page.rs, heap_page.rs).     *)
(*                                                                         *)
(* A page is one buffer of PAGE_SIZE bytes: an 8-byte fixed header         *)
(* (page id, num_slots, free_start), a directory of 6-byte slot entries    *)
(* (offset, length, in_use) and a body of payloads written at free_start.  *)
(* The header fields and slot entries are kept decoded (numSlots,          *)
(* freeStart, slot); the buffer itself is `data`, one abstract byte per    *)
(* position: ZERO, META for a byte of a slot entry, or <<s, i>> for byte  *)
(* i of a payload inserted into slot s, so that a payload moved to the     *)
(* wrong place, cut short or overwritten reads back differently.           *)
(*                                                                         *)
(* Every public operation of the HeapPage trait that changes the page is   *)
(* one action; the helpers it calls (compact, shift_body_for_new_slot,     *)
(* write_slot, set_free_start ...) are operators from page to page,        *)
(* composed in the order add_value calls them.                             *)
(***************************************************************************)
EXTENDS Integers, Sequences, SequencesExt

CONSTANTS
  PAGE_SIZE,  \* bytes in a page (common::PAGE_SIZE)
  Lengths,    \* payload lengths offered to add_value
  ZERO,       \* model value: the byte 0x00
  META        \* model value: a byte of an encoded slot entry

ASSUME PAGE_SIZE \in Nat /\ PAGE_SIZE >= 14
ASSUME Lengths \subseteq Nat

FIXED_PAGE_META_SIZE == 8
BYTES_PER_SLOT_META  == 6
SLOT_IN_USE_VALID    == 1
SLOT_IN_USE_FREE     == 0
INITIAL_NUM_SLOTS    == 0
INITIAL_FREE_START   == 8

(* Option<T> as a sequence of at most one element.                         *)
None == <<>>
Some(x) == <<x>>

(* The most directory entries that fit next to the fixed header.           *)
MaxSlots == (PAGE_SIZE - FIXED_PAGE_META_SIZE) \div BYTES_PER_SLOT_META

U16 == 0..65535
Entry == [offset : U16, length : U16, inUse : {SLOT_IN_USE_FREE, SLOT_IN_USE_VALID}]
ZeroEntry == [offset |-> 0, length |-> 0, inUse |-> SLOT_IN_USE_FREE]
Byte == {ZERO, META} \cup ((0..MaxSlots) \X (1..PAGE_SIZE))
(* The payload handed to add_value when it lands in slot sid: byte i of it *)
(* is <<sid, i>>, so a read that returns bytes of another slot's payload,  *)
(* or bytes shifted within its own, differs from what was written.         *)
Payload(sid, len) == [i \in 1..len |-> <<sid, i>>]

VARIABLES
  page,    \* [numSlots, freeStart, slot, data]: the page buffer, decoded
  stored,  \* ghost: live slot id -> the payload add_value was given
  peak     \* ghost: the most records ever live at once

vars == <<page, stored, peak>>

-----------------------------------------------------------------------------
(* Header and slot accessors.                                              *)

SatSub(a, b) == IF a > b THEN a - b ELSE 0

HeaderSize(p) == FIXED_PAGE_META_SIZE + p.numSlots * BYTES_PER_SLOT_META

SlotMetaOffset(sid) == FIXED_PAGE_META_SIZE + sid * BYTES_PER_SLOT_META

(* Fault variant: get_free_start without lifting a stale stored value to   *)
(* body_start.                                                             *)
GetFreeStartUnlifted(p) ==
  IF p.freeStart < PAGE_SIZE THEN p.freeStart ELSE PAGE_SIZE

(* get_free_start: the stored value, lifted to body_start and capped.      *)
GetFreeStart(p) ==
  LET bodyStart == HeaderSize(p)
      raw == IF p.freeStart < bodyStart THEN bodyStart ELSE p.freeStart
  IN IF raw < PAGE_SIZE THEN raw ELSE PAGE_SIZE

SetFreeStart(p, pos) ==
  [p EXCEPT !.freeStart = IF pos < PAGE_SIZE THEN pos ELSE PAGE_SIZE]

(* set_num_slots: a new entry decodes from the zero bytes it occupies.     *)
SetNumSlots(p, n) ==
  [p EXCEPT !.numSlots = n,
            !.slot = [s \in 0..n-1 |-> IF s < p.numSlots THEN p.slot[s]
                                                          ELSE ZeroEntry]]

(* write_slot: the entry's offset, length and in_use bytes are rewritten.  *)
WriteSlot(p, sid, off, len, inUse) ==
  [p EXCEPT !.slot[sid] = [offset |-> off, length |-> len, inUse |-> inUse],
            !.data = [i \in DOMAIN @ |->
                        IF SlotMetaOffset(sid) <= i /\ i < SlotMetaOffset(sid) + 5
                        THEN META ELSE @[i]]]

(* get_slot_in_use(sid) = Some(SLOT_IN_USE_VALID): in range and live.      *)
SlotLive(p, sid) == sid < p.numSlots /\ p.slot[sid].inUse = SLOT_IN_USE_VALID

Live(p) == {s \in 0..p.numSlots-1 : SlotLive(p, s)}

(* Fault variant: free space charging the length of freed slots too.       *)
GetFreeSpaceAllSlots(p) ==
  SatSub(SatSub(PAGE_SIZE, HeaderSize(p)),
         MapThenSumSet(LAMBDA s : p.slot[s].length, 0..p.numSlots-1))

GetFreeSpace(p) ==
  SatSub(SatSub(PAGE_SIZE, HeaderSize(p)),
         MapThenSumSet(LAMBDA s : p.slot[s].length, Live(p)))

(* Fault variant: the free-slot scan stops one entry short.                *)
FindLowestFreeSlotIdShort(p) ==
  LET free == {s \in 0..p.numSlots-2 : p.slot[s].inUse = SLOT_IN_USE_FREE}
  IN IF free = {} THEN p.numSlots ELSE Min(free)

FindLowestFreeSlotId(p) ==
  LET free == {s \in 0..p.numSlots-1 : p.slot[s].inUse = SLOT_IN_USE_FREE}
  IN IF free = {} THEN p.numSlots ELSE Min(free)

(* get_value: a copy of the payload, or None.                              *)
GetValue(p, sid) ==
  IF ~SlotLive(p, sid) THEN None
  ELSE LET off == p.slot[sid].offset
           len == p.slot[sid].length
       IN IF off + len > PAGE_SIZE THEN None
          ELSE Some([i \in 1..len |-> p.data[off + i - 1]])

-----------------------------------------------------------------------------
(* Moving bytes.                                                           *)

(* slice::copy_within: memmove of len bytes from `from` to `to`.           *)
CopyWithin(d, from, len, to) ==
  [i \in DOMAIN d |-> IF to <= i /\ i < to + len THEN d[from + (i - to)] ELSE d[i]]

Fill(d, from, to, b) == [i \in DOMAIN d |-> IF from <= i /\ i < to THEN b ELSE d[i]]

(* Fault variant: compact visiting live slots in slot-id order.            *)
SlotIdOrder(a, b) == a.sid < b.sid

(* The order compact visits live slots: by offset, ties by slot id (a      *)
(* stable sort of a list built in slot-id order).                          *)
OffsetOrder(a, b) == a.off < b.off \/ (a.off = b.off /\ a.sid < b.sid)

(* The live slots as compact lists them: [sid, off, len], in the order    *)
(* sort_by_key leaves them.                                                *)
CompactOrder(p) ==
  SetToSortSeq({[sid |-> s, off |-> p.slot[s].offset, len |-> p.slot[s].length]
                  : s \in Live(p)},
               OffsetOrder)

(* compact: slide every live payload, in offset order, down to body_start. *)
Compact(p) ==
  LET Move(acc, u) ==
        LET q == IF u.off # acc.pos
                 THEN [acc.pg EXCEPT !.data = CopyWithin(@, u.off, u.len, acc.pos)]
                 ELSE acc.pg
        IN [pg |-> WriteSlot(q, u.sid, acc.pos, u.len, SLOT_IN_USE_VALID),
            pos |-> acc.pos + u.len]
      done == FoldLeft(Move, [pg |-> p, pos |-> HeaderSize(p)], CompactOrder(p))
  IN SetFreeStart(done.pg, done.pos)

(* compact panics: some copy_within it makes has a source range or a       *)
(* destination range that runs past the end of the buffer.                 *)
CompactPanics(p) ==
  LET Step(acc, u) ==
        [pos |-> acc.pos + u.len,
         bad |-> acc.bad \/ (u.off # acc.pos /\ (u.off + u.len > PAGE_SIZE
                                                \/ acc.pos + u.len > PAGE_SIZE))]
  IN FoldLeft(Step, [pos |-> HeaderSize(p), bad |-> FALSE], CompactOrder(p)).bad

(* Fault variant: the body shift that forgets to patch the live offsets.   *)
ShiftBodyUnpatched(p) ==
  LET oldBodyStart == HeaderSize(p)
      newBodyStart == oldBodyStart + BYTES_PER_SLOT_META
      freeStart == GetFreeStart(p)
      bodyLen == SatSub(freeStart, oldBodyStart)
      room == PAGE_SIZE - newBodyStart
      shiftLen == IF bodyLen < room THEN bodyLen ELSE room
      shifted == IF bodyLen > 0
                 THEN CopyWithin(p.data, oldBodyStart, shiftLen, newBodyStart)
                 ELSE p.data
      moved == [p EXCEPT !.data = Fill(shifted, oldBodyStart, newBodyStart, ZERO)]
      newFree == freeStart + BYTES_PER_SLOT_META
  IN SetFreeStart(moved, IF newFree < PAGE_SIZE THEN newFree ELSE PAGE_SIZE)

(* shift_body_for_new_slot: move [old_body_start, free_start) right by one *)
(* entry (cut at the page end), zero the gap, add 6 to every live offset.  *)
ShiftBodyForNewSlot(p) ==
  LET oldBodyStart == HeaderSize(p)
      newBodyStart == oldBodyStart + BYTES_PER_SLOT_META
      freeStart == GetFreeStart(p)
      bodyLen == SatSub(freeStart, oldBodyStart)
      room == PAGE_SIZE - newBodyStart
      shiftLen == IF bodyLen < room THEN bodyLen ELSE room
      shifted == IF bodyLen > 0
                 THEN CopyWithin(p.data, oldBodyStart, shiftLen, newBodyStart)
                 ELSE p.data
      live == Live(p)
      moved == [p EXCEPT
                  !.data = Fill(shifted, oldBodyStart, newBodyStart, ZERO),
                  !.slot = [s \in DOMAIN @ |->
                              IF s \in live
                              THEN [@[s] EXCEPT !.offset = @ + BYTES_PER_SLOT_META]
                              ELSE @[s]]]
      newFree == freeStart + BYTES_PER_SLOT_META
  IN SetFreeStart(moved, IF newFree < PAGE_SIZE THEN newFree ELSE PAGE_SIZE)

-----------------------------------------------------------------------------
(* The steps of add_value.                                                 *)

NeedsNewSlot(p) == FindLowestFreeSlotId(p) >= p.numSlots

ExtraHeader(p) == IF NeedsNewSlot(p) THEN BYTES_PER_SLOT_META ELSE 0

(* The fit check against total free space.                                 *)
Fits(p, len) == GetFreeSpace(p) >= len + ExtraHeader(p)

(* Fault variant: the contiguity test forgetting the new directory entry.  *)
ContiguousSpaceBeforeGrowth(p) == SatSub(PAGE_SIZE, GetFreeStart(p))

(* The contiguous tail that is left once the header has grown.             *)
ContiguousSpace(p) == SatSub(PAGE_SIZE, GetFreeStart(p) + ExtraHeader(p))

(* Fault variant: compaction only once the tail is two bytes short.        *)
CompactNeededLate(p, len) == ContiguousSpace(p) + 1 < len

(* add_value compacts when the tail is too short for the payload.         *)
CompactNeeded(p, len) == ContiguousSpace(p) < len

MakeRoom(p, len) == IF CompactNeeded(p, len) THEN Compact(p) ELSE p

(* Fault variant: the body is shifted but num_slots is never bumped.       *)
GrowDirectoryUncounted(p) ==
  IF p.numSlots > 0 THEN ShiftBodyForNewSlot(p) ELSE p

(* Append a directory entry, shifting the body when there is one.          *)
GrowDirectory(p) ==
  SetNumSlots(IF p.numSlots > 0 THEN ShiftBodyForNewSlot(p) ELSE p, p.numSlots + 1)

WriteValue(p, sid, off, bytes) ==
  LET q == [p EXCEPT !.data = [i \in DOMAIN @ |->
                                 IF off <= i /\ i < off + Len(bytes)
                                 THEN bytes[i - off + 1] ELSE @[i]]]
  IN SetFreeStart(WriteSlot(q, sid, off, Len(bytes), SLOT_IN_USE_VALID),
                  off + Len(bytes))

-----------------------------------------------------------------------------
(* Operations.                                                             *)

Init ==
  /\ page = [numSlots  |-> INITIAL_NUM_SLOTS,
             freeStart |-> INITIAL_FREE_START,
             slot      |-> [s \in {} |-> ZeroEntry],
             data      |-> [i \in 0..PAGE_SIZE-1 |-> ZERO]]
  /\ stored = [s \in {} |-> <<>>]
  /\ peak = 0

(* add_value on page p for a payload of len bytes, as a record of the     *)
(* page it leaves and what it returns.  Past its two checks it makes room, *)
(* grows the directory if the slot is new and writes at free_start, unless *)
(* that would run past the page end: then it returns None with the layout  *)
(* work already done.                                                      *)
AddValueCall(p, len) ==
  LET sid == FindLowestFreeSlotId(p)
      grown == IF NeedsNewSlot(p) THEN GrowDirectory(MakeRoom(p, len))
                                  ELSE MakeRoom(p, len)
      off == GetFreeStart(grown)
  IN IF len > PAGE_SIZE \/ ~Fits(p, len)
     THEN [page |-> p, result |-> None]
     ELSE IF off + len > PAGE_SIZE
     THEN [page |-> grown, result |-> None]
     ELSE [page |-> WriteValue(grown, sid, off, Payload(sid, len)), result |-> Some(sid)]

(* add_value on p panics: it passes both checks and calls compact on a    *)
(* page where compact's copy_within goes out of bounds.  Nothing else on  *)
(* its path can index out of bounds once the fit check holds.             *)
AddValuePanics(p, len) ==
  /\ len <= PAGE_SIZE
  /\ Fits(p, len)
  /\ CompactNeeded(p, len)
  /\ CompactPanics(p)

(* The effect of a returning add_value call on page and the ghosts.       *)
ApplyAdd(call, len) ==
  LET stored2 == IF call.result = None THEN stored
                 ELSE (call.result[1] :> Payload(call.result[1], len)) @@ stored
  IN /\ page' = call.page
     /\ stored' = stored2
     /\ peak' = Max({peak, Cardinality(DOMAIN stored2)})

(* A call of add_value that passes both checks and returns.               *)
AddValue(len) ==
  /\ ~AddValuePanics(page, len)
  /\ len <= PAGE_SIZE
  /\ Fits(page, len)
  /\ ApplyAdd(AddValueCall(page, len), len)

(* add_value returning None from one of its two checks: a stuttering step. *)
AddValueRejected(len) ==
  /\ len > PAGE_SIZE \/ ~Fits(page, len)
  /\ UNCHANGED vars

DeleteValue(sid) ==
  /\ SlotLive(page, sid)
  /\ page' = [page EXCEPT !.slot[sid].inUse = SLOT_IN_USE_FREE]
  /\ stored' = [s \in DOMAIN stored \ {sid} |-> stored[s]]
  /\ UNCHANGED peak

(* delete_value returning None: out of range or not live.                  *)
DeleteValueRejected(sid) ==
  /\ ~SlotLive(page, sid)
  /\ UNCHANGED vars

Next ==
  \/ \E len \in Lengths : AddValue(len)
  \/ \E len \in Lengths : AddValueRejected(len)
  \/ \E sid \in 0..MaxSlots : DeleteValue(sid)
  \/ \E sid \in 0..MaxSlots : DeleteValueRejected(sid)

Spec == Init /\ [][Next]_vars

-----------------------------------------------------------------------------
(* Properties.                                                             *)

(* The header fields are in range and the directory fits in the page.      *)
TypeOK ==
  /\ page.numSlots \in 0..MaxSlots
  /\ page.freeStart \in U16
  /\ page.slot \in [0..page.numSlots-1 -> Entry]
  /\ page.data \in [0..PAGE_SIZE-1 -> Byte]
  /\ DOMAIN stored \subseteq 0..page.numSlots-1
  /\ peak \in 0..MaxSlots

Extent(p, s) == p.slot[s].offset .. (p.slot[s].offset + p.slot[s].length - 1)

(* The layout of spec section 3, after every call: free_start lies between *)
(* the directory and the page end, every live payload lies between the     *)
(* directory and free_start (so the next write at free_start, the body     *)
(* shift and compaction cannot overwrite it), and no two live payloads     *)
(* share a byte.                                                           *)
LayoutSound ==
  /\ HeaderSize(page) <= page.freeStart
  /\ page.freeStart <= PAGE_SIZE
  /\ \A s \in Live(page) :
       /\ HeaderSize(page) <= page.slot[s].offset
       /\ page.slot[s].offset + page.slot[s].length <= page.freeStart
  /\ \A s, t \in Live(page) : s # t => Extent(page, s) \cap Extent(page, t) = {}

(* P3: every live slot reads back exactly the bytes add_value was given,   *)
(* through any later inserts, deletes, compactions and body shifts, and    *)
(* the live slots are exactly those inserted and not deleted.              *)
ValueRoundTrip ==
  /\ Live(page) = DOMAIN stored
  /\ \A s \in DOMAIN stored : GetValue(page, s) = Some(stored[s])

(* A failed add_value leaves the page as it was (spec sections 5 and 7):   *)
(* whatever page add_value is called on and whatever the payload length,   *)
(* a call returning None has not compacted, shifted the body or grown the  *)
(* directory.                                                              *)
FailedInsertUnchanged ==
  \A len \in Lengths :
    AddValueCall(page, len).result = None => AddValueCall(page, len).page = page

(* The directory never grows past the most records ever live at once:      *)
(* freed slot ids are always reused before a new entry is appended.        *)
DirectoryTight == page.numSlots = peak

(* No add_value call, of any offered length, on any reachable page panics: *)
(* the slot ranges compact copies from and to always lie inside the       *)
(* buffer, whatever sequence of inserts, deletes, body shifts and earlier  *)
(* compactions produced the page.                                         *)
NoPanic == \A len \in Lengths : ~AddValuePanics(page, len)

=============================================================================
