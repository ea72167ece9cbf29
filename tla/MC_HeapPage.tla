---------------------------- MODULE MC_HeapPage ----------------------------
(***************************************************************************)
(* HeapPage instantiated for TLC on a page of a few dozen bytes, so that   *)
(* the directory fills up, payloads fragment the body and the body shift   *)
(* and compaction run on pages that are nearly full.                       *)
(***************************************************************************)
EXTENDS HeapPage

CONSTANT UNREADABLE  \* model value: stands for the bytes of a lost record

(* The page as the code can observe it.  A byte outside the header and    *)
(* every live payload (a hole left by delete_value, the tail past          *)
(* free_start) and the offset and length of a free slot entry are never    *)
(* read before they are overwritten: get_value reads live ranges only,     *)
(* compact copies live ranges only, and the body shift copies holes along  *)
(* without any live range ever being placed over a hole unwritten.  Two    *)
(* pages that differ only there behave alike, so TLC keeps one of them.    *)
LiveBytes(p) == UNION {Extent(p, s) : s \in Live(p)}

Observable(p) ==
  [numSlots  |-> p.numSlots,
   freeStart |-> p.freeStart,
   slot      |-> [s \in DOMAIN p.slot |->
                    IF s \in Live(p) THEN p.slot[s] ELSE ZeroEntry],
   data      |-> [i \in DOMAIN p.data |->
                    IF i < HeaderSize(p) \/ i \in LiveBytes(p)
                    THEN p.data[i] ELSE ZERO]]

MCView == <<Observable(page), stored, peak>>

(* What get_value returns for live slot s; a live slot it cannot read maps *)
(* to a payload no insert writes, so losing a record is never mistaken for *)
(* a delete.                                                               *)
ReadBack(s) == IF GetValue(page, s) = None THEN <<UNREADABLE>>
                                           ELSE GetValue(page, s)[1]

(* The byte-level page seen through get_value refines the contract.        *)
Contract == INSTANCE HeapPageContract
              WITH records <- [s \in Live(page) |-> ReadBack(s)],
                   dirSize <- page.numSlots

(* The page refines its contract: every step of add_value and delete_value *)
(* is an insert at the lowest free slot id that fits, a delete, or leaves  *)
(* every live record readable and unchanged.                               *)
ContractSpec == Contract!CSpec

(* add_value fails exactly when the contract says the payload cannot fit   *)
(* (P8): holes left by delete_value never make an insert fail that the     *)
(* total free space admits, because compaction reclaims them.             *)
AddOutcomeExact ==
  \A len \in Lengths :
    (AddValueCall(page, len).result = None) <=> ~Contract!CanInsert(len)

=============================================================================
