----------------------- MODULE MC_HeapPageStressTest -----------------------
(***************************************************************************)
(* The stress test scaled to a 32-byte page: the page holds up to three    *)
(* records, so loading fills it after a few payloads and the retry loop    *)
(* deletes, compacts and reuses slots on every payload that follows.       *)
(***************************************************************************)
EXTENDS HeapPageStressTest, MC_HeapPage

(* Pages seen through Observable; the iterator, when there is one, owns a *)
(* clone of page (CloneAndIterate, and page does not change during the    *)
(* check), so only its cursor is kept.                                    *)
TestView ==
  <<Observable(page), stored, peak, yielded,
    IF iter = None THEN None
    ELSE Some(<<iter[1].currentSlot, iter[1].numSlots>>),
    pc, queue, pending, slots, vals>>

=============================================================================
