-------------------------- MODULE MC_HeapPageIter --------------------------
(***************************************************************************)
(* HeapPageIter instantiated for TLC: the page operations of MC_HeapPage,  *)
(* then a full iteration over the page reached.                            *)
(***************************************************************************)
EXTENDS HeapPageIter, MC_HeapPage

(* StartIter moves the caller's page into the iterator and no step after  *)
(* it changes page, so the iterator's page is page: only its cursor needs *)
(* to be told apart, and the page is seen through Observable.             *)
IterView ==
  <<Observable(page), stored, peak, yielded,
    IF iter = None THEN None
    ELSE Some(<<iter[1].currentSlot, iter[1].numSlots>>)>>

=============================================================================
