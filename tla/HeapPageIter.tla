---------------------------- MODULE HeapPageIter ----------------------------
(***************************************************************************)
(* The consuming iterator over a heap page (heap_page.rs, HeapPageIntoIter *)
(* and IntoIterator for Page), composed with the page operations of        *)
(* HeapPage: the page is built up by any sequence of add_value and         *)
(* delete_value, then moved into an iterator that the caller drives with   *)
(* next until it returns None.                                             *)
(*                                                                         *)
(* The iterator state is [page, currentSlot, numSlots], as in the struct;  *)
(* num_slots is read once, by into_iter.  One call of next is one step:    *)
(* its while loop skips every slot get_value cannot read.                  *)
(***************************************************************************)
EXTENDS HeapPage

VARIABLES
  iter,     \* None before into_iter, then Some(the HeapPageIntoIter)
  yielded   \* every (payload, slot id) next has returned, in order

iterVars == <<page, stored, peak, iter, yielded>>

(* Fault variant: into_iter capturing one slot fewer than the directory.   *)
IntoIterShort(p) == [page |-> p, currentSlot |-> 0, numSlots |-> p.numSlots - 1]

(* into_iter: the iterator takes the page and reads num_slots once.        *)
IntoIter(p) == [page |-> p, currentSlot |-> 0, numSlots |-> p.numSlots]

(* Fault variant: next bumping current_slot once more after the loop.     *)
IterNextCallOvershoot(it) ==
  LET hits == {s \in it.currentSlot..(it.numSlots - 1) :
                 GetValue(it.page, s) # None}
  IN IF hits = {}
     THEN [it |-> [it EXCEPT !.currentSlot = Max({@, it.numSlots}) + 1], item |-> None]
     ELSE [it |-> [it EXCEPT !.currentSlot = Min(hits) + 1],
           item |-> Some(<<GetValue(it.page, Min(hits))[1], Min(hits)>>)]

(* next: the first slot from current_slot on, below num_slots, that        *)
(* get_value reads, with current_slot left just past it; None once the     *)
(* loop has run current_slot up to num_slots.                              *)
IterNextCall(it) ==
  LET hits == {s \in it.currentSlot..(it.numSlots - 1) :
                 GetValue(it.page, s) # None}
      s == Min(hits)
  IN IF hits = {}
     THEN [it   |-> [it EXCEPT !.currentSlot = Max({@, it.numSlots})],
           item |-> None]
     ELSE [it   |-> [it EXCEPT !.currentSlot = s + 1],
           item |-> Some(<<GetValue(it.page, s)[1], s>>)]

IterInit ==
  /\ Init
  /\ iter = None
  /\ yielded = <<>>

(* add_value and delete_value, while the caller still owns the page.       *)
PageStep ==
  /\ iter = None
  /\ Next
  /\ UNCHANGED <<iter, yielded>>

(* Page::into_iter: the page moves into a new iterator.                    *)
StartIter ==
  /\ iter = None
  /\ iter' = Some(IntoIter(page))
  /\ yielded' = <<>>
  /\ UNCHANGED <<page, stored, peak>>

(* HeapPageIntoIter::next; once exhausted it keeps returning None.         *)
IterNext ==
  /\ iter # None
  /\ LET call == IterNextCall(iter[1])
     IN /\ iter' = Some(call.it)
        /\ yielded' = yielded \o call.item
  /\ UNCHANGED <<page, stored, peak>>

IterNextAll == PageStep \/ StartIter \/ IterNext

IterSpec == IterInit /\ [][IterNextAll]_iterVars

-----------------------------------------------------------------------------
(* The iterator's cursor stays within the directory it captured.          *)
IterTypeOK ==
  /\ iter \in {None} \cup {Some(it) : it \in [page : {page},
                                              currentSlot : 0..MaxSlots,
                                              numSlots : 0..MaxSlots]}
  /\ iter # None => iter[1].currentSlot <= iter[1].numSlots
  /\ yielded \in Seq(Seq(Byte) \X (0..MaxSlots))

(* The (payload, slot id) pairs a page holding the records `st` owes an    *)
(* iteration that has passed every slot below `upto`: the payload each     *)
(* such live slot was given, in ascending slot-id order.                   *)
OwedPairs(st, upto) ==
  LET ids == SetToSortSeq({s \in DOMAIN st : s < upto}, <)
  IN [i \in DOMAIN ids |-> <<st[ids[i]], ids[i]>>]

(* P7: at every point of the iteration, what next has returned is exactly *)
(* the live records below current_slot, each with the payload add_value   *)
(* was given and its slot id, in ascending slot-id order; once next        *)
(* returns None, current_slot has reached num_slots and so every record    *)
(* inserted and not deleted has been yielded once.                         *)
IterationExact ==
  iter # None =>
    /\ yielded = OwedPairs(stored, iter[1].currentSlot)
    /\ (iter[1].currentSlot >= iter[1].numSlots =>
          yielded = OwedPairs(stored, page.numSlots))

=============================================================================
