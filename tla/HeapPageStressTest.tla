------------------------- MODULE HeapPageStressTest -------------------------
(***************************************************************************)
(* The stress test of heap_page.rs (hs_page_stress_test) as a client of    *)
(* the page and its iterator.  The test loads a page with payloads from a  *)
(* queue until an insert fails, checks the page by iterating a clone of    *)
(* it, then for every payload left in the queue retries add_value, each    *)
(* time deleting a stored record picked at random, until it succeeds, and  *)
(* checks a fresh clone after each success.                                *)
(*                                                                         *)
(* pc says which statement of the test runs next; each failure mode of the *)
(* test (an assert!, an expect, a panic of gen_range or of the page) is a  *)
(* pc value of its own, where the test stops.                              *)
(***************************************************************************)
EXTENDS HeapPageIter

CONSTANTS
  QueueLengths,  \* lengths the test's payload generator may produce
  QUEUE_LEN      \* how many payloads it generates (300 in the test)

VARIABLES
  pc,       \* the next statement of the test
  queue,    \* original_vals: lengths of the payloads not stored yet
  pending,  \* the length of the payload the retry loop is adding (0: none)
  slots,    \* stored_slots
  vals      \* stored_vals

testVars == <<page, stored, peak, iter, yielded, pc, queue, pending, slots, vals>>

Failures == {"ran_out", "assert_failed", "empty_range", "delete_failed", "panicked"}
Running == {"load", "check", "churn", "add", "evict"}

(* compare_unordered_byte_vecs: the two lists hold the same payloads, each *)
(* as often.                                                               *)
CompareUnordered(a, b) == ToBag(a) = ToBag(b)

(* The payloads of the (payload, slot id) pairs the iterator returned.     *)
Payloads(ys) == [i \in DOMAIN ys |-> ys[i][1]]

TestInit ==
  /\ IterInit
  /\ pc = "load"
  /\ queue \in [1..QUEUE_LEN -> QueueLengths]
  /\ pending = 0
  /\ slots = <<>>
  /\ vals = <<>>

(* Start the check: p.clone().into_iter().                                 *)
CloneAndIterate ==
  /\ iter' = Some(IntoIter(page'))
  /\ yielded' = <<>>

(* The test stops in failure mode f.                                      *)
Fail(f) ==
  /\ pc' = f
  /\ UNCHANGED <<page, stored, peak, iter, yielded, queue, pending, slots, vals>>

(* Loading: the payload at the head of the queue went to slot sid.         *)
LoadStored(sid) ==
  /\ slots' = Append(slots, sid)
  /\ vals' = Append(vals, Payload(sid, Head(queue)))
  /\ queue' = Tail(queue)
  /\ UNCHANGED <<iter, yielded, pc, pending>>

(* Loading: add_value returned None; the payload is pushed back (the queue *)
(* is left as it was) and a clone of the page is checked.                  *)
LoadFull ==
  /\ CloneAndIterate
  /\ pc' = "check"
  /\ UNCHANGED <<queue, pending, slots, vals>>

(* One turn of the loading loop: pop a payload (expect panics on an empty  *)
(* queue) and add it.  A call failing its two checks leaves the page as it *)
(* is: AddValueCall returns it unchanged.                                  *)
Load ==
  /\ pc = "load"
  /\ IF queue = <<>> THEN Fail("ran_out")
     ELSE LET call == AddValueCall(page, Head(queue))
          IN IF AddValuePanics(page, Head(queue)) THEN Fail("panicked")
             ELSE /\ ApplyAdd(call, Head(queue))
                  /\ IF call.result # None THEN LoadStored(call.result[1])
                                            ELSE LoadFull

(* One call of next on the clone's iterator; when it returns None, the     *)
(* assert! that the stored payloads are exactly those iterated.            *)
Check ==
  /\ pc = "check"
  /\ LET call == IterNextCall(iter[1])
     IN IF call.item # None
        THEN /\ iter' = Some(call.it)
             /\ yielded' = yielded \o call.item
             /\ UNCHANGED pc
        ELSE /\ iter' = None
             /\ yielded' = <<>>
             /\ pc' = IF CompareUnordered(vals, Payloads(yielded))
                      THEN "churn" ELSE "assert_failed"
  /\ UNCHANGED <<page, stored, peak, queue, pending, slots, vals>>

(* The outer loop: pop the next payload, or end the test.                  *)
Churn ==
  /\ pc = "churn"
  /\ IF queue = <<>>
     THEN pc' = "done" /\ UNCHANGED <<queue, pending>>
     ELSE pc' = "add" /\ pending' = Head(queue) /\ queue' = Tail(queue)
  /\ UNCHANGED <<page, stored, peak, iter, yielded, slots, vals>>

(* Retry loop: the pending payload went to slot sid; a clone is checked.  *)
RetryStored(sid) ==
  /\ slots' = Append(slots, sid)
  /\ vals' = Append(vals, Payload(sid, pending))
  /\ CloneAndIterate
  /\ pc' = "check"
  /\ pending' = 0
  /\ UNCHANGED queue

(* Retry loop: add_value returned None, so a record is to be deleted.      *)
RetryFull ==
  /\ pc' = "evict"
  /\ UNCHANGED <<iter, yielded, queue, pending, slots, vals>>

(* One try of the retry loop.                                              *)
Retry ==
  /\ pc = "add"
  /\ LET call == AddValueCall(page, pending)
     IN IF AddValuePanics(page, pending) THEN Fail("panicked")
        ELSE /\ ApplyAdd(call, pending)
             /\ IF call.result # None THEN RetryStored(call.result[1])
                                       ELSE RetryFull

(* Delete a stored record picked by gen_range(0..len) (which panics when   *)
(* nothing is stored), expecting delete_value to succeed.                  *)
Evict ==
  /\ pc = "evict"
  /\ IF slots = <<>> THEN Fail("empty_range")
     ELSE \E i \in DOMAIN slots :
            /\ slots' = RemoveAt(slots, i)
            /\ vals' = RemoveAt(vals, i)
            /\ IF SlotLive(page, slots[i])
               THEN DeleteValue(slots[i]) /\ pc' = "add"
               ELSE DeleteValueRejected(slots[i]) /\ pc' = "delete_failed"
            /\ UNCHANGED <<iter, yielded, queue, pending>>

TestStep == Load \/ Check \/ Churn \/ Retry \/ Evict

(* The test has returned or stopped on a failure: nothing happens any more. *)
Stopped ==
  /\ pc \notin Running
  /\ UNCHANGED testVars

TestNext == TestStep \/ Stopped

TestSpec == TestInit /\ [][TestNext]_testVars

-----------------------------------------------------------------------------
(* The test never fails: loading never runs out of payloads, every check  *)
(* iterates exactly the stored payloads, the retry loop never has to pick *)
(* from an empty list, every delete it makes succeeds, and no add_value    *)
(* panics, whatever lengths the generator produced and whichever records  *)
(* the random deletes removed.                                             *)
StressTestPasses == pc \notin Failures

=============================================================================
