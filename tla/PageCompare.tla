----------------------------- MODULE PageCompare -----------------------------
(***************************************************************************)
(* Page::compare_page (page.rs): the list of (offset, differing bytes)     *)
(* where a page differs from another buffer, built by one pass over the    *)
(* two buffers zipped together.  Each turn of its for loop is one step, so *)
(* the run state (in_diff, diff_start, diff_vec) is visible between turns; *)
(* the two buffers are any pair of byte arrays of length N.  The length    *)
(* assert is left out: the buffers are always the same length here.       *)
(***************************************************************************)
EXTENDS Naturals, Sequences, SequencesExt

CONSTANTS
  N,      \* bytes per buffer (PAGE_SIZE)
  Bytes   \* byte values

VARIABLES
  mine,       \* self.to_bytes()
  other,      \* other_page
  i,          \* the loop index
  inDiff,     \* in_diff
  diffStart,  \* diff_start
  diffVec,    \* diff_vec
  res,        \* res
  done        \* compare_page has returned res

cmpVars == <<mine, other, i, inDiff, diffStart, diffVec, res, done>>

CompareInit ==
  /\ mine \in [0..N-1 -> Bytes]
  /\ other \in [0..N-1 -> Bytes]
  /\ i = 0
  /\ inDiff = FALSE
  /\ diffStart = 0
  /\ diffVec = <<>>
  /\ res = <<>>
  /\ done = FALSE

Turn == ~done /\ i < N

(* b1 != b2: open a run at i unless one is open, and take self's byte.     *)
CompareDiffer ==
  /\ Turn
  /\ mine[i] # other[i]
  /\ IF inDiff THEN UNCHANGED diffStart ELSE diffStart' = i
  /\ inDiff' = TRUE
  /\ diffVec' = Append(diffVec, mine[i])
  /\ i' = i + 1
  /\ UNCHANGED <<mine, other, res, done>>

(* Fault variant: the run closed without clearing diff_vec.                *)
CompareCloseRunUncleared ==
  /\ Turn
  /\ mine[i] = other[i]
  /\ inDiff
  /\ res' = Append(res, <<diffStart, diffVec>>)
  /\ inDiff' = FALSE
  /\ i' = i + 1
  /\ UNCHANGED <<mine, other, diffStart, diffVec, done>>

(* b1 == b2 with a run open: push (diff_start, diff_vec), clear, close.    *)
CompareCloseRun ==
  /\ Turn
  /\ mine[i] = other[i]
  /\ inDiff
  /\ res' = Append(res, <<diffStart, diffVec>>)
  /\ diffVec' = <<>>
  /\ inDiff' = FALSE
  /\ i' = i + 1
  /\ UNCHANGED <<mine, other, diffStart, done>>

(* b1 == b2 and no run open: nothing but the next index.                   *)
CompareSame ==
  /\ Turn
  /\ mine[i] = other[i]
  /\ ~inDiff
  /\ i' = i + 1
  /\ UNCHANGED <<mine, other, inDiff, diffStart, diffVec, res, done>>

(* The loop is over: res is returned as it stands.                         *)
CompareReturn ==
  /\ ~done
  /\ i = N
  /\ done' = TRUE
  /\ UNCHANGED <<mine, other, i, inDiff, diffStart, diffVec, res>>

Returned ==
  /\ done
  /\ UNCHANGED cmpVars

CompareNext ==
  \/ CompareDiffer \/ CompareCloseRun \/ CompareSame \/ CompareReturn
  \/ Returned

CompareSpec == CompareInit /\ [][CompareNext]_cmpVars

-----------------------------------------------------------------------------
(* Reference: the maximal runs of positions where the buffers differ, in   *)
(* ascending order, each with self's bytes over the run.                   *)

Differs(k) == mine[k] # other[k]

RunStarts == {k \in 0..N-1 : Differs(k) /\ (k = 0 \/ ~Differs(k - 1))}

RunEnd(s) == CHOOSE e \in (s+1)..N : (e = N \/ ~Differs(e))
                                     /\ \A k \in s..(e-1) : Differs(k)

DiffRuns ==
  LET starts == SetToSortSeq(RunStarts, <)
  IN [r \in DOMAIN starts |->
        <<starts[r], [j \in 1..(RunEnd(starts[r]) - starts[r]) |->
                        mine[starts[r] + j - 1]]>>]

(* Every (offset, bytes) compare_page returns is a maximal run where the   *)
(* buffers differ, with self's bytes over it, and the runs come in         *)
(* ascending order with none skipped before the last one returned: what it *)
(* reports is an initial part of the true list of differences.             *)
ComparePageSound == done => IsPrefix(res, DiffRuns)

(* The doc comment of compare_page: the result lists where this page       *)
(* differs from other_page, every difference included.                     *)
ComparePageComplete == done => res = DiffRuns

=============================================================================
