------------------------------ MODULE PageDebug ------------------------------
(***************************************************************************)
(* fmt::Debug for Page (page.rs): the page buffer printed as rows of       *)
(* BYTES_PER_LINE bytes, each row prefixed by its offset, a zero byte as   *)
(* ".", 0xff as "##" and any other byte as two hex digits ({:02x}); runs   *)
(* of all-zero rows are replaced by one "<n> empty lines were hidden"     *)
(* line.  Each turn of the while loop is one step; `out` is the string     *)
(* buffer as its sequence of lines.  The first line, "PID:<id>", carries   *)
(* the page id, which is not part of the model.                            *)
(***************************************************************************)
EXTENDS Naturals, Sequences, SequencesExt

CONSTANTS
  Sizes,  \* candidate values of len_bytes (PAGE_SIZE)
  LINE,   \* BYTES_PER_LINE
  Bytes   \* byte values, a subset of 0..255

ASSUME LINE > 0 /\ Bytes \subseteq 0..255 /\ Sizes \subseteq Nat

VARIABLES
  buf,         \* self.to_bytes()
  pos,         \* pos
  emptyLines,  \* empty_lines_count
  out,         \* buffer, line by line
  done         \* fmt has written the buffer to f

dbgVars == <<buf, pos, emptyLines, out, done>>

(* len_bytes = bytes.len()                                                 *)
N == Cardinality(DOMAIN buf)

PidLine == [kind |-> "pid"]
(* "<n> empty lines were hidden"                                           *)
Hidden(n) == [kind |-> "hidden", count |-> n]
(* "[<pos>] " followed by one cell per byte                                *)
Row(p, cells) == [kind |-> "row", pos |-> p, cells |-> cells]

(* The match on each byte: ".  ", "## ", or {:02x}, two hex digits.        *)
Cell(b) ==
  [glyph |-> IF b = 0 THEN "." ELSE IF b = 255 THEN "##" ELSE "hex",
   hi |-> b \div 16, lo |-> b % 16]

DebugInit ==
  /\ buf \in UNION {[0..n-1 -> Bytes] : n \in Sizes}
  /\ pos = 0
  /\ emptyLines = 0
  /\ out = << PidLine >>
  /\ done = FALSE

(* pv: the next BYTES_PER_LINE bytes, or the `remaining` ones at the end.  *)
Width == IF N - pos > LINE THEN LINE ELSE N - pos
Pv == [i \in 1..Width |-> buf[pos + i - 1]]

(* pv.eq(&comp): comp is BYTES_PER_LINE zeros, so a shorter pv never      *)
(* equals it.                                                              *)
IsEmptyLine == Pv = [i \in 1..LINE |-> 0]

Turn == ~done /\ pos < N

(* An empty row: count it and skip it.                                     *)
FmtSkipEmpty ==
  /\ Turn
  /\ IsEmptyLine
  /\ emptyLines' = emptyLines + 1
  /\ pos' = pos + LINE
  /\ UNCHANGED <<buf, out, done>>

(* Fault variant: a printed row that leaves empty_lines_count as it was.  *)
FmtRowNoReset ==
  /\ Turn
  /\ ~IsEmptyLine
  /\ out' = out \o (IF emptyLines # 0 THEN << Hidden(emptyLines) >> ELSE << >>)
                \o << Row(pos, [i \in 1..Width |-> Cell(Pv[i])]) >>
  /\ pos' = pos + LINE
  /\ UNCHANGED <<buf, emptyLines, done>>

(* A row to print: first the pending hidden-lines line, then the row.     *)
FmtRow ==
  /\ Turn
  /\ ~IsEmptyLine
  /\ out' = out \o (IF emptyLines # 0 THEN << Hidden(emptyLines) >> ELSE << >>)
                \o << Row(pos, [i \in 1..Width |-> Cell(Pv[i])]) >>
  /\ emptyLines' = 0
  /\ pos' = pos + LINE
  /\ UNCHANGED <<buf, done>>

(* Fault variant: the loop ends without reporting trailing empty rows.    *)
FmtReturnUnflushed ==
  /\ ~done
  /\ pos >= N
  /\ done' = TRUE
  /\ UNCHANGED <<buf, pos, emptyLines, out>>

(* After the loop: report the empty rows still pending, write the buffer.  *)
FmtReturn ==
  /\ ~done
  /\ pos >= N
  /\ out' = out \o (IF emptyLines # 0 THEN << Hidden(emptyLines) >> ELSE << >>)
  /\ done' = TRUE
  /\ UNCHANGED <<buf, pos, emptyLines>>

Returned ==
  /\ done
  /\ UNCHANGED dbgVars

DebugNext == FmtSkipEmpty \/ FmtRow \/ FmtReturn \/ Returned

DebugSpec == DebugInit /\ [][DebugNext]_dbgVars

-----------------------------------------------------------------------------
(* Reading the output back.                                                *)

CellByte(c) == IF c.glyph = "." THEN 0 ELSE IF c.glyph = "##" THEN 255
               ELSE c.hi * 16 + c.lo

(* The bytes a line of the output stands for.                              *)
Chunk(l) ==
  IF l.kind = "hidden" THEN [i \in 1..(l.count * LINE) |-> 0]
  ELSE IF l.kind = "row" THEN [i \in DOMAIN l.cells |-> CellByte(l.cells[i])]
  ELSE << >>

Chunks == [k \in DOMAIN out |-> Chunk(out[k])]

(* The Debug output is lossless: expanding every hidden-lines count into   *)
(* that many zero rows and reading every row's cells back as bytes gives   *)
(* exactly the page buffer, and every row is labelled with the offset of   *)
(* its first byte, whatever runs of empty rows the page has and wherever   *)
(* they end.                                                               *)
DebugLossless ==
  done =>
    /\ FlattenSeq(Chunks) = [i \in 1..N |-> buf[i - 1]]
    /\ \A k \in DOMAIN out :
         out[k].kind = "row" => out[k].pos = Len(FlattenSeq(SubSeq(Chunks, 1, k - 1)))

(* The comment of the loop, "hide the empty lines": no row printed is all *)
(* zero bytes.                                                             *)
DebugHidesEmptyLines ==
  done =>
    \A k \in DOMAIN out :
      out[k].kind = "row" => \E i \in DOMAIN out[k].cells : out[k].cells[i].glyph # "."

=============================================================================
