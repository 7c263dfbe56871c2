------------------------------- MODULE Vectors -------------------------------
(***************************************************************************)
(* A column and the changes of a transaction that are applied to it.       *)
(*                                                                         *)
(* A vector is [typ, col, data, offsets, lengths, nulls]: col holds the    *)
(* values of a fixed-size type; data, offsets and lengths those of a byte  *)
(* type, one after the other in data.  Rows count from 0, as in the code.  *)
(***************************************************************************)
EXTENDS Integers, SequencesExt

CONSTANTS
  Fixed,         \* values of a fixed-size type
  Bytes,         \* values of a byte type
  MaxRows,       \* bound: rows of the column
  MaxApplies     \* bound: changes applied one after the other

VARIABLES
  vec,
  ref,           \* reference: the rows as a sequence of [val, null]
  applies,
  crashed        \* an index out of range or "not support" ended the process

vecVars == <<vec, ref, applies, crashed>>

Types == {"int32", "otherFixed", "bytes"}
Values(typ) == IF typ = "bytes" THEN Bytes ELSE Fixed

NewVector(typ) ==
  [typ |-> typ, col |-> <<>>, data |-> <<>>, offsets |-> <<>>, lengths |-> <<>>, nulls |-> {}]

AppendValue(v, val) ==
  IF v.typ # "bytes" THEN [v EXCEPT !.col = Append(@, val)]
  ELSE [v EXCEPT !.data = @ \o val, !.offsets = Append(@, Len(v.data)),
                 !.lengths = Append(@, Len(val))]

OutOfRange == <<-1>>

\* GetValue: the end of the slice is the length of the value.  OutOfRange
\* when the slice bounds are out of range.
GetValue(v, row) ==
  IF v.typ # "bytes" THEN v.col[row + 1]
  ELSE LET s == v.offsets[row + 1]
           e == v.lengths[row + 1]
       IN  IF s > e THEN OutOfRange ELSE SubSeq(v.data, s + 1, e)

VecRows(v) == IF v.typ = "bytes" THEN Len(v.lengths) ELSE Len(v.col)

(***************************************************************************)
(* Updates.                                                                *)
(***************************************************************************)
Ascending(S) == SetToSortSeq(S, <)

\* Offsets start + 1 .. end from the one before and its length.
UpdateOffsets(v, start, end) ==
  LET s == IF start = -1 THEN 0 ELSE start
      w == IF start = -1 THEN [v EXCEPT !.offsets[1] = 0] ELSE v
  IN  FoldLeft(LAMBDA u, i : [u EXCEPT !.offsets[i + 2] = u.offsets[i + 1] + u.lengths[i + 1]],
               w, [i \in 1 .. end - s |-> s + i - 1])

SetBytes(v, row, val) ==
  LET off == v.offsets[row + 1] IN
  [v EXCEPT !.data = SubSeq(@, 1, off) \o val
                     \o SubSeq(@, off + v.lengths[row + 1] + 1, Len(@)),
            !.lengths[row + 1] = Len(val)]

\* Variant: the offsets behind an updated row are only corrected at the end.
UpdateBytesAtEnd(v, vals) ==
  LET w == FoldLeft(LAMBDA u, row : SetBytes(u, row, vals[row]), v, Ascending(DOMAIN vals))
  IN  IF vals = <<>> THEN v ELSE UpdateOffsets(w, 0, Len(w.lengths) - 1)

UpdateBytes(v, vals) ==
  LET step(a, row) ==
        [pre |-> row,
         v   |-> SetBytes(IF a.pre = -1 THEN a.v ELSE UpdateOffsets(a.v, a.pre, row), row, vals[row])]
      out == FoldLeft(step, [pre |-> -1, v |-> v], Ascending(DOMAIN vals))
  IN  IF out.pre = -1 THEN v ELSE UpdateOffsets(out.v, out.pre, Len(out.v.lengths) - 1)

\* An updated row is not null.
ApplyVals(v, vals) ==
  LET w == IF v.typ = "bytes" THEN UpdateBytes(v, vals)
           ELSE [v EXCEPT !.col = [i \in DOMAIN @ |-> IF i - 1 \in DOMAIN vals THEN vals[i - 1] ELSE @[i]]]
  IN  [w EXCEPT !.nulls = @ \ DOMAIN vals]

(***************************************************************************)
(* Deletes.                                                                *)
(***************************************************************************)
\* copy(arr[pos:], src)
CopyTo(arr, pos, src) ==
  [i \in DOMAIN arr |-> IF i > pos /\ i <= pos + Len(src) THEN src[i - pos] ELSE arr[i]]

InplaceDeleteRows(col, deletes) ==
  LET step(a, row) ==
        [arr |-> CopyTo(a.arr, a.pos, SubSeq(a.arr, a.prev + 2, row)),
         pos |-> a.pos + row - a.prev - 1, prev |-> row]
      out  == FoldLeft(step, [arr |-> col, pos |-> 0, prev |-> -1], Ascending(deletes))
      left == SubSeq(out.arr, out.prev + 2, Len(out.arr))
  IN  SubSeq(CopyTo(out.arr, out.pos, left), 1, out.pos + Len(left))

\* Row row, the next after the row that was at pre, when deleted rows are gone.
DeleteBytes(v, row, pre, deleted) ==
  LET curr == row - deleted
      last == curr = Len(v.lengths) - 1
      w    == IF pre = -1 THEN v ELSE UpdateOffsets(v, pre - 1, IF last THEN curr ELSE curr + 1)
      tail == IF last THEN <<>> ELSE SubSeq(w.data, w.offsets[curr + 2] + 1, Len(w.data))
  IN  [w EXCEPT !.data = SubSeq(@, 1, w.offsets[curr + 1]) \o tail,
                !.lengths = RemoveAt(@, curr + 1), !.offsets = RemoveAt(@, curr + 1)]

DeleteAllBytes(v, deletes) ==
  LET step(a, row) == [v |-> DeleteBytes(a.v, row, a.pre, a.gone),
                       pre |-> row - a.gone, gone |-> a.gone + 1]
      out == FoldLeft(step, [v |-> v, pre |-> -1, gone |-> 0], Ascending(deletes))
  IN  UpdateOffsets(out.v, out.pre - 1, Len(out.v.lengths) - 1)

\* The nulls below each deleted row move down by the rows deleted before it.
ShiftNulls(nulls, deletes) ==
  LET step(a, row) == [left |-> {n \in a.left : n > row},
                       nsp  |-> a.nsp \cup {n - a.gone : n \in {m \in a.left : m < row}},
                       gone |-> a.gone + 1]
      out == FoldLeft(step, [left |-> nulls, nsp |-> {}, gone |-> 0], Ascending(deletes))
  IN  out.nsp \cup {n - out.gone : n \in out.left}

ApplyDeletes(v, deletes) ==
  [(IF v.typ = "bytes" THEN DeleteAllBytes(v, deletes)
    ELSE [v EXCEPT !.col = InplaceDeleteRows(@, deletes)])
   EXCEPT !.nulls = ShiftNulls(v.nulls, deletes)]

\* InplaceDeleteRows knows int32 only; when no row is left there is no offset
\* to reset.
ApplyPanics(v, deletes) ==
  /\ deletes # {}
  /\ \/ v.typ = "otherFixed"
     \/ v.typ = "bytes" /\ Cardinality(deletes) = VecRows(v)

(***************************************************************************)
(* Actions.                                                                *)
(***************************************************************************)
VecInit ==
  /\ \E typ \in Types : vec = NewVector(typ)
  /\ ref = <<>> /\ applies = 0 /\ crashed = FALSE

AppendRow(val, null) ==
  /\ applies = 0 /\ Len(ref) < MaxRows
  /\ vec' = [AppendValue(vec, val) EXCEPT !.nulls = IF null THEN @ \cup {Len(ref)} ELSE @]
  /\ ref' = Append(ref, [val |-> val, null |-> null])
  /\ UNCHANGED <<applies, crashed>>

\* Of the reference, rows are replaced and rows are left out.
Changed(rows, vals, deletes) ==
  LET after == [i \in DOMAIN rows |-> IF i - 1 \in DOMAIN vals
                                      THEN [val |-> vals[i - 1], null |-> FALSE] ELSE rows[i]]
      kept  == Ascending({i \in DOMAIN rows : i - 1 \notin deletes})
  IN  [i \in DOMAIN kept |-> after[kept[i]]]

ApplyToColumn(vals, deletes) ==
  /\ applies < MaxApplies /\ ~crashed
  /\ applies' = applies + 1
  /\ LET v == ApplyVals(vec, vals) IN
     IF ApplyPanics(v, deletes) THEN crashed' = TRUE /\ UNCHANGED <<vec, ref>>
     ELSE /\ vec' = IF deletes = {} THEN v ELSE ApplyDeletes(v, deletes)
          /\ ref' = Changed(ref, vals, deletes)
          /\ UNCHANGED crashed

AllRows == 0 .. Len(ref) - 1
VecNext ==
  \/ \E val \in Values(vec.typ), null \in BOOLEAN : AppendRow(val, null)
  \/ \E upd, deletes \in SUBSET AllRows :
       \E vals \in [upd -> Values(vec.typ)] : ApplyToColumn(vals, deletes)

VecSpec == VecInit /\ [][VecNext]_vecVars

(***************************************************************************)
(* Properties.                                                             *)
(***************************************************************************)
ValueAt(v, row) ==
  IF v.typ # "bytes" THEN v.col[row + 1]
  ELSE SubSeq(v.data, v.offsets[row + 1] + 1, v.offsets[row + 1] + v.lengths[row + 1])

\* After any changes the column has the rows of the reference: every update at
\* its row, no deleted row, nulls with their rows, no byte left over.  GetValue
\* reads the row's own value from a fixed-size column; from a byte column it
\* does so only for the rows that start the data.
ColumnApplied ==
  /\ VecRows(vec) = Len(ref)
  /\ \A row \in AllRows : /\ ValueAt(vec, row) = ref[row + 1].val
                          /\ row \in vec.nulls <=> ref[row + 1].null
  /\ vec.nulls \subseteq AllRows
  /\ Len(vec.data) = FoldLeft(LAMBDA a, n : a + n, 0, vec.lengths)
  /\ \A row \in AllRows :
       GetValue(vec, row) = ref[row + 1].val
         <=> vec.typ = "bytes" => vec.offsets[row + 1] = 0
=============================================================================
