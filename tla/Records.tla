------------------------------- MODULE Records -------------------------------
(***************************************************************************)
(* The records of transactions: commands that are written one after the    *)
(* other into a log entry and can be built again from it, and the keys of  *)
(* the anti-dependency check.                                              *)
(*                                                                         *)
(* A stream is a sequence of words, the code's 16 bits: int16 is one word, *)
(* uint32 two, uint64 four, big endian; what is not an integer (a char, a  *)
(* type, the bytes of a vector) is a word per unit.  A word has W values   *)
(* instead of 65536, and the catalog's tags begin at 8 instead of 256.     *)
(*                                                                         *)
(* What is read is <<value, rest>>, or Failed (an error or a panic).       *)
(***************************************************************************)
EXTENDS Integers, SequencesExt, TLC

CONSTANTS
  W,             \* values of a word
  Commands,      \* the commands that transactions log
  MaxCmds,       \* bound: commands of a record
  Ids            \* ids of tables and segments

VARIABLES
  cmds,          \* commandManager.cmd.Cmds
  csn,           \* commandManager.csn
  entry,         \* the log entry of ApplyTxnRecord, or NoEntry
  symTable,      \* warChecker.symTable
  touched        \* history: the databases, tables and segments it stands for

recVars == <<cmds, csn, entry, symTable, touched>>

(***************************************************************************)
(* Integers and strings.                                                   *)
(***************************************************************************)
Failed == <<>>
OK(v, s) == <<v, s>>
Skip(s, n) == SubSeq(s, n + 1, Len(s))

\* binary.Write of v in n words; what does not fit is cut off.
Put(v, n) == [i \in 1 .. n |-> (v \div W ^ (n - i)) % W]
Num(s) == FoldLeft(LAMBDA a, w : a * W + w, 0, s)

\* Several integers, of the widths ws.
PutAll(vs, ws) == FlattenSeq([i \in DOMAIN ws |-> Put(vs[i], ws[i])])

\* binary.Read into each of them: an error when the stream ends.
From(ws, i) == FoldLeft(LAMBDA a, w : a + w, 0, SubSeq(ws, 1, i - 1))
GetAll(ws, s) ==
  LET n == From(ws, Len(ws) + 1) IN
  IF Len(s) < n THEN Failed
  ELSE OK([i \in DOMAIN ws |-> Num(SubSeq(s, From(ws, i) + 1, From(ws, i) + ws[i]))], Skip(s, n))

\* io.Reader.Read of n units: only an empty stream is an error, what is
\* missing stays zero.
Fill(n, s) ==
  IF n > 0 /\ s = <<>> THEN Failed
  ELSE OK([i \in 1 .. n |-> IF i <= Len(s) THEN s[i] ELSE 0], Skip(s, n))

\* WriteString, ReadString: the length is an uint16.
WriteString(str) == Put(Len(str), 1) \o str
ReadString(s) == IF s = <<>> THEN Failed ELSE Fill(Num(<<s[1]>>), Tail(s))

\* Reading goes on with the result of the step before.
Then(r, Cont(_, _)) == IF r = Failed THEN Failed ELSE Cont(r[1], r[2])

(***************************************************************************)
(* IDs: TableID, SegmentID, BlockID, PartID, Idx, Iter.                    *)
(***************************************************************************)
IDWidths == <<4, 4, 4, 2, 1, 1>>
MarshalID(id) == PutAll(id, IDWidths)
UnmarshalID(s) == Then(Fill(16, s), LAMBDA buf, rest : OK(GetAll(IDWidths, buf)[1], rest))

(***************************************************************************)
(* Bitmaps (external): the bytes say themselves where they end.            *)
(***************************************************************************)
Cookie == 11
BitmapBytes(S) == <<Cookie, Cardinality(S)>> \o SetToSortSeq(S, <)
BitmapFrom(s) ==
  IF Len(s) < 2 \/ Len(s) < 2 + s[2] \/ s[1] # Cookie THEN Failed
  ELSE OK(ToSet(SubSeq(s, 3, 2 + s[2])), Skip(s, 2 + s[2]))

(***************************************************************************)
(* Batches: a sequence of columns [typ, data].  The header has the total   *)
(* length, the number of columns and of rows, and of each column its type  *)
(* and length.                                                             *)
(***************************************************************************)
MarshalBatch(bat) ==
  LET heads == FlattenSeq([i \in DOMAIN bat |-> <<bat[i].typ>> \o Put(Len(bat[i].data), 2)])
      body  == Put(Len(bat), 1) \o Put(Len(bat[1].data), 2) \o heads
               \o FlattenSeq([i \in DOMAIN bat |-> bat[i].data])
  IN  Put(Len(body) + 2, 2) \o body

BatchOf(buf) ==
  LET vecs == buf[1]
      head(i) == SubSeq(buf, 3 * i + 1, 3 * i + 3)
      lens == [i \in 1 .. vecs |-> Num(Tail(head(i)))]
      pos(i) == 3 + 3 * vecs + From(lens, i)
  IN  [i \in 1 .. vecs |-> [typ |-> head(i)[1],
                            data |-> SubSeq(buf, pos(i) + 1, pos(i) + lens[i])]]

\* Headers that point outside the buffer are a panic.
BatchFits(buf) ==
  /\ Len(buf) >= 3 /\ Len(buf) >= 3 + 3 * buf[1]
  /\ Len(buf) >= 3 + 3 * buf[1]
       + FoldLeft(LAMBDA a, i : a + Num(SubSeq(buf, 3 * i + 2, 3 * i + 3)), 0, [i \in 1 .. buf[1] |-> i])

UnmarshalBatchFrom(s) ==
  Then(GetAll(<<2>>, s), LAMBDA size, r1 :
    IF size[1] < 2 THEN Failed
    ELSE Then(Fill(size[1] - 2, r1), LAMBDA buf, r2 :
           IF BatchFits(buf) THEN OK(BatchOf(buf), r2) ELSE Failed))

(***************************************************************************)
(* BlockUpdates: [id, deletes, cols], where cols maps a column to its      *)
(* values by row.  A column is written as its target, its mask and the     *)
(* masked values side by side, and read back by row; what was read of a    *)
(* block's deletes and columns is dropped.                                 *)
(***************************************************************************)
WriteColumn(id, vals) ==
  LET mask == BitmapBytes(DOMAIN vals)
      rows == SetToSortSeq(DOMAIN vals, <)
  IN  MarshalID(id) \o Put(Len(mask), 2) \o mask
      \o Put(Len(rows), 2) \o [i \in DOMAIN rows |-> vals[rows[i]]]

\* A length and as many units.
GetBytes(s) == Then(GetAll(<<2>>, s), LAMBDA n, rest : Fill(n[1], rest))

\* GetValue of a row that the vector does not have is a panic.
ReadColumn(s) ==
  Then(UnmarshalID(s), LAMBDA id, r1 :
    Then(GetBytes(r1), LAMBDA bytes, r2 :
      Then(BitmapFrom(bytes), LAMBDA mask, r3 :
        Then(GetBytes(r2), LAMBDA vec, r4 :
          IF \E row \in mask : row >= Len(vec) THEN Failed
          ELSE OK([row \in mask |-> vec[row + 1]], r4)))))

WriteUpdates(u) ==
  LET bytes == IF u.deletes = {} THEN <<>> ELSE BitmapBytes(u.deletes)
      idx   == SetToSortSeq(DOMAIN u.cols, <)
  IN  MarshalID(u.id) \o Put(Len(bytes), 2) \o bytes \o Put(Len(idx), 1)
      \o FlattenSeq([i \in DOMAIN idx |-> <<idx[i]>> \o WriteColumn(u.id, u.cols[idx[i]])])

RECURSIVE ReadColumns(_, _)
ReadColumns(n, s) ==
  IF n = 0 THEN OK(<<>>, s)
  ELSE Then(GetAll(<<1>>, s), LAMBDA idx, r1 :
         Then(ReadColumn(r1), LAMBDA vals, r2 : ReadColumns(n - 1, r2)))

ReadUpdates(s) ==
  Then(UnmarshalID(s), LAMBDA id, r1 :
    Then(GetBytes(r1), LAMBDA deletes, r2 :
      Then(GetAll(<<1>>, r2), LAMBDA n, r3 :
        Then(ReadColumns(n[1], r3), LAMBDA none, r4 :
          OK([id |-> id, deletes |-> {}, cols |-> <<>>], r4)))))

(***************************************************************************)
(* Schemas: [ints, name, cols, index].  The ints are BlockMaxRows,         *)
(* PrimaryKey and SegmentMaxBlocks; index is NameIndex, which is not       *)
(* written.                                                                *)
(***************************************************************************)
SchemaWidths == <<2, 2, 1>>

MarshalSchema(c) ==
  PutAll(c.ints, SchemaWidths) \o WriteString(c.name) \o Put(Len(c.cols), 1)
  \o FlattenSeq([i \in DOMAIN c.cols |-> <<c.cols[i].typ>> \o WriteString(c.cols[i].name)])

RECURSIVE ReadColDefs(_, _, _)
ReadColDefs(n, defs, s) ==
  IF n = 0 THEN OK(defs, s)
  ELSE Then(Fill(1, s), LAMBDA typ, r1 :
         Then(ReadString(r1), LAMBDA name, r2 :
           ReadColDefs(n - 1, Append(defs, [typ |-> typ[1], name |-> name]), r2)))

ReadSchema(s) ==
  Then(GetAll(SchemaWidths, s), LAMBDA ints, r1 :
    Then(ReadString(r1), LAMBDA name, r2 :
      Then(GetAll(<<1>>, r2), LAMBDA n, r3 :
        Then(ReadColDefs(n[1], <<>>, r3), LAMBDA defs, r4 :
          OK([ints |-> ints, name |-> name, cols |-> defs, index |-> <<>>], r4)))))

\* AppendCol
AppendCol(c, name, typ) ==
  [c EXCEPT !.cols = Append(@, [typ |-> typ, name |-> name]), !.index = (name :> Len(c.cols)) @@ @]

(***************************************************************************)
(* Commands, by tag.  A catalog command is [tag, id, ent, nums, text]: its *)
(* number in the record, the id of its entry, further ids and the time,    *)
(* and a name or schema if it has one.                                     *)
(***************************************************************************)
CmdPointer == 0
CmdDeleteBitmap == 1
CmdBatch == 2
CmdUpdate == 4
CmdComposed == 6
CmdAppend == 7
CmdCreateDatabase == 8
CmdDropDatabase == 9
CmdCreateTable == 10
CmdDropTable == 11
CmdCreateSegment == 12
CmdDropSegment == 13
CmdCreateBlock == 14
CmdDropBlock == 15

\* How many uint64 follow the id of the entry.
Nums(tag) ==
  CASE tag \in {CmdCreateDatabase, CmdDropDatabase} -> 1
    [] tag \in {CmdCreateTable, CmdDropTable}       -> 2
    [] tag = CmdCreateSegment                       -> 3
    [] tag = CmdCreateBlock                         -> 4
    [] tag \in {CmdDropSegment, CmdDropBlock}       -> 0
EntryWidths(tag) == <<2, 4>> \o [i \in 1 .. Nums(tag) |-> 4]

WriteEntry(c) ==
  PutAll(<<c.id, c.ent>> \o c.nums, EntryWidths(c.tag))
  \o CASE c.tag = CmdCreateDatabase -> WriteString(c.text)
       [] c.tag = CmdCreateTable    -> MarshalSchema(c.text)
       [] OTHER                     -> <<>>

\* The segment that CmdCreateBlock reads is replaced by one with the block's id.
EntryOf(tag, v, text) ==
  LET nums == SubSeq(v, 3, Len(v)) IN
  [tag |-> tag, id |-> v[1], ent |-> v[2], text |-> text,
   nums |-> IF tag = CmdCreateBlock THEN [nums EXCEPT ![3] = v[2]] ELSE nums]

ReadEntry(tag, s) ==
  Then(GetAll(EntryWidths(tag), s), LAMBDA v, r1 :
    Then(CASE tag = CmdCreateDatabase -> ReadString(r1)
           [] tag = CmdCreateTable    -> ReadSchema(r1)
           [] OTHER                   -> OK(<<>>, r1),
         LAMBDA text, r2 : OK(EntryOf(tag, v, text), r2)))

\* Each command's WriteTo.  An AppendCmd writes its parts as a ComposedCmd,
\* tag included.
RECURSIVE WriteTo(_)
WriteComposed(c) ==
  Put(CmdComposed, 1) \o Put(Len(c.cmds), 2)
  \o FlattenSeq([i \in DOMAIN c.cmds |-> WriteTo(c.cmds[i])])
WriteTo(c) ==
  CASE c.tag = CmdPointer      -> Put(c.tag, 1) \o PutAll(<<c.group, c.lsn>>, <<2, 4>>)
    [] c.tag = CmdDeleteBitmap -> Put(c.tag, 1) \o BitmapBytes(c.bitmap)
    [] c.tag = CmdBatch        -> Put(c.tag, 1) \o MarshalBatch(c.bat)
    [] c.tag = CmdUpdate       -> Put(c.tag, 1) \o Put(c.id, 2) \o WriteUpdates(c.upd)
    [] c.tag = CmdComposed     -> WriteComposed(c)
    [] c.tag = CmdAppend       -> Put(c.tag, 1) \o Put(c.id, 2) \o WriteComposed(c)
    [] OTHER                   -> Put(c.tag, 1) \o WriteEntry(c)

\* BuildCommandFrom, with each command's ReadFrom.  An unknown tag is a panic.
RECURSIVE BuildCommandFrom(_), ReadCmds(_, _, _)
ReadCmds(n, done, s) ==
  IF n = 0 THEN OK(done, s)
  ELSE Then(BuildCommandFrom(s), LAMBDA c, rest : ReadCmds(n - 1, Append(done, c), rest))
ReadComposed(s) == Then(GetAll(<<2>>, s), LAMBDA n, rest : ReadCmds(n[1], <<>>, rest))
ReadTagged(tag, s) ==
  CASE tag = CmdPointer ->
         Then(GetAll(<<2, 4>>, s), LAMBDA v, r : OK([tag |-> tag, group |-> v[1], lsn |-> v[2]], r))
    [] tag = CmdDeleteBitmap ->
         Then(BitmapFrom(s), LAMBDA b, r : OK([tag |-> tag, bitmap |-> b], r))
    [] tag = CmdBatch ->
         Then(UnmarshalBatchFrom(s), LAMBDA b, r : OK([tag |-> tag, bat |-> b], r))
    [] tag = CmdUpdate ->
         Then(GetAll(<<2>>, s), LAMBDA id, r1 :
           Then(ReadUpdates(r1), LAMBDA u, r2 : OK([tag |-> tag, id |-> id[1], upd |-> u], r2)))
    [] tag = CmdComposed ->
         Then(ReadComposed(s), LAMBDA cs, r : OK([tag |-> tag, cmds |-> cs], r))
    [] tag = CmdAppend ->
         Then(GetAll(<<2>>, s), LAMBDA id, r1 :
           Then(ReadComposed(r1), LAMBDA cs, r2 : OK([tag |-> tag, id |-> id[1], cmds |-> cs], r2)))
    [] tag >= CmdCreateDatabase /\ tag <= CmdDropBlock -> ReadEntry(tag, s)
    [] OTHER -> Failed
BuildCommandFrom(s) == Then(GetAll(<<1>>, s), LAMBDA tag, rest : ReadTagged(tag[1], rest))

(***************************************************************************)
(* Keys: a kind and the ids down to the entry.  The checker records the    *)
(* entry and all above it.                                                 *)
(***************************************************************************)
Wide(n) == [i \in 1 .. n |-> 4]
Encode(path) == Put(Len(path) - 1, 1) \o PutAll(path, Wide(Len(path)))
Decode(key) == IF key[1] > 3 THEN <<>> ELSE GetAll(Wide(key[1] + 1), Tail(key))[1]

\* Variant: the table's symbol has the table's id for the database's.
ReadVarOwnId(path) ==
  /\ symTable' = symTable \cup {Encode(IF i = 2 THEN <<path[2], path[2]>> ELSE SubSeq(path, 1, i))
                                  : i \in DOMAIN path}
  /\ touched' = touched \cup {SubSeq(path, 1, i) : i \in DOMAIN path}
  /\ UNCHANGED <<cmds, csn, entry>>

\* readDBVar, readTableVar, readSegmentVar
ReadVar(path) ==
  /\ symTable' = symTable \cup {Encode(SubSeq(path, 1, i)) : i \in DOMAIN path}
  /\ touched' = touched \cup {SubSeq(path, 1, i) : i \in DOMAIN path}
  /\ UNCHANGED <<cmds, csn, entry>>

(***************************************************************************)
(* The command manager of one transaction.                                 *)
(***************************************************************************)
NoEntry == <<>>
RecInit == cmds = <<>> /\ csn = 0 /\ entry = NoEntry /\ symTable = {} /\ touched = {}

AddCmd(c) ==
  /\ Len(cmds) < MaxCmds /\ entry = NoEntry
  /\ cmds' = Append(cmds, [c EXCEPT !.id = csn])
  /\ csn' = csn + 1
  /\ UNCHANGED <<entry, symTable, touched>>

ApplyTxnRecord ==
  /\ entry = NoEntry /\ cmds # <<>>
  /\ entry' = WriteTo([tag |-> CmdComposed, cmds |-> cmds])
  /\ UNCHANGED <<cmds, csn, symTable, touched>>

RecNext == ApplyTxnRecord \/ \E c \in Commands : AddCmd(c)

\* The checker's database is 1.
SymNext == ReadVar(<<1>>) \/ \E t, g \in Ids : ReadVar(<<1, t>>) \/ ReadVar(<<1, t, g>>)

RecSpec == RecInit /\ [][RecNext \/ SymNext]_recVars

(***************************************************************************)
(* Properties.                                                             *)
(***************************************************************************)
Strings(c) ==
  CASE c.tag = CmdCreateDatabase -> {c.text}
    [] c.tag = CmdCreateTable    -> {c.text.name} \cup {c.text.cols[i].name : i \in DOMAIN c.text.cols}
    [] OTHER                     -> {}
Readable(c) ==
  /\ c.tag # CmdAppend
  /\ \A str \in Strings(c) : Len(str) < W
  /\ c.tag = CmdUpdate => \A i \in DOMAIN c.upd.cols :
        \A row \in DOMAIN c.upd.cols[i] : row < Cardinality(DOMAIN c.upd.cols[i])

\* What is left of a command when it is read.
Survives(c) ==
  CASE c.tag = CmdCreateTable -> [c EXCEPT !.text.index = <<>>]
    [] c.tag = CmdCreateBlock -> [c EXCEPT !.nums[3] = c.ent]
    [] c.tag = CmdUpdate      -> [c EXCEPT !.upd.deletes = {}, !.upd.cols = <<>>]
    [] OTHER                  -> c


\* The check finds by their keys exactly the entries that the transaction
\* used: no two of them share a key, and each key leads back to its entry in
\* the checker's database.
SymbolsResolve ==
  /\ {Decode(k) : k \in symTable} = touched
  /\ Cardinality(symTable) = Cardinality(touched)
  /\ \A k \in symTable : Decode(k)[1] = 1
=============================================================================
