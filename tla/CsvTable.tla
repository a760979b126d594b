------------------------------ MODULE CsvTable ------------------------------
(***************************************************************************)
(* Sloppy::CSV_Table (CSV.h/.cpp): rows of values, a number of columns and *)
(* a map from header names to column indices, which every operation has to *)
(* keep in step.                                                           *)
(*                                                                         *)
(* A call that returns false changes nothing; the actions are the calls    *)
(* that succeed, with the reasons to fail as their guards.  The parsing    *)
(* constructor is a sequence of setHeader() and append() on an empty table *)
(* that throws at the first failure.                                       *)
(***************************************************************************)
EXTENDS Integers, Sequences, SequencesExt, Functions

CONSTANTS Names,     \* valid header names: trimmed, no comma, no quotation mark
          Invalid,   \* any other header name
          Values,    \* the values of a table
          MaxCols,   \* bound: columns of a row or header that is passed
          MaxRows    \* bound: rows of the table

ASSUME TableAssumption ==
  Invalid \notin Names /\ MaxCols \in Nat /\ MaxRows \in Nat

VARIABLES colCount,
          rows,      \* std::vector<CSV_Row>
          header,    \* header2columnIndex, zero-based indices
          defined,   \* no iterator has been moved past the end of a row
          hollow     \* history: there have been rows while colCount was 0

vars == <<colCount, rows, header, defined, hollow>>

Rows == UNION {[1..n -> Values] : n \in 0..MaxCols}
HeaderLists == UNION {[1..n -> Names \cup {Invalid}] : n \in 0..MaxCols}
NoHeader == [n \in {} |-> 0]

Init ==
  /\ colCount = 0 /\ rows = <<>> /\ header = NoHeader
  /\ defined = TRUE /\ hollow = FALSE

-----------------------------------------------------------------------------
NoteHollow == hollow' = (hollow \/ (colCount' = 0 /\ rows' # <<>>))

\* append(): a table without columns takes those of the row.
AppendRow(r) ==
  /\ Len(rows) < MaxRows
  /\ colCount' = IF colCount = 0 THEN Len(r) ELSE colCount
  /\ Len(r) = colCount'
  /\ rows' = Append(rows, r)
  /\ NoteHollow
  /\ UNCHANGED <<header, defined>>

\* erase(first, last): the rows from first up to, but without, last.
EraseRows(first, last) ==
  /\ rows' = SubSeq(rows, 1, first - 1) \o SubSeq(rows, last, Len(rows))
  /\ UNCHANGED <<colCount, header, defined, hollow>>

\* setHeader(colIdx, newHeader): the column must have a header already, and no
\* column, not even this one, may have the new one.
SetHeaderOf(c, new) ==
  /\ new \in Names /\ new \notin DOMAIN header
  /\ \E old \in DOMAIN header :
       /\ header[old] = c
       /\ header' = [n \in (DOMAIN header \ {old}) \cup {new} |->
                       IF n = new THEN c ELSE header[n]]
  /\ UNCHANGED <<colCount, rows, defined, hollow>>

\* The zero-based index under which emplace() has put a name: its first one.
IndexIn(hs, n) ==
  (CHOOSE i \in DOMAIN hs : hs[i] = n /\ \A j \in 1..i-1 : hs[j] # n) - 1

\* setHeader(headers): all headers at once.
SetHeader(hs) ==
  /\ colCount > 0 => Len(hs) = colCount
  /\ IsInjective(hs) /\ \A i \in DOMAIN hs : hs[i] # Invalid
  /\ header' = [n \in {hs[i] : i \in DOMAIN hs} |-> IndexIn(hs, n)]
  /\ colCount' = Len(hs)
  /\ UNCHANGED <<rows, defined>>
  /\ NoteHollow

\* Slip: the rows lose their last column.
RowWithoutLast(r, c) == SubSeq(r, 1, Len(r) - 1)
RowWithout(r, c) == RemoveAt(r, c + 1)

\* Slip: every index is reduced.
ShiftedAll(i, c) == i - 1
\* The index of a column that remains.
Shifted(i, c) == IF i > c THEN i - 1 ELSE i

\* Slip: the indices behind the erased column are left as they are.
HeaderWithoutUnshifted(c) == Restrict(header, {n \in DOMAIN header : header[n] # c})
HeaderWithout(c) ==
  [n \in {m \in DOMAIN header : header[m] # c} |-> Shifted(header[n], c)]

\* eraseColumn(): a row that has no such column makes erase() undefined.
EraseColumn(c) ==
  /\ c < colCount
  /\ IF \E i \in DOMAIN rows : Len(rows[i]) <= c
     THEN defined' = FALSE /\ UNCHANGED <<colCount, rows, header, hollow>>
     ELSE /\ rows' = [i \in DOMAIN rows |-> RowWithout(rows[i], c)]
          /\ header' = HeaderWithout(c)
          /\ colCount' = colCount - 1
          /\ NoteHollow
          /\ UNCHANGED defined

Next ==
  /\ defined
  /\ \/ \E r \in Rows : AppendRow(r)
     \/ \E first \in DOMAIN rows : \E last \in first+1..Len(rows)+1 :
          EraseRows(first, last)
     \/ \E c \in 0..colCount-1 :
          \/ \E new \in Names \cup {Invalid} : SetHeaderOf(c, new)
          \/ EraseColumn(c)
     \/ \E hs \in HeaderLists : SetHeader(hs)

Spec == Init /\ [][Next]_vars

-----------------------------------------------------------------------------
(* Properties.                                                             *)

TypeOK ==
  /\ colCount \in Nat
  /\ rows \in Seq(Seq(Values))
  /\ header \in [DOMAIN header -> Nat] /\ DOMAIN header \subseteq Names
  /\ defined \in BOOLEAN /\ hollow \in BOOLEAN

\* Either no column has a header or each has exactly one: looking up the header
\* of a column always succeeds, after any renaming and erasing.
HeadersFit ==
  DOMAIN header # {} => header \in Bijection(DOMAIN header, 0..colCount-1)

\* "The class enforces that all rows have the same number of columns": it does
\* until a table has rows but no column, because the next row or header may then
\* have any length.  Rows of other lengths than nCols() are empty ones.
RowsFit ==
  /\ \A i \in DOMAIN rows : Len(rows[i]) \in {0, colCount}
  /\ ~hollow => defined /\ \A i \in DOMAIN rows : Len(rows[i]) = colCount

\* Header index, number of columns and rows, kept in three containers, belong
\* to the same table.
TableFits == HeadersFit /\ RowsFit

\* What get(rowIdx, colName) returns for all rows.
Column(rs, hd, n) == [i \in DOMAIN rs |-> rs[i][hd[n] + 1]]

\* Erasing a column leaves the columns of all other names as they are, although
\* their values and their indices are shifted in two different containers.
ErasesNothingElse ==
  [][(colCount' < colCount /\ ~hollow) =>
       \A n \in DOMAIN header' :
         n \in DOMAIN header
           /\ Column(rows', header', n) = Column(rows, header, n)]_vars
=============================================================================
