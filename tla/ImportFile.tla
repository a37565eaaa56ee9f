----------------------------- MODULE ImportFile -----------------------------
(***************************************************************************)
(* RS_sqlite_import (src/src/import-file.c): dbWriteTable() of a file.     *)
(* The file is read line by line, each line is cut into fields, and the    *)
(* fields are bound to an INSERT.                                          *)
(*                                                                         *)
(* A file is what write.table() makes of a data frame, so that what is     *)
(* imported can be compared with what was written.  A last line without an *)
(* end of line is not terminated in memory either: after it comes what     *)
(* the buffer held before.  A byte before the start of the buffer, which   *)
(* the comparison with a long eol may read, is no character of eol.        *)
(* Running out of memory is left out.                                      *)
(***************************************************************************)
EXTENDS Integers, Sequences, FiniteSetsExt, SequencesExt

CONSTANTS
    Tables,    \* contents of files: sequences of rows, which are sequences of cells
    Seps,      \* separators, sequences of characters
    Eols,      \* ends of line
    Skips,     \* lines to skip: skip + as.integer(header) of dbWriteTable
    Columns,   \* numbers of columns of the table
    Leftovers  \* what a buffer may hold after its last byte, up to a NUL

ASSUME SkipsAssumption == Skips \subseteq Nat /\ Columns \subseteq Nat \ {0}

\* Texts are sequences of characters; a row has a cell.
ASSUME TextsAssumption ==
    /\ Tables \subseteq Seq(Seq(Seq(STRING)) \ {<<>>})
    /\ Seps \cup Eols \cup Leftovers \subseteq Seq(STRING)

ASSUME EolsAssumption == <<>> \notin Eols

VARIABLES
    arg,       \* the arguments, with the table the file was written from
    pos,       \* characters read
    lineno,    \* lines read
    rows,      \* the rows inserted
    held,      \* what is neither finalized nor closed
    how        \* "start", "reading", and how the import has ended

vars == <<arg, pos, lineno, rows, held, how>>

NULL == <<"NULL">>

(***************************************************************************)
(* The file.                                                               *)
(***************************************************************************)

HasAt(s, text, z) ==
    z + Len(s) - 1 <= Len(text) /\ SubSeq(text, z, z + Len(s) - 1) = s

Occurs(s, text) == \E z \in DOMAIN text : HasAt(s, text, z)

\* The cells of a row between separators.
Joined(row, sep) == row[1] \o FlattenSeq([j \in 1 .. Len(row) - 1 |-> sep \o row[j + 1]])

File ==
    LET text == FlattenSeq([j \in DOMAIN arg.data |-> Joined(arg.data[j], arg.sep) \o arg.eol])
    IN  IF arg.ended \/ arg.data = <<>> THEN text
        ELSE SubSeq(text, 1, Len(text) - Len(arg.eol))

\* text \o s has s at its end only.
EndsIn(s, text) == \A z \in DOMAIN text : ~HasAt(s, text \o s, z)

\* The file tells where lines and cells end: an end of line does not begin inside
\* a line, nor a separator inside a cell.
Written(a) ==
    \A j \in DOMAIN a.data :
        /\ EndsIn(a.eol, Joined(a.data[j], a.sep))
        /\ \A k \in DOMAIN a.data[j] : EndsIn(a.sep, a.data[j][k])

-----------------------------------------------------------------------------

Init ==
    /\ arg \in {a \in [data : Tables, sep : Seps, eol : Eols, skip : Skips,
                       nCol : Columns, ended : BOOLEAN] : Written(a)}
    /\ pos = 0 /\ lineno = 0 /\ rows = <<>> /\ held = {} /\ how = "start"

\* An empty separator, or a statement that cannot be prepared.
Refused ==
    /\ how = "start"
    /\ how' = "refused"
    /\ UNCHANGED <<arg, pos, lineno, rows, held>>

\* Rf_error() comes before sqlite3_finalize().
CannotOpen ==
    /\ how = "start"
    /\ how' = "cannot open"
    /\ held' = {"statement"}
    /\ UNCHANGED <<arg, pos, lineno, rows>>

Open ==
    /\ how = "start" /\ arg.sep # <<>>
    /\ how' = "reading"
    /\ held' = {"statement", "file"}
    /\ UNCHANGED <<arg, pos, lineno, rows>>

(***************************************************************************)
(* RS_sqlite_getline.                                                      *)
(***************************************************************************)

\* Mutant of EolAt: only the last character of eol is compared.
EolAt_LastChar(q) == q - pos >= Len(arg.eol) /\ File[q] = Last(arg.eol)

\* The buffer, which starts after pos, ends with an end of line at q.
EolAt(q) ==
    /\ q - pos >= Len(arg.eol)
    /\ SubSeq(File, q - Len(arg.eol) + 1, q) = arg.eol

Ends == {q \in pos + 1 .. Len(File) : EolAt(q)}

\* The characters the next call reads up to, and the strings it may return; an
\* empty one stands for NULL.
NextPos == IF Ends = {} THEN Len(File) ELSE Min(Ends)

NextLines ==
    IF Ends # {} THEN {SubSeq(File, pos + 1, NextPos - Len(arg.eol))}
    ELSE IF pos = Len(File) THEN {<<>>}
    ELSE {SubSeq(File, pos + 1, NextPos) \o rest : rest \in Leftovers}

(***************************************************************************)
(* Fields.                                                                 *)
(***************************************************************************)

\* Mutant of Begins: no field after a separator at the end of the line.
Begins_DropsLast(line) ==
    LET begin[z \in 1 .. Len(line) + 1] ==
            IF z > Len(line) \/ line[z] \in {"\n", "\r"} THEN <<>>
            ELSE IF HasAt(arg.sep, line, z) /\ z + Len(arg.sep) <= Len(line)
                 THEN <<z + Len(arg.sep)>> \o begin[z + Len(arg.sep)]
                 ELSE begin[z + 1]
    IN  <<1>> \o begin[1]

\* Where the fields begin.  The search stops at a line break inside the line.
\* Separators after the last column are only counted.
Begins(line) ==
    LET begin[z \in 1 .. Len(line) + 1] ==
            IF z > Len(line) \/ line[z] \in {"\n", "\r"} THEN <<>>
            ELSE IF HasAt(arg.sep, line, z)
                 THEN <<z + Len(arg.sep)>> \o begin[z + Len(arg.sep)]
                 ELSE begin[z + 1]
    IN  <<1>> \o begin[1]

Fields(line) ==
    LET b == Begins(line)
    IN  [k \in DOMAIN b |->
            SubSeq(line, b[k], IF k = Len(b) THEN Len(line)
                               ELSE b[k + 1] - Len(arg.sep) - 1)]

\* \N, whatever comes after it.
Value(field) == IF IsPrefix(<<"\\", "N">>, field) THEN NULL ELSE field

Bound(line) == [k \in 1 .. arg.nCol |-> Value(Fields(line)[k])]

(***************************************************************************)
(* The loop.                                                               *)
(***************************************************************************)

Read ==
    /\ pos' = NextPos
    /\ lineno' = lineno + 1
    /\ UNCHANGED arg

\* Mutant of LinesToImport: skips one line less.
LinesToImport_OneMore ==
    IF how = "reading" /\ lineno >= arg.skip - 1 THEN NextLines \ {<<>>} ELSE {}

LinesToImport ==
    IF how = "reading" /\ lineno >= arg.skip THEN NextLines \ {<<>>} ELSE {}

SkipLine ==
    /\ how = "reading" /\ lineno < arg.skip /\ <<>> \notin NextLines
    /\ Read
    /\ UNCHANGED <<rows, held, how>>

\* sqlite3_step and sqlite3_reset succeed.
InsertLine ==
    \E line \in LinesToImport :
        /\ Len(Fields(line)) = arg.nCol
        /\ Read
        /\ rows' = Append(rows, Bound(line))
        /\ UNCHANGED <<held, how>>

\* ... or fail: the statement is finalized, the file stays open.
InsertFails ==
    \E line \in LinesToImport :
        /\ Len(Fields(line)) = arg.nCol
        /\ Read
        /\ held' = {"file"}
        /\ how' = "insert"
        /\ UNCHANGED rows

\* "line %d expected %d columns of data but found %d".
WrongColumns ==
    \E line \in LinesToImport :
        /\ Len(Fields(line)) # arg.nCol
        /\ Read
        /\ how' = "columns"
        /\ UNCHANGED <<rows, held>>

\* Mutant of Finish: no fclose().
Finish_LeavesOpen ==
    /\ how = "reading" /\ <<>> \in NextLines
    /\ pos' = NextPos
    /\ held' = {"file"}
    /\ how' = "done"
    /\ UNCHANGED <<arg, lineno, rows>>

\* getline returns NULL.
Finish ==
    /\ how = "reading" /\ <<>> \in NextLines
    /\ pos' = NextPos
    /\ held' = {}
    /\ how' = "done"
    /\ UNCHANGED <<arg, lineno, rows>>

Next ==
    \/ Refused \/ CannotOpen \/ Open
    \/ SkipLine \/ InsertLine \/ InsertFails \/ WrongColumns \/ Finish

Spec == Init /\ [][Next]_vars

-----------------------------------------------------------------------------
(***************************************************************************)
(* What was written.                                                       *)
(***************************************************************************)

\* The last line may come with leftovers.
Exact(j) == j < Len(arg.data) \/ arg.ended

\* No line break before the last cell of row j, nor where a separator begins.
Unbroken(j) ==
    \A k \in 1 .. Len(arg.data[j]) - 1 :
        /\ ~Occurs(<<"\n">>, arg.data[j][k]) /\ ~Occurs(<<"\r">>, arg.data[j][k])
        /\ arg.sep[1] \notin {"\n", "\r"}

\* Rows that make empty lines.
Empty == {j \in DOMAIN arg.data : arg.data[j] = <<<<>>>>}

Readable == IF Empty = {} THEN Len(arg.data) ELSE Min(Empty) - 1

\* Every variable has its type; the statement and the file are held while the
\* import reads, and given back when it returns.
TypeOK ==
    /\ arg.data \in Tables /\ pos \in 0 .. Len(File)
    /\ lineno \in 0 .. Len(arg.data)
    /\ how \in {"start", "refused", "cannot open", "reading", "insert", "columns", "done"}
    /\ held \subseteq {"statement", "file"}
    /\ how = "reading" => held = {"statement", "file"}
    /\ how = "done" => held = {}
    /\ \A j \in DOMAIN rows : Len(rows[j]) = arg.nCol

\* The rows inserted are the rows written, in order and from the first that is
\* not skipped on, cell by cell, \N as NULL: whatever the separator and the end
\* of line, and with parts of them in the cells (RS_sqlite_getline and the loop
\* over the fields).
ImportedAsWritten ==
    \A j \in DOMAIN rows :
        LET row == arg.data[arg.skip + j] IN
        (Exact(arg.skip + j) /\ Unbroken(arg.skip + j)) =>
            rows[j] = [k \in DOMAIN row |-> Value(row[k])]

\* An import that succeeds has inserted every row, up to the first line that is
\* empty: that one is taken for the end of the file, also among the lines to be
\* skipped.
SuccessIsComplete ==
    how = "done" =>
        Len(rows) = IF Readable <= arg.skip THEN 0 ELSE Readable - arg.skip

\* The line that an error names is a line with another number of fields than the
\* table has columns, and the rows before it are in.
ErrorNamesLine ==
    how = "columns" =>
        /\ Len(rows) = lineno - arg.skip - 1
        /\ \/ Len(arg.data[lineno]) # arg.nCol
           \/ ~Unbroken(lineno) \/ ~Exact(lineno)
=============================================================================
