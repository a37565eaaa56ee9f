# A TLA+ development for RSQLCipher

RSQLCipher is an R package: a DBI driver for SQLite databases encrypted with
SQLCipher. Its own code is about 2700 lines of R (`src/R/`) and 2700 lines of
C++ and C (`src/src/`, without `vendor/`). This directory models the parts of it
that keep state, checks them with TLC on small instances, and proves the main
safety properties with TLAPS for every value of the constants. `PROJECT.json`
lists components, runs, mutants, the map from definitions to source lines,
hazards, findings and theorems.

## The system

| Component | State | Operations | Module |
|---|---|---|---|
| Result cursor: `SqliteResultImpl`, `DbDataFrame`, `DbResult`, `result.cpp` | statement, `complete_`, `ready_`, `nrows_`, `group_`, `groups_`, `params_`, start of the change counter; the frame being filled | create, bind, fetch, release | `ResultSet` (promise: `RowCursor`) |
| Connections: `DbConnection`, `connection.cpp`, registry `conn@ref$result` | handle, registered result, busy handler, references | connect, disconnect, send, clear, garbage collection, copy, set busy handler, transaction status | `Connection` |
| Column types: `DbColumn`, `DbColumnStorage`, `SqliteColumnDataSource` | chain of storages, types seen, type kept from fetch to fetch | append a value, spill over, widen, copy out | `ColumnTypes` |
| Transactions, table writing: `dbBegin`, `dbCommit`, `dbRollback`, `dbWriteTable`, `dbAppendTable`, `dbRemoveTable` | savepoints, `on.exit` handlers of the running functions | the functions named | `Transactions` (promise: `AtomicTables`) |
| Key management: `databaseKeyAdd`, `databaseKeyRemove`, `databaseKeyChange`, `databaseIsEncryptionOn`, `key` of `dbConnect`, cloning | key of each file, codec of each handle, schemas left attached | the functions named | `KeyManagement` |
| File import: `import-file.c` | open file, INSERT statement, buffer | import of a file | `ImportFile` |
| Column affinity: `affinity.c`, `datatype_from_decltype` | none | declaration to type | `Affinity` |
| Parameter conversion and fetched types: `bind_parameter_pos`, `dbDataType`, `sql_data`, `convert_bigint` | none | element to bound value and back | `Binding` |
| Identifiers and quoting, extensions, driver object, sample database, deprecated wrappers, generated glue, vendored code | none of their own | | not modelled |

How they interact. An R function sends SQL with `dbSendQuery`, which closes the
result registered on the connection, creates a new `DbResult` and registers it.
The `DbResult` holds a counted reference to its `DbConnection` and, beside it, a
bare `sqlite3*`; that pointer has to stay good after `dbDisconnect`. `dbFetch`
runs the cursor, which fills a `DbDataFrame`, whose columns decide types while
values come in and hand them back to the cursor (`types_`) for the next fetch.
SQLite calls back into R when the database is locked. The table functions are R
code on top of all this and protect themselves with savepoints and `on.exit`.

Everything runs in one R thread. What makes the code hard is therefore not
parallelism but

* exceptions: every `sqlite3_step`, every binding of a parameter, every check
  for an interrupt may leave a loop in the middle, with members of the object
  already changed;
* lifetimes: R's garbage collector, shared pointers, SQLite's zombie handles and
  `R_PreserveObject` have to agree in every order of clearing, disconnecting and
  collecting;
* look-ahead: the cursor is always one row ahead, over executions that may have
  no rows;
* failures of the clean-up itself: a rollback that meets a lock, an `on.exit`
  handler that runs after SQLite has already rolled back, a schema that stays
  attached after a failed export;
* types that are guessed from a prefix of the data.

What makes each part correct: the cursor hands out every row once, in order, and
knows when it is at the end; a live result never works on a freed handle, and a
disconnected handle goes away; no value changes on its way to R unnoticed; a
table function does all of its work or none, and never ends its caller's
transaction; a key opens what it was given for, and no failed call takes away
access to a file; a file is imported as it was written.

## The modules

### ResultSet, RowCursor, ResultSetRefinement

`ResultSet` has the members of `SqliteResultImpl` under their own names. A call
is cut (variable `pc`) where it can leave through an exception: `step` before
each `sqlite3_step`, `fetch` before each row, `advance` before
`DbDataFrame::advance`, `return` before the frame goes to R. The SQLite statement
is `vm` (reset, on a row, halted), `row`, `slot` (the group whose parameters are
bound) and `job` (the execution they give): an execution is a record of how many
rows it returns, how many changes it makes, and whether its parameters bind.
`delta` is `sqlite3_total_changes()` minus the value saved by `bind()`. History
variables record the rows read and delivered since the last `init()`.

`RowCursor` is the promise: a fixed sequence of rows, read from front to back,
done exactly when the last has been read; a failure breaks the promise until the
next binding. `ResultSetRefinement` maps the rows that the bound parameters
stand for to `rows`, the rows read to `got`, `complete_` to `done`.

### Connection

Connections, results and busy handlers as sets of objects. `db` is SQLite's
handle: `sqlite3_close_v2` makes it a zombie while statements or backups are on
it. `ref` is the registry, `res` the external pointers, `preserved` the objects
protected from the garbage collector. `leaks` counts the statements of imports
and the backups that an error has left on a handle. Calls that pass a NULL pointer to SQLite
(this build has no `SQLITE_ENABLE_API_ARMOR`) or to R end the process, which then
starts anew. `sqliteSetBusyHandler` wraps the caller's function in a closure of
its own, hence `h \notin preserved`.

### ColumnTypes

One column over any number of fetches. A storage is its type, capacity, the
values it was given (`vals`) and the elements it has written (`cells`); NULLs
past the capacity are only counted, as in the code. What SQLite makes of a text
read as a number, of an integer read as a double that does not represent it, or
of one cut off at 32 bits, is the one value `Coerced`. The smallest integer of each
width is what R takes for NA. Which integers a double represents is the constant
`Doubles`: all of 32 bits and some of the larger ones (in the code, all up to 2^53).

With `extended_types`, `get_data_type` calls every value of a column declared as
a date or time by that type, so that there is never a conflict of types to warn of.
`LostAsDate` names what is lost in such columns for that reason: fractions and
integers beyond 32 bits where a DATE is read with `sqlite3_column_int`, and
integers that are no doubles where a DATETIME or TIME is read with
`sqlite3_column_double`. `NoSilentChange` allows these numbers and those that look
like NA, and nothing else.

### Affinity, Binding

Pure operators around `ColumnTypes`, composed with it in `MCColumnTypes`.
`sqlite3AffinityType` goes through a declaration with a window of four characters
and is compared with the table in its comment. `Binding` gives an R vector its
declaration (`dbDataType`), each element the value that is bound for it
(`bind_parameter_pos`) and stored, and takes the cell that `ColumnTypes` reads
back through `convert_bigint`. A vector that has been written is read back into a
column of the declaration and the values it was stored as.

### Transactions, AtomicTables, TransactionsRefinement

The running R functions are a stack of frames with a program counter, a
savepoint id and a flag for the `on.exit` handler. `Stop` goes to the handler
(`undo`, `undone`: the two statements of `dbRollback`) and then on to the caller
of the function. Any statement may fail, may make SQLite roll back everything
(`StatementAborts`), and a release that commits may find the database locked.
The caller's own transactions, named or not, are around all this. A data frame
is appended and a file imported row by row; the table is its number of rows.

`AtomicTables` is the promise: a call asks for a table and, when it returns, has
it, or nothing has changed. Two exceptions are part of it, because SQLite or the
code allow them: everything is rolled back, or, where there was no transaction,
one is left open by a locked commit. Until a call returns, the abstract state is
the state in which it was called; `TransactionsRefinement` has the mapping.

### KeyManagement

Files with what they are encrypted with (`lock`) and what is in them, and
connections with the codec of their handle. A hex key and a passphrase reach
SQLCipher in different notations, and differently in `PRAGMA key`, `PRAGMA rekey`
and `ATTACH`; an empty string means something else in each. `state` says whether
a codec has read or written a page, on which it depends whether a later `PRAGMA
key` has an effect: a key that was wrong can be corrected with another one, a key
that was right is kept. `CopyFails` is a failure of the export or of `DETACH`,
with none, some or all of the tables in the file. `given` and `known` record the
caller's keys, `failed` and `copied` what the calls reported.

Two things the model shows that no property excludes: an empty key makes
`databaseKeyAdd` report TRUE for a copy that is not encrypted, and
`databaseKeyChange` on a database that is not encrypted raises an R error and
leaves the handle with a codec that cannot read it (`ChangeKeyStops`).

### ImportFile

The file is the text that `write.table()` makes of a data frame, for given
separator and end of line, so that the rows imported can be compared with the
rows written. `RS_sqlite_getline` is `NextLines`, the loop over the fields is
`Begins` and `Fields`. A last line without end of line is not terminated in
memory: what follows it comes from `Leftovers`. `Written` says which files have
one reading only: with the separator `||`, the cell `a|` is written as the text
that an `a` and a cell beginning with `|` make, and the code takes the first
separator there is. So in a cell followed by the separator, or a line followed by
the end of line, there is no other one to be found first. Parts of both may stand
anywhere. A line break inside a line ends the search for separators (`Unbroken`).
`Connection` has the statement
that an error leaves behind, `Transactions` the rollback around the import.

## What is checked

| Run | Result | What it shows |
|---|---|---|
| `result_set` | pass, 85,094 states | rows in order, exact completion and counts, frames of the right size, no index out of bounds, statements reset at the end, calls return, the loop `while (!dbHasCompleted(rs)) dbFetch(rs, n)` ends, `RowCursor` implemented |
| `connections` | pass, 81,630 states | the registry is exact; no freed handle is used; disconnected handles go; busy handlers are protected exactly as long as they are needed |
| `column_types` | pass, 827,172 states | no silent change of a value but of integers that look like NA and of the numbers in `LostAsDate`; every copy is defined, types only widen; declarations have the affinity of the table; R vectors written and read back are the same but for named losses |
| `table_writes` | pass, 389,967 states | savepoints stay nested, the caller's transaction is never committed, calls return, `AtomicTables` implemented |
| `key_files` | pass, 187,531 states | the key given opens the file, copies open and are complete, a copy is refused only after a failed one, no call takes access away |
| `import_files` | pass, 176,114 states | rows imported are the rows written, success is complete, errors name the right line |
| `unbound_fetch` | violation | the look-ahead of a binding goes on to a later element that cannot be bound, after `ready_` has been set: the next `fetch()` runs a half-bound statement in spite of "Query needs to be bound before fetching" |
| `leaked_handle` | violation | an import that stops leaves its INSERT, and a copy that stops its backup object: the handle never closes |
| `null_handler` | violation | the handler `NULL`, documented as "fail immediately", calls a NULL function |
| `auto_commit` | violation | a locked commit in `dbAppendTable` leaves a transaction open |
| `key_status` | violation | with a result set open, an encrypted database is reported as not encrypted |
| `key_clone` | violation | the clone of a connection on an encrypted file cannot read it |

A violation is a disagreement between the code and a comment, message or
document of the repository, quoted under `findings`. Each property of a passing
run has a mutant, a definition changed as a plausible bug would change it, that
breaks it.

The trace of `unbound_fetch` is a first binding of two elements: `after_bind` sets
`ready_` (`init(true)`), the execution of the first element has no rows,
`step_done` moves on to the second, and `bind_row` has reset the statement and
cleared its bindings when the element turns out not to bind
(`SqliteResultImpl.cpp:345`). A rebinding whose first element fails in `bind`
(line 143, `BindFails`) ends in the same state with the flags of the binding
before it, in one step more.

Smaller disagreements met on the way, and left without a run:

* the type of a column may still change after the first fetch, against the comment
  at `SqliteResultImpl.cpp:67-69`;
* rebinding an unfinished `INSERT ... RETURNING` counts the changes of the
  execution that it cuts off. `AffectedIsExact` states the count with that
  number (`stale`) in it, and so holds for these bindings as well;
* an `integer64` of -2147483648 comes back as NA without a warning, although
  `dbConnect` says of `bigint` that the default "allows the full range of 64 bit
  integers" (`Lost` in `Binding`, `LooksLikeNA` in `ColumnTypes`);
* with `extended_types`, the numbers in `LostAsDate` are cut off or rounded without
  a word, although `dbConnect` says "If a value cannot be mapped an `NA` is returned
  in its place with a warning" (`dbConnect_SQLiteDriver.R:72`);
* `databaseKeyChange.R:4-6` says that a passphrase cannot be changed into a hex key
  or the other way round; the code does it, and `test-databaseKeyChange.R` tests it.

What the properties leave out on purpose, beside the exceptions they name:
`KeepsAccess` says nothing of a `databaseKeyChange` before the first read, with
which a wrong old key does replace the codec of the handle; only keys in use are
shown to be safe from it.

### Bounds

* `result_set`: lists of up to three groups out of five kinds (no rows, two rows,
  a change, a change with a row, parameters that do not bind), two placeholders,
  one list with vectors of different lengths, `n` in -1, 0, 1, 2, two failures or
  interrupts, and an interrupt check every 2 rows instead of 1024. Two failures
  are enough for a failure and one more in what follows; longer streams repeat
  the same steps, as the proofs confirm.
* `connections`: two connections (copying needs two), three results (one open,
  one replaced, one more), two busy handlers, one of them a timeout, one leaked
  backup per connection. Results and connections are symmetric.
* `column_types`: up to four values per fetch out of ten, all declared types, a
  first capacity of 1 instead of 100, so that storages fill up, spill over and
  double within four values; 2-bit and 4-bit integers for 32-bit and 64-bit ones,
  and doubles of two bits of precision, so that 2 is an integer beyond 32 bits that
  is a double, 5 one that is none.
  Declarations are up to three pieces of the words that count, so that words
  follow, overlap and miss each other. R vectors of all twelve types.
* `table_writes`: up to two rows, one savepoint name that the caller may use
  twice, three random ids (a left-over one and two nested calls). Failures are
  not bounded.
* `key_files`, `key_status`, `key_clone`: two connections, two files (a copy needs
  two), one hex key and one passphrase, the empty key and no key; a third key
  would be told from the others by nothing in the code. Connections and files are
  symmetric. Nothing else is bounded.
* `import_files`: files of up to three lines, of one to three cells out of empty
  ones, NA, a part of the separator, a part of the end of line, a line break;
  separators and ends of line of one and two characters, one separator that
  overlaps with itself; one line skipped or none.
  Three lines give a first, an inner and a last line.

### Fairness

`FairSpec` of `ResultSet` and of `Transactions` assumes weak fairness of the
steps of a running call (`Run`): a call is sequential code that nothing suspends.
The caller's choices have no fairness. `LoopEnds` states what it assumes as its
premise: the caller goes on fetching (the next turn of the vignette's loop, which
is sequential code as well) and does not bind anew for ever. Errors and interrupts are
never fair; in `ResultSet` their number is bounded, as an endless row of
interrupts would end no loop.

## What is proved

`ResultSetProofs`, `ConnectionProofs`, `ColumnTypesProofs`, `BindingProofs`,
`TransactionsProofs`, `KeyManagementProofs` and `ImportFileProofs` prove, for
every value of the constants that meets the named assumptions, all invariants of
the passing runs; their action properties `ShortOnlyAtEnd`, `TypeOnlyWidens`,
`CallersTransaction` and `KeepsAccess`; and the two refinements, of `AtomicTables`
by `Transactions` and of `RowCursor` by `ResultSet`. Each rests on an inductive
invariant, proved action by action.

* ResultSet. The properties speak of rows read, the code of `group_`, `vm` and
  `complete_`. The invariant ties the two: between steps, and at each `pc`, the
  statement is at the row after the last one read (`StreamInv`), the rows of the
  frame and the counters agree (`FrameInv`, `CountInv`), the bound list has as
  many groups as `groups_` (`ParamsInv`), a statement without placeholders has
  one execution (`PlainInv`), and `pc` and `caller` fit together (`CallInv`).
  `AffectedIsExact` needs that `delta` is what the executions before `group_` have
  changed, and what the binding cut off, at every step (`AffectedInv`).
* RowCursor. The rows of a list of groups, one group after the other, are a
  flattened sequence; the lemmas say where in it row `p` of group `g` stands, and
  that this number is one more than that of the row read before it. A step ahead
  at the end of a group goes over groups without rows, which have no place in the
  sequence. With that, the step that counts a row in `nrows_` (`Advance`, or an
  interrupt in it) is the reading step of the cursor, a binding is a new start, an
  error a broken promise, and everything else a stutter. A step ahead right after a binding has nothing read yet (`FreshInv`).
* Connection. `RegistryExact` needs that a live result is the registered one of
  its owner and the other way round; `HandleLifetime` needs in addition that a
  handle is a zombie exactly while a disconnected connection has a live result or
  a leak. `HandlerInv` adds that no two connections share a busy handler.
* ColumnTypes. `NoSilentChange` needs, for every storage, what each element is in
  terms of the value it came from, that the types along the chain become known or
  wider only, that every type that disturbs a value has been seen, and that the
  first storage has the type of the previous fetch. A value that is not read as it
  is has then been reported, or is one of `LostAsDate` (`CoercedIsReported`).
* Affinity, Binding. For a declaration of any length, the affinity after each
  character is the one that the table gives the part read so far
  (`DocumentedAt`), which a character more changes only by the word that ends
  there. `RoundTrip` needs that a column whose values come from an R vector never
  has a type but the one of its declaration, `INT64` for `integer64`, or none yet
  (`BackInv`), and for each kind of vector what its elements are bound, stored and
  copied as.
* Transactions. The invariant `TInv` has the types; that the savepoint which has
  started a transaction holds what is committed (`Base`); which functions can run
  inside each other, and that only a `dbAppendTable` about to commit is without a
  handler (`Shape`); for a table function, that nothing is committed and either
  everything has been rolled back and the handler is about to notice (`Lost`), or
  the savepoints are the caller's and then one per function (`Intact`) and what
  is left to do makes the table wanted out of the table there is (`Progress`);
  and for the caller's `dbRollback`, which savepoint it means and what it has
  restored (`Rolling`). For the refinement every step inside a call is a stutter,
  and the five steps that end one map to `Done`, `Undone`, `Aborted`, `LeftOpen`
  and `RolledBackTo`: a commit of the outermost savepoint is the abstract commit
  because of `Base`, a locked one leaves exactly one savepoint because of
  `Intact`, and the table is the wanted one because of `Progress`.
* KeyManagement. `KnownKey` needs that the codec of a handle is the one its last
  key argument stands for (`GivenKey`), and that `dbConnect`, `ATTACH` and `PRAGMA
  rekey` make the same key of the same argument (`KeysAgree`); `KeepsAccess` needs
  that a handle without a codec is never in a state of one (`PlainUnused`).
* ImportFile. The invariant says that the file position is the end of a line
  (`Position`), that the lines before it are not empty, and how many rows are in.
  It is kept because the first end of line that is found after the position is
  the one written there (`NoEarlierEnd`): one that began earlier would, by
  `Written`, have to begin inside the line followed by its end of line. The same
  argument inside a line (`NoSepInside`) shows that the search for separators
  finds exactly where the cells begin (`CellScanned`, `RowScanned`), so that the
  fields of a line are the cells of its row (`FieldsOfRow`).
* Induction. What recursive functions and folds compute for sequences of any
  length - flattened texts, sums of changes, positions of lines, scans of a
  declaration or a line - is proved by induction. `Induction` states it as facts
  about sets (a set of natural numbers with 0 that has `n + 1` with `n` has them
  all), from the least element of the set of exceptions, and shows that recursive
  functions exist and where each part of a flattened sequence stands.

The assumptions are: `Groups`, `ParamLists`, `Values` have the types given, the
first vector of a parameter list gives the number of groups, widths are ordered
`Min64 < Min32 < 0 < Max32`, every 32-bit integer is a double, numbers are integers, bounds, numbers of columns and of lines to skip are natural numbers,
names of handlers are not taken, savepoint ids are no names of the caller, hex
keys, passphrases and the empty string are told apart, declarations, cells,
separators and ends of line are sequences of characters, a row has a cell, and an
end of line is not empty.

Only model-checked: liveness (`CallsReturn` of `ResultSet` and of `Transactions`,
`LoopEnds`), which is out of the prover's reach.

## What is left out

* SQL, the contents of tables, and SQLite itself, beyond what the code's calls
  observe. I/O errors of a COMMIT are not modelled; those of other statements are.
* Interrupts of R between two R expressions, for instance between `dbBegin` and
  the `on.exit` after it; interrupts inside calls are modelled.
* Other processes that write while a transaction is open.
* The arguments of `dbConnect` but the key; a failing `sqlite3_open_v2`.
* Keys with quotes or blanks in them, `databaseKeyChange` inside a transaction,
  locks between connections on one file, and a copy of a database onto itself.
* In the import: running out of memory, files with NUL bytes, and an empty end of
  line.
* Time zones and parsing of dates: a text is readable as a date or not, and what
  Boost makes of a readable one is taken as it is.
* Matching named parameters to placeholders (`db_bind`), one `match()` without
  state: `ResultSet` takes the lists in the order of the placeholders. Row names,
  and the checks of `n` before `fetch`.

Not modelled, because there is no state or order to get wrong: quoting and
listing of tables (strings), extensions (one call each), the driver object and
package options, the sample database, deprecated wrappers. The generated glue
only converts arguments. SQLCipher, the SQLite extensions and Boost are vendored
and appear by what the code's calls observe of them.

## How the modules build on each other

| Module | Extends or instantiates | Configurations |
|---|---|---|
| `ResultSet`, `ResultSetRefinement` | the second extends the first, instance of `RowCursor`; `MCResultSet` extends it | `MCResultSet.cfg`, `ResultSetUnbound.cfg` |
| `Connection` | | `MCConnection.cfg`, `ConnectionLeak.cfg`, `ConnectionNullHandler.cfg` |
| `ColumnTypes`, `Affinity`, `Binding` | `Binding` extends the other two | `MCColumnTypes.cfg` |
| `Transactions`, `TransactionsRefinement` | the second extends the first, instance of `AtomicTables` | `MCTransactions.cfg`, `TransactionsAutoCommit.cfg` |
| `KeyManagement` | | `MCKeyManagement.cfg`, `KeyManagementStatus.cfg`, `KeyManagementClone.cfg` |
| `ImportFile` | | `MCImportFile.cfg` |
| `Induction` | extended by `ResultSetProofs`, `BindingProofs`, `ImportFileProofs` | |
| `ResultSetProofs`, `TransactionsProofs` | extend the refinements | |
| `BindingProofs` | extends `Binding` and `ColumnTypesProofs` | |
| other `...Proofs` | extend the module they are named for | |

What would come next: the matching of parameters as part of `ResultSet`, with
names in the lists; the commit of an import inside `Transactions` driven by
`ImportFile` line by line; and a promise for `Connection`, in which a result is
open or closed and handles do not show.
