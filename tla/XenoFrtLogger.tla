--------------------------- MODULE XenoFrtLogger ---------------------------
(***************************************************************************)
(* class XenoFrtLogger: variables are declared, initialise() writes two    *)
(* header lines (names and types) into the log file, and while the logger  *)
(* is started every log() appends the bytes of the logged structure.  The  *)
(* file is read back by binairy_to_csv.py, which takes the size of a row   *)
(* from the header alone.                                                  *)
(*                                                                         *)
(* The file is a sequence of entries: headers, torn headers, and runs of   *)
(* consecutive rows of one size or of parts of rows, each run kept as one  *)
(* entry.  write() may take fewer bytes than it is given.  All pieces of a *)
(* header but the names are single bytes, so a write that is short and not *)
(* refused shortens a name and nothing else.  The names are taken to be    *)
(* different from each other and at least two characters long, as in       *)
(* XenoLoopRunner.                                                         *)
(***************************************************************************)
EXTENDS Naturals, Sequences, FiniteSets

CONSTANTS
  MaxVariables,  \* length of loggerInfo::var_info
  UninitFlags,   \* what an uninitialised bool member may hold
  ShortWrites,   \* write() may take a part of what it is given
  MaxEntries     \* bound: no header and no part of a row is written into a
                 \* file of this length

ASSUME LoggerAssumption ==
  /\ MaxVariables \in Nat
  /\ UninitFlags \subseteq BOOLEAN
  /\ ShortWrites \in BOOLEAN
  /\ MaxEntries \in Nat

VARIABLES
  initialsed,  \* (sic) the header is written
  started,
  types,       \* the types of the declared variables
  data_size,   \* bytes that one log() writes
  file,        \* what the log file holds
  process      \* "up", "aborted" by an assertion, "exited" by error(1, ...)

loggerVars == <<initialsed, started, types, data_size, file, process>>
-----------------------------------------------------------------------------
\* enum VariableTypes: boolean, character, integer, float_, double_, long_int.
VariableTypes == 1 .. 6

\* The size that addVariable adds for a type.
SizeOf(type) == IF type <= 2 THEN 1 ELSE IF type <= 4 THEN 4 ELSE 8

\* The names in a header: whole, some cut, or cut so that two became the same.
NameRows == {"whole", "cut", "alike"}

\* The rows of names that initialise() may write without noticing.
NamesWritten(vars) ==
  {names \in NameRows : /\ names # "whole" => ShortWrites /\ Len(vars) >= 1
                        /\ names = "alike" => Len(vars) >= 2}

HeaderOf(vars, names) == [kind |-> "header", vars |-> vars, names |-> names]
TornHeader == [kind |-> "torn"]
RowsOf(size) == [kind |-> "rows", size |-> size]
PartOfRow == [kind |-> "part"]

\* Append a row or a part of one: one like the last entry extends its run.
AppendRun(f, entry) == IF f # <<>> /\ f[Len(f)] = entry THEN f ELSE Append(f, entry)

\* The constructor sets neither of the two flags.
LogInit ==
  /\ initialsed \in UninitFlags
  /\ started \in UninitFlags
  /\ types = <<>>
  /\ data_size = 0
  /\ file = <<>>
  /\ process = "up"

Abort == process' = "aborted" /\ UNCHANGED <<initialsed, started, types, data_size, file>>

\* Counting the bytes of a variable that did not fit in var_info.
AddVariableCountsFirst(type) ==
  IF initialsed THEN Abort
  ELSE /\ data_size' = data_size + SizeOf(type)
       /\ types' = IF Len(types) = MaxVariables THEN types ELSE Append(types, type)
       /\ UNCHANGED <<initialsed, started, file, process>>

\* Comparing with > and writing past the end of var_info.
AddVariableOffByOne(type) ==
  IF initialsed THEN Abort
  ELSE IF Len(types) > MaxVariables THEN UNCHANGED loggerVars
  ELSE /\ types' = Append(types, type)
       /\ data_size' = data_size + SizeOf(type)
       /\ UNCHANGED <<initialsed, started, file, process>>

addVariable(type) ==
  IF initialsed THEN Abort
  ELSE IF Len(types) = MaxVariables THEN UNCHANGED loggerVars
  ELSE /\ types' = Append(types, type)
       /\ data_size' = data_size + SizeOf(type)
       /\ UNCHANGED <<initialsed, started, file, process>>

\* A failed header that does not end the process.
InitialiseIgnoresFailure(written) ==
  /\ initialsed' = TRUE
  /\ file' = Append(file, IF written THEN HeaderOf(types, "whole") ELSE TornHeader)
  /\ UNCHANGED <<started, types, data_size, process>>

\* written: every write of the header took at least one byte.  Otherwise the
\* process ends, with what was written so far in the file, or nothing.
logger_initialise(written) ==
  /\ IF written
     THEN /\ initialsed' = TRUE
          /\ \E names \in NamesWritten(types) : file' = Append(file, HeaderOf(types, names))
          /\ UNCHANGED process
     ELSE /\ process' = "exited"
          /\ file' \in {file, Append(file, TornHeader)}
          /\ UNCHANGED initialsed
  /\ UNCHANGED <<started, types, data_size>>

logger_start == started' = TRUE /\ UNCHANGED <<initialsed, types, data_size, file, process>>

logger_stop == started' = FALSE /\ UNCHANGED <<initialsed, types, data_size, file, process>>

\* How much of a row the write of log() takes.
RowWrites == {"row", "nothing"} \union (IF ShortWrites THEN {"part"} ELSE {})

\* The file after that write.
FileAfter(written) ==
  CASE written = "row" /\ data_size > 0 -> AppendRun(file, RowsOf(data_size))
    [] written = "part" /\ data_size > 1 -> AppendRun(file, PartOfRow)
    [] OTHER -> file

\* The result of the write is not looked at.
log(written) ==
  IF ~started THEN UNCHANGED loggerVars
  ELSE IF ~initialsed THEN Abort
  ELSE file' = FileAfter(written) /\ UNCHANGED <<initialsed, started, types, data_size, process>>
-----------------------------------------------------------------------------
\* A client that calls the methods in any order.
LogNext ==
  /\ process = "up"
  /\ \/ \E type \in VariableTypes : addVariable(type)
     \/ Len(file) < MaxEntries /\ \E written \in BOOLEAN : logger_initialise(written)
     \/ logger_start
     \/ logger_stop
     \/ \E written \in RowWrites : log(written) /\ (written = "part" => Len(file) < MaxEntries)

LogSpec == LogInit /\ [][LogNext]_loggerVars
-----------------------------------------------------------------------------
Entries == [kind : {"header"}, vars : Seq(VariableTypes), names : NameRows]
             \union [kind : {"rows"}, size : Nat] \union {TornHeader, PartOfRow}

\* The variables have their types, and var_info never overflows.
LogTypeOK ==
  /\ initialsed \in BOOLEAN
  /\ started \in BOOLEAN
  /\ types \in Seq(VariableTypes)
  /\ Len(types) <= MaxVariables
  /\ data_size \in Nat
  /\ file \in Seq(Entries)
  /\ process \in {"up", "aborted", "exited"}

\* type_map of binairy_to_csv.py: the itemsize of each numpy type.
DecodedSize(type) == <<1, 1, 4, 4, 8, 8>>[type]

\* The bytes of a row, each with the number of its field.
RowBytes(vars) == UNION {{i} \X (1 .. DecodedSize(vars[i])) : i \in DOMAIN vars}

\* row_size of binairy_to_csv.py, the sum of the sizes of the fields.
RowSize(vars) == Cardinality(RowBytes(vars))

\* The decoder reads entry i as rows: the file starts with a header of names
\* that numpy accepts as fields, and between the header and entry i there are
\* only rows of the size it computes from the header.
Decoded(i) ==
  /\ file[1].kind = "header" /\ file[1].names # "alike"
  /\ \A j \in 2 .. i : file[j] = RowsOf(RowSize(file[1].vars))

\* What makes the decoder misread or refuse all that follows: a row of which
\* only a part was taken, a second header, or two names cut to the same one.
Damages(j) ==
  \/ file[j].kind = "part"
  \/ file[j].kind = "header" /\ (j > 1 \/ file[j].names = "alike")

\* Whatever the order of the calls, the contents of the flags at the start and
\* the fate of each write, the decoder reads every row unless a short write or a
\* second initialise() before it damaged the file: nothing else can separate
\* the size log() writes from the one the decoder computes from the header.
RowsMatchHeader ==
  \A i \in DOMAIN file :
    file[i].kind = "rows" => Decoded(i) \/ \E j \in 1 .. i - 1 : Damages(j)

\* A header that was cut off is the last thing in the file of a process that has
\* ended: no row that would be decoded with it follows, whatever is called next.
NothingAfterTornHeader ==
  \A i \in DOMAIN file : file[i] = TornHeader => i = Len(file) /\ process = "exited"
=============================================================================
