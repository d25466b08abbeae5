------------------------ MODULE XenoFrtLogger_proofs ------------------------
(***************************************************************************)
(* Proofs about the logger and the reader of its file, for any number of   *)
(* variables and headers and every order of calls.                         *)
(***************************************************************************)
EXTENDS XenoFrtLogger, FiniteSetTheorems, TLAPS

-----------------------------------------------------------------------------
(***************************************************************************)
(* The size of a row, as the logger counts it and as the reader does.      *)
(***************************************************************************)

\* Both sides give a type the same size.
LEMMA SameSizes ==
  ASSUME NEW type \in VariableTypes
  PROVE  DecodedSize(type) = SizeOf(type) /\ SizeOf(type) \in 1 .. 8
<1>1. type \in {1, 2, 3, 4, 5, 6}
  BY DEF VariableTypes
<1>2. QED
  BY <1>1 DEF DecodedSize, SizeOf

\* The bytes of one field are as many as its size.
LEMMA FieldBytes ==
  ASSUME NEW i, NEW size \in Nat
  PROVE  /\ IsFiniteSet({i} \X (1 .. size))
         /\ Cardinality({i} \X (1 .. size)) = size
<1>1. IsFiniteSet({i}) /\ Cardinality({i}) = 1
  BY FS_Singleton
<1>2. IsFiniteSet(1 .. size) /\ Cardinality(1 .. size) = size
  <2>1. 1 \in Int /\ size \in Int
    OBVIOUS
  <2>2. /\ IsFiniteSet(1 .. size)
        /\ Cardinality(1 .. size) = IF 1 > size THEN 0 ELSE size - 1 + 1
    BY <2>1, FS_Interval, Zenon
  <2>3. QED
    BY <2>2
<1>3. /\ IsFiniteSet({i} \X (1 .. size))
      /\ Cardinality({i} \X (1 .. size)) = Cardinality({i}) * Cardinality(1 .. size)
  <2>1. IsFiniteSet({i}) /\ IsFiniteSet(1 .. size)
    BY <1>1, <1>2
  <2>2. QED
    BY <2>1, FS_Product, Zenon
<1>4. Cardinality({i}) * Cardinality(1 .. size) = size
  BY <1>1, <1>2
<1>5. QED
  BY <1>3, <1>4, Zenon

\* One more field makes the row longer by its size.
LEMMA OneMoreField ==
  ASSUME NEW fields \in Seq(VariableTypes), NEW type \in VariableTypes
  PROVE  RowSize(Append(fields, type)) = RowSize(fields) + SizeOf(type)
<1> DEFINE n == Len(fields) + 1
           longer == Append(fields, type)
           new == {n} \X (1 .. SizeOf(type))
<1>1. /\ Len(fields) \in Nat /\ DOMAIN fields = 1 .. Len(fields) /\ DOMAIN longer = 1 .. n
      /\ longer[n] = type
      /\ \A i \in 1 .. Len(fields) : longer[i] = fields[i] /\ fields[i] \in VariableTypes
  OBVIOUS
<1>2. RowBytes(longer) = RowBytes(fields) \cup new
  <2>1. \A i \in 1 .. Len(fields) : DecodedSize(longer[i]) = DecodedSize(fields[i])
    BY <1>1
  <2>2. DecodedSize(longer[n]) = SizeOf(type)
    BY <1>1, SameSizes
  <2>3. 1 .. n = (1 .. Len(fields)) \cup {n}
    BY <1>1
  <2>4. QED
    BY <1>1, <2>1, <2>2, <2>3 DEF RowBytes
<1>3. RowBytes(fields) \cap new = {}
  BY <1>1 DEF RowBytes
<1>4. IsFiniteSet(new) /\ Cardinality(new) = SizeOf(type) /\ SizeOf(type) \in Nat
  <2>1. SizeOf(type) \in Nat
    BY SameSizes
  <2>2. QED
    BY <2>1, FieldBytes, Zenon
<1>5. IsFiniteSet(RowBytes(fields)) /\ RowSize(fields) \in Nat
  <2>1. IsFiniteSet(1 .. Len(fields)) /\ IsFiniteSet(1 .. 8)
    <3>1. 1 \in Int /\ 8 \in Int /\ Len(fields) \in Int
      BY <1>1
    <3>2. QED
      BY <3>1, FS_Interval, Zenon
  <2>2. IsFiniteSet((1 .. Len(fields)) \X (1 .. 8))
    BY <2>1, FS_Product
  <2>3. RowBytes(fields) \in SUBSET ((1 .. Len(fields)) \X (1 .. 8))
    <3>1. \A i \in 1 .. Len(fields) : 1 .. DecodedSize(fields[i]) \subseteq 1 .. 8
      BY <1>1, SameSizes
    <3>2. QED
      BY <1>1, <3>1 DEF RowBytes
  <2>4. QED
    BY <2>2, <2>3, FS_Subset, FS_CardinalityType DEF RowSize
<1> HIDE DEF n, longer, new
<1>6. Cardinality(RowBytes(longer)) = Cardinality(RowBytes(fields)) + Cardinality(new) - Cardinality({})
  <2>1. Cardinality(RowBytes(fields) \cup new)
        = Cardinality(RowBytes(fields)) + Cardinality(new) - Cardinality(RowBytes(fields) \cap new)
    BY <1>4, <1>5, FS_Union, Zenon
  <2>2. QED
    BY <2>1, <1>2, <1>3, Zenon
<1>7. QED
  BY <1>4, <1>5, <1>6, FS_EmptySet DEF RowSize, longer

\* A row without fields is empty.
LEMMA NoFields == RowSize(<<>>) = 0
<1>1. RowBytes(<<>>) = {}
  BY DEF RowBytes
<1>2. QED
  BY <1>1, FS_EmptySet DEF RowSize
-----------------------------------------------------------------------------
(***************************************************************************)
(* Types.                                                                  *)
(***************************************************************************)

\* The headers, rows and parts that are written are entries of a file.
LEMMA EntryKinds ==
  /\ TornHeader \in Entries /\ TornHeader.kind = "torn"
  /\ PartOfRow \in Entries /\ PartOfRow.kind = "part" /\ PartOfRow # TornHeader
  /\ \A fields \in Seq(VariableTypes), names \in NameRows :
       HeaderOf(fields, names) \in Entries /\ HeaderOf(fields, names).kind = "header"
         /\ HeaderOf(fields, names).vars = fields /\ HeaderOf(fields, names) # TornHeader
  /\ \A size \in Nat :
       RowsOf(size) \in Entries /\ RowsOf(size).kind = "rows"
         /\ RowsOf(size).size = size /\ RowsOf(size) # TornHeader
BY DEF TornHeader, PartOfRow, HeaderOf, RowsOf, Entries

\* An entry is what its kind says.
LEMMA EntryForms ==
  ASSUME NEW entry \in Entries
  PROVE  \/ entry.kind = "header" /\ entry.vars \in Seq(VariableTypes)
         \/ entry.kind = "rows" /\ entry.size \in Nat /\ entry = RowsOf(entry.size)
         \/ entry.kind = "torn" /\ entry = TornHeader
         \/ entry.kind = "part" /\ entry = PartOfRow
BY DEF TornHeader, PartOfRow, RowsOf, Entries

\* What is appended becomes the last entry, and the others stay.
LEMMA Appended ==
  ASSUME NEW old \in Seq(Entries), NEW entry \in Entries
  PROVE  /\ Append(old, entry) \in Seq(Entries)
         /\ Len(old) \in Nat /\ Len(Append(old, entry)) = Len(old) + 1
         /\ Append(old, entry)[Len(old) + 1] = entry
         /\ \A i \in 1 .. Len(old) : Append(old, entry)[i] = old[i]
         /\ Append(old, entry) # <<>>
OBVIOUS

\* A write of log() leaves the file, or appends a row or a part of one to it;
\* nothing is appended while no variable is declared.
LEMMA RowAppended ==
  ASSUME NEW written, data_size \in Nat
  PROVE  \/ FileAfter(written) = file
         \/ /\ data_size > 0
            /\ \E entry \in {RowsOf(data_size), PartOfRow} :
                 FileAfter(written) = Append(file, entry)
BY DEF FileAfter, AppendRun

\* The types hold at the start, when the flags are Boolean.
LEMMA TypesInit == LogInit => LogTypeOK
<1> SUFFICES ASSUME LogInit PROVE LogTypeOK
  OBVIOUS
<1>1. initialsed \in BOOLEAN /\ started \in BOOLEAN
  BY LoggerAssumption, Zenon DEF LogInit, LoggerAssumption
<1>2. QED
  BY <1>1, LoggerAssumption DEF LogInit, LoggerAssumption, LogTypeOK

\* Every step keeps the types.
LEMMA TypesStep == ASSUME LogTypeOK, [LogNext]_loggerVars PROVE LogTypeOK'
<1> USE DEF loggerVars
<1>1. CASE UNCHANGED loggerVars
  BY <1>1, Zenon DEF LogTypeOK
<1>2. CASE Abort
  BY <1>2, Zenon DEF Abort, LogTypeOK
<1>3. ASSUME NEW type \in VariableTypes, addVariable(type), ~initialsed, Len(types) # MaxVariables
      PROVE  LogTypeOK'
  <2>1. SizeOf(type) \in Nat
    BY SameSizes
  <2>2. types' \in Seq(VariableTypes) /\ Len(types') <= MaxVariables /\ data_size' \in Nat
    <3>1. types' = Append(types, type) /\ data_size' = data_size + SizeOf(type)
      BY <1>3, Zenon DEF addVariable
    <3>2. types \in Seq(VariableTypes) /\ Len(types) <= MaxVariables /\ data_size \in Nat
      BY DEF LogTypeOK
    <3>3. Append(types, type) \in Seq(VariableTypes) /\ Len(Append(types, type)) = Len(types) + 1
          /\ Len(types) \in Nat
      BY <1>3, <3>2
    <3>4. Len(types) + 1 <= MaxVariables
      BY <1>3, <3>2, <3>3, LoggerAssumption DEF LoggerAssumption
    <3>5. QED
      BY <2>1, <3>1, <3>2, <3>3, <3>4
  <2>3. QED
    BY <1>3, <2>2, Zenon DEF addVariable, LogTypeOK
<1>4. ASSUME NEW written \in BOOLEAN, logger_initialise(written) PROVE LogTypeOK'
  <2>1. /\ TornHeader \in Entries
        /\ \A names \in NamesWritten(types) : HeaderOf(types, names) \in Entries
    BY EntryKinds DEF LogTypeOK, NamesWritten
  <2>2. file' \in Seq(Entries)
    BY <1>4, <2>1, Appended DEF logger_initialise, LogTypeOK
  <2>3. QED
    BY <1>4, <2>2, Zenon DEF logger_initialise, LogTypeOK
<1>5. CASE logger_start \/ logger_stop
  BY <1>5, Zenon DEF logger_start, logger_stop, LogTypeOK
<1>6. ASSUME NEW written \in RowWrites, log(written), started, initialsed PROVE LogTypeOK'
  <2>1. RowsOf(data_size) \in Entries /\ PartOfRow \in Entries
    BY EntryKinds DEF LogTypeOK
  <2>2. file \in Seq(Entries) /\ data_size \in Nat
    BY DEF LogTypeOK
  <2>3. file' \in {file, Append(file, RowsOf(data_size)), Append(file, PartOfRow)}
    BY <1>6, <2>2, RowAppended DEF log
  <2>4. file' \in Seq(Entries)
    BY <2>1, <2>2, <2>3, Appended
  <2>5. QED
    BY <1>6, <2>4, Zenon DEF log, LogTypeOK
<1>7. QED
  BY <1>1, <1>2, <1>3, <1>4, <1>5, <1>6 DEF LogNext, addVariable, log

\* The variables keep their types and var_info never overflows (addVariable).
THEOREM TypeCorrect == LogSpec => []LogTypeOK
BY TypesInit, TypesStep, PTL DEF LogSpec
-----------------------------------------------------------------------------
(***************************************************************************)
(* Torn headers.                                                           *)
(***************************************************************************)

\* Only a process that has exited leaves a torn header.
TornEnds ==
  \A i \in 1 .. Len(file) : file[i] = TornHeader => i = Len(file) /\ process = "exited"

\* Every step keeps torn headers at the end.
LEMMA TornStep ==
  ASSUME LogTypeOK, TornEnds, [LogNext]_loggerVars
  PROVE  TornEnds'
<1> USE DEF loggerVars
<1>1. ASSUME UNCHANGED file, process = "up" \/ process' = process PROVE TornEnds'
  BY <1>1 DEF TornEnds
<1>2. CASE UNCHANGED loggerVars
  BY <1>1, <1>2
<1>3. CASE LogNext
  <2>0. process = "up" /\ file \in Seq(Entries) /\ Len(file) \in Nat
        /\ \A i \in 1 .. Len(file) : file[i] # TornHeader
    BY <1>3 DEF LogNext, LogTypeOK, TornEnds
  <2>1. ASSUME NEW entry \in Entries, file' = Append(file, entry),
               entry = TornHeader => process' = "exited"
        PROVE  TornEnds'
    <3>1. /\ Len(file') = Len(file) + 1 /\ file'[Len(file) + 1] = entry
          /\ \A i \in 1 .. Len(file) : file'[i] = file[i]
      BY <2>0, <2>1, Appended
    <3>2. \A i \in 1 .. Len(file') : i = Len(file') \/ i \in 1 .. Len(file)
      BY <2>0, <3>1
    <3>3. QED
      BY <2>0, <2>1, <3>1, <3>2, Zenon DEF TornEnds
  <2>2. ASSUME NEW written \in BOOLEAN, logger_initialise(written) PROVE TornEnds'
    <3>1. CASE written
      <4>1. PICK names \in NameRows : file' = Append(file, HeaderOf(types, names))
        BY <2>2, <3>1 DEF logger_initialise, NamesWritten
      <4>2. QED
        BY <2>1, <4>1, EntryKinds DEF LogTypeOK
    <3>2. CASE ~written /\ file' = file
      BY <1>1, <2>0, <3>2
    <3>3. CASE ~written /\ file' # file
      BY <2>1, <2>2, <3>3, EntryKinds DEF logger_initialise
    <3>4. QED
      BY <3>1, <3>2, <3>3
  <2>3. ASSUME NEW written \in RowWrites, log(written) PROVE TornEnds'
    <3>1. data_size \in Nat
      BY DEF LogTypeOK
    <3>2. file' \in {file, Append(file, RowsOf(data_size)), Append(file, PartOfRow)}
      BY <2>0, <2>3, <3>1, RowAppended DEF log, Abort
    <3>3. QED
      BY <1>1, <2>0, <2>1, <3>1, <3>2, EntryKinds
  <2>4. ASSUME NEW type \in VariableTypes, addVariable(type) PROVE TornEnds'
    BY <1>1, <2>0, <2>4 DEF addVariable, Abort
  <2>5. CASE logger_start \/ logger_stop
    BY <1>1, <2>0, <2>5 DEF logger_start, logger_stop
  <2>6. QED
    BY <1>3, <2>2, <2>3, <2>4, <2>5 DEF LogNext
<1>4. QED
  BY <1>2, <1>3

\* A header that was cut off is the last thing in the file of a process that has
\* ended, whichever writes are short or fail and whatever is called: the write
\* that fails ends the process, one that is short shortens a name and leaves a
\* header of two lines (initialise).
THEOREM TornHeaderIsLast == LogSpec => []NothingAfterTornHeader
<1>1. LogInit => TornEnds
  BY DEF LogInit, TornEnds
<1>2. LogTypeOK /\ TornEnds => NothingAfterTornHeader
  <2>1. LogTypeOK => DOMAIN file = 1 .. Len(file)
    BY DEF LogTypeOK
  <2>2. QED
    BY <2>1, Zenon DEF TornEnds, NothingAfterTornHeader
<1>3. QED
  BY <1>1, <1>2, TornStep, TypeCorrect, PTL DEF LogSpec
-----------------------------------------------------------------------------
(***************************************************************************)
(* Rows.                                                                   *)
(***************************************************************************)

\* The file starts with a header.
HeaderFirst == file # <<>> /\ file[1].kind = "header"

\* What the invariant says of one entry: a header is the one of the variables,
\* a row has the size of its fields, and both kinds of row come after a header.
EntryFits(entry) ==
  /\ entry.kind = "header" => entry.vars = types
  /\ entry.kind = "rows" => entry.size = data_size
  /\ entry.kind \in {"rows", "part"} => HeaderFirst

\* The size that log() writes is the one a reader computes.  Nothing is in the
\* file while variables can still be declared, and once they cannot, there is a
\* header in it or there are no variables.
FileOfOneRun ==
  /\ data_size = RowSize(types)
  /\ ~initialsed /\ process = "up" => file = <<>>
  /\ initialsed /\ types # <<>> => HeaderFirst
  /\ \A i \in 1 .. Len(file) : EntryFits(file[i])

\* Every step keeps the rows to the header.
LEMMA RowsStep ==
  ASSUME LogTypeOK, FileOfOneRun, [LogNext]_loggerVars
  PROVE  FileOfOneRun'
<1> USE DEF loggerVars
<1>0. file \in Seq(Entries) /\ Len(file) \in Nat /\ data_size \in Nat
      /\ types \in Seq(VariableTypes) /\ initialsed \in BOOLEAN
  BY DEF LogTypeOK
<1>1. ASSUME UNCHANGED <<initialsed, types, data_size, file>>,
             process = "up" \/ process' = process
      PROVE  FileOfOneRun'
  BY <1>1, Zenon DEF FileOfOneRun, EntryFits, HeaderFirst
<1>2. CASE UNCHANGED loggerVars
  BY <1>1, <1>2
<1>3. CASE LogNext
  <2>0. process = "up"
    BY <1>3 DEF LogNext
  <2>1. ASSUME NEW type \in VariableTypes, addVariable(type) PROVE FileOfOneRun'
    <3>1. CASE initialsed \/ Len(types) = MaxVariables
      BY <1>1, <2>0, <2>1, <3>1 DEF addVariable, Abort
    <3>2. CASE ~initialsed /\ Len(types) # MaxVariables
      <4>1. /\ types' = Append(types, type) /\ data_size' = data_size + SizeOf(type)
            /\ initialsed' = initialsed /\ file' = file
        BY <2>1, <3>2 DEF addVariable
      <4>2. data_size' = RowSize(types')
        BY <1>0, <4>1, OneMoreField DEF FileOfOneRun
      <4>3. file' = <<>> /\ ~initialsed'
        BY <2>0, <3>2, <4>1 DEF FileOfOneRun
      <4>4. QED
        BY <4>2, <4>3 DEF FileOfOneRun
    <3>3. QED
      BY <3>1, <3>2
  <2>2. ASSUME NEW entry \in Entries, file' = Append(file, entry), UNCHANGED <<types, data_size>>,
               entry.kind = "header" => entry.vars = types,
               entry.kind = "rows" => entry.size = data_size,
               entry.kind \in {"rows", "part"} => HeaderFirst,
               file = <<>> /\ initialsed' => entry.kind = "header",
               initialsed' \/ process' # "up",
               initialsed => initialsed'
        PROVE  FileOfOneRun'
    <3>1. /\ Len(file') = Len(file) + 1 /\ file'[Len(file) + 1] = entry /\ file' # <<>>
          /\ \A i \in 1 .. Len(file) : file'[i] = file[i]
      BY <1>0, <2>2, Appended
    <3>2. \A i \in 1 .. Len(file') : i = Len(file) + 1 \/ i \in 1 .. Len(file)
      BY <1>0, <3>1
    <3>3. HeaderFirst => HeaderFirst'
      <4>1. ASSUME file # <<>> PROVE file'[1] = file[1]
        BY <1>0, <3>1, <4>1
      <4>2. QED
        BY <3>1, <4>1 DEF HeaderFirst
    <3>4. \A i \in 1 .. Len(file') : EntryFits(file[i])' 
      <4> SUFFICES ASSUME NEW i \in 1 .. Len(file') PROVE EntryFits(file[i])'
        OBVIOUS
      <4>1. CASE i = Len(file) + 1
        BY <2>2, <3>1, <3>3, <4>1 DEF EntryFits
      <4>2. CASE i \in 1 .. Len(file)
        <5>1. EntryFits(file[i]) /\ file'[i] = file[i]
          BY <3>1, <4>2 DEF FileOfOneRun
        <5>2. QED
          BY <2>2, <3>3, <5>1 DEF EntryFits
      <4>3. QED
        BY <3>2, <4>1, <4>2
    <3>5. initialsed' /\ types' # <<>> => HeaderFirst'
      <4> SUFFICES ASSUME initialsed', types # <<>> PROVE HeaderFirst'
        BY <2>2
      <4>1. CASE file = <<>>
        <5>1. Len(file) = 0
          BY <4>1
        <5>2. file'[1] = entry
          BY <3>1, <5>1
        <5>3. QED
          BY <2>2, <3>1, <4>1, <5>2 DEF HeaderFirst
      <4>2. CASE file # <<>>
        BY <2>0, <3>3, <4>2 DEF FileOfOneRun
      <4>3. QED
        BY <4>1, <4>2
    <3>6. data_size' = RowSize(types')
      BY <2>2 DEF FileOfOneRun
    <3>7. QED
      BY <2>2, <3>4, <3>5, <3>6, Zenon DEF FileOfOneRun
  <2>3. ASSUME NEW written \in BOOLEAN, logger_initialise(written) PROVE FileOfOneRun'
    <3>1. CASE written
      <4>1. PICK names \in NameRows : file' = Append(file, HeaderOf(types, names))
        BY <2>3, <3>1 DEF logger_initialise, NamesWritten
      <4>2. PICK entry \in Entries : file' = Append(file, entry) /\ entry.kind = "header"
                                     /\ entry.vars = types
        BY <1>0, <4>1, EntryKinds
      <4>3. initialsed' /\ UNCHANGED <<types, data_size>>
        BY <2>3, <3>1 DEF logger_initialise
      <4>4. QED
        BY <2>2, <4>2, <4>3
    <3>2. CASE ~written /\ file' = file
      BY <1>1, <2>0, <2>3, <3>2 DEF logger_initialise
    <3>3. CASE ~written /\ file' # file
      <4>1. /\ file' = Append(file, TornHeader) /\ process' = "exited"
            /\ UNCHANGED <<initialsed, types, data_size>>
        BY <2>3, <3>3 DEF logger_initialise
      <4>2. CASE file = <<>> /\ initialsed
        <5>1. types = <<>>
          BY <4>2 DEF FileOfOneRun, HeaderFirst
        <5>2. Len(file') = 1 /\ file'[1] = TornHeader
          BY <4>1, <4>2
        <5>3. EntryFits(TornHeader)'
          BY EntryKinds DEF EntryFits
        <5>4. \A i \in 1 .. Len(file') : EntryFits(file[i])'
          BY <5>2, <5>3
        <5>5. data_size' = RowSize(types')
          BY <4>1 DEF FileOfOneRun
        <5>6. QED
          BY <4>1, <4>2, <5>1, <5>4, <5>5 DEF FileOfOneRun
      <4>3. CASE file # <<>> \/ ~initialsed
        BY <2>2, <4>1, <4>3, EntryKinds
      <4>4. QED
        BY <1>0, <4>2, <4>3
    <3>4. QED
      BY <3>1, <3>2, <3>3
  <2>4. ASSUME NEW written \in RowWrites, log(written) PROVE FileOfOneRun'
    <3>1. CASE ~started \/ ~initialsed \/ file' = file
      BY <1>1, <2>0, <2>4, <3>1 DEF log, Abort
    <3>2. CASE started /\ initialsed /\ file' # file
      <4>1. UNCHANGED <<initialsed, types, data_size, process>> /\ file' = FileAfter(written)
        BY <2>4, <3>2 DEF log
      <4>2. PICK entry \in {RowsOf(data_size), PartOfRow} :
              file' = Append(file, entry) /\ data_size > 0
        BY <1>0, <3>2, <4>1, RowAppended
      <4>3. types # <<>>
        BY <4>2, NoFields DEF FileOfOneRun
      <4>4. HeaderFirst
        BY <3>2, <4>3 DEF FileOfOneRun
      <4>5. entry \in Entries /\ entry.kind \in {"rows", "part"}
            /\ (entry.kind = "rows" => entry.size = data_size)
        BY <1>0, <4>2, EntryKinds
      <4>6. QED
        BY <2>2, <3>2, <4>1, <4>2, <4>4, <4>5 DEF HeaderFirst
    <3>3. QED
      BY <3>1, <3>2
  <2>5. CASE logger_start \/ logger_stop
    BY <1>1, <2>0, <2>5 DEF logger_start, logger_stop
  <2>6. QED
    BY <1>3, <2>1, <2>3, <2>4, <2>5 DEF LogNext
<1>4. QED
  BY <1>2, <1>3

\* What comes before an entry is not the last entry.
LEMMA EarlierIsNotLast ==
  ASSUME NEW n \in Nat, NEW i \in 1 .. n, NEW j \in 1 .. i - 1
  PROVE  j # n
OBVIOUS

\* What the invariants say of a file gives what the reader finds in it.
LEMMA RowsDecoded == LogTypeOK /\ TornEnds /\ FileOfOneRun => RowsMatchHeader
<1> SUFFICES ASSUME LogTypeOK, TornEnds, FileOfOneRun, NEW i \in DOMAIN file,
                    file[i].kind = "rows", \A j \in 1 .. i - 1 : ~Damages(j)
             PROVE  Decoded(i)
  BY DEF RowsMatchHeader
<1>1. file \in Seq(Entries) /\ Len(file) \in Nat /\ DOMAIN file = 1 .. Len(file)
  BY DEF LogTypeOK
<1>2. file[1].kind = "header" /\ i > 1 /\ i \in 1 .. Len(file) /\ i \in Nat
  BY <1>1 DEF FileOfOneRun, EntryFits, HeaderFirst
<1>3. file[1].names # "alike" /\ file[1].vars = types
  <2>1. 1 \in 1 .. i - 1 /\ 1 \in 1 .. Len(file)
    BY <1>2
  <2>2. QED
    BY <1>2, <2>1 DEF Damages, FileOfOneRun, EntryFits
<1>4. ASSUME NEW j \in 2 .. i PROVE file[j] = RowsOf(RowSize(types))
  <2>1. j \in 1 .. Len(file) /\ file[j] \in Entries /\ (j = i \/ j \in 1 .. i - 1) /\ j > 1
    BY <1>1, <1>2, <1>4
  <2>2. file[j].kind # "header" /\ file[j].kind # "part"
    BY <2>1 DEF Damages
  <2>3. file[j].kind # "torn"
    <3>1. CASE j = i
      BY <3>1
    <3>2. CASE j \in 1 .. i - 1
      <4>1. file[j] # TornHeader
        <5>1. j # Len(file)
          BY <1>1, <1>2, <3>2, EarlierIsNotLast
        <5>2. QED
          BY <2>1, <5>1, Zenon DEF TornEnds
      <4>2. QED
        BY <2>1, <4>1, EntryForms
    <3>3. QED
      BY <2>1, <3>1, <3>2
  <2>4. file[j].kind = "rows" /\ file[j] = RowsOf(file[j].size)
    BY <2>1, <2>2, <2>3, EntryForms
  <2>5. file[j].size = RowSize(types)
    BY <2>1, <2>4 DEF FileOfOneRun, EntryFits
  <2>6. QED
    BY <2>4, <2>5
<1>5. QED
  BY <1>2, <1>3, <1>4 DEF Decoded

\* Whatever the order of the calls, the contents of the uninitialised flags and
\* the fate of each write, a row is read with its own size and in its own place
\* unless an earlier short write or an earlier second header damaged the file
\* (addVariable, initialise, log; row_size).
THEOREM RowsAreReadable == LogSpec => []RowsMatchHeader
<1>1. LogInit => FileOfOneRun
  <2> SUFFICES ASSUME LogInit PROVE FileOfOneRun
    OBVIOUS
  <2>1. file = <<>> /\ types = <<>> /\ data_size = 0
    BY DEF LogInit
  <2>2. QED
    BY <2>1, NoFields DEF FileOfOneRun
<1>2. LogInit => TornEnds
  BY DEF LogInit, TornEnds
<1>3. QED
  BY <1>1, <1>2, RowsDecoded, RowsStep, TornStep, TypeCorrect, PTL DEF LogSpec
=============================================================================
