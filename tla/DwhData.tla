------------------------------ MODULE DwhData -------------------------------
(***************************************************************************)
(* The numbers of a transfer of dwh, from the options to the bytes of the  *)
(* file: memsztoull and VerifySettings, the size of the data file and how  *)
(* setupDataFile fills it, the size of a worker's buffer, the length of a  *)
(* request and the position ioFileRead and ioFileWrite give it.            *)
(*                                                                         *)
(* The machine's widths are parameters, in the proportions of the real     *)
(* ones: an unsigned long long has Word = 2^64 values, RAND_MAX and the    *)
(* limit of --maxiosize are 2^31 - 1 and a file is 6 * 2^30 bytes unless   *)
(* the options say otherwise.                                              *)
(***************************************************************************)
EXTENDS Integers

CONSTANTS
  Word,           \* 2^64
  RandMax,        \* RAND_MAX
  MaxInt,         \* 0x7FFFFFFF
  DefaultFile,    \* 6 GiB
  Chunk,          \* 10 MiB, what setupDataFile writes at a time
  PageSize, MinSize,          \* 4096 and 8
  Scale,          \* 1024
  MemNumbers, FileNumbers, IONumbers,  \* the numbers the options may give
  Suffixes        \* how many times Scale the number's suffix stands for

ASSUME DataAssumption ==
  /\ {Word, RandMax, MaxInt, DefaultFile, Chunk, PageSize, MinSize, Scale} \subseteq Nat \ {0}
  /\ MemNumbers \subseteq Nat /\ FileNumbers \subseteq Nat /\ IONumbers \subseteq Nat
  /\ Suffixes \subseteq 0 .. 3 /\ \A k \in Suffixes : Scale ^ k \in Nat
  (* A request of the largest size, or of a page, times rand() fits. *)
  /\ RandMax * MaxInt < Word /\ RandMax * PageSize < Word /\ RandMax * MinSize < Word
  /\ DefaultFile < Word

VARIABLES
  step,                            \* the last function called
  maxMem, maxFileSize, maxIOSize,  \* the options
  fileSize, curSize,               \* of setupDataFile; curSize bytes are written
  sz,                              \* the size of the worker's buffer
  io_len,                          \* the length of the request
  kind, pos                        \* "read" or "write", and where it goes

options == <<maxMem, maxFileSize, maxIOSize>>
dataVars == <<step, options, fileSize, curSize, sz, io_len, kind, pos>>

(* Unsigned and, as the build has it, signed 64-bit results. *)
Unsigned(n) == n % Word
Signed(n) == IF n % Word >= Word \div 2 THEN (n % Word) - Word ELSE n % Word

(* C's division rounds towards zero. *)
Quotient(n, d) == IF n >= 0 THEN n \div d ELSE -((-n) \div d)

(* A number and its suffix; strtoull stops at the largest value. *)
memsztoull(n, k) ==
  Unsigned((IF n < Word THEN n ELSE Word - 1) * Scale ^ k)

Sizes(numbers) == {memsztoull(n, k) : n \in numbers, k \in Suffixes}

DataInit ==
  /\ step = "ParseArgs"
  /\ maxMem \in Sizes(MemNumbers)
  /\ maxFileSize \in Sizes(FileNumbers)
  /\ maxIOSize \in Sizes(IONumbers)
  /\ fileSize = 0 /\ curSize = 0 /\ sz = 0 /\ io_len = 0
  /\ kind = "none" /\ pos = 0

(* The checks of VerifySettings on sizes: a command line that fails them    *)
(* ends the program.                                                        *)
VerifySettings ==
  /\ step = "ParseArgs"
  /\ ~(maxMem # 0 /\ maxIOSize > maxMem)
  /\ ~(maxIOSize > MaxInt)
  /\ step' = "VerifySettings"
  /\ UNCHANGED <<options, fileSize, curSize, sz, io_len, kind, pos>>

BadSettings ==
  /\ step = "ParseArgs"
  /\ (maxMem # 0 /\ maxIOSize > maxMem) \/ maxIOSize > MaxInt
  /\ step' = "abort"
  /\ UNCHANGED <<options, fileSize, curSize, sz, io_len, kind, pos>>

FileSize ==
  CASE maxFileSize # 0 -> maxFileSize
    [] maxFileSize = 0 /\ Unsigned(2 * maxMem) # 0 -> Unsigned(2 * maxMem)
    [] OTHER -> DefaultFile

WriteSize == IF Chunk > FileSize THEN FileSize ELSE Chunk

(* setupDataFile writes chunks while curSize <= fileSize. *)
FillDataFile ==
  /\ step = "VerifySettings"
  /\ fileSize' = FileSize
  /\ curSize' = WriteSize * (FileSize \div WriteSize + 1)
  /\ step' = "setupDataFile"
  /\ UNCHANGED <<options, sz, io_len, kind, pos>>

-----------------------------------------------------------------------------
(* Activity 0 of a worker: rand() times maxIOSize, or a small size when     *)
(* that is zero; avail is any part of the memory.                           *)
ChooseSize(r, avail) ==
  LET s == Unsigned(r * maxIOSize) \div RandMax IN
  CASE s # 0 -> s
    [] s = 0 /\ avail > PageSize -> PageSize
    [] s = 0 /\ avail <= PageSize /\ avail \div 2 # 0 -> avail \div 2
    [] OTHER -> MinSize

Allocate ==
  /\ step \in {"setupDataFile", "transfer"}
  /\ \E r \in 0 .. RandMax, avail \in {0, 1, PageSize, PageSize + 1} :
       sz' = ChooseSize(r, avail)
  /\ step' = "allocated"
  /\ io_len' = 0 /\ kind' = "none" /\ pos' = 0
  /\ UNCHANGED <<options, fileSize, curSize>>

(* Activity 7: the length of the request. *)
RequestLength(r) ==
  LET l == Unsigned(sz * r) \div RandMax IN IF l < 1 THEN 1 ELSE l

Request ==
  /\ step = "allocated"
  /\ \E r \in 0 .. RandMax : io_len' = RequestLength(r)
  /\ step' = "requested"
  /\ UNCHANGED <<options, fileSize, curSize, sz, kind, pos>>

(* ioFileRead computes in off64_t, ioFileWrite in size_t. *)
Room == Unsigned(fileSize - io_len - 1)

ReadPositionAnywhere(r) == Quotient(Signed(r * Signed(fileSize)), RandMax)

ReadPosition(r) == Quotient(Signed(r * Signed(Room)), RandMax)

WritePosition(r) == Unsigned(r * Room) \div RandMax

Transfer ==
  /\ step = "requested"
  /\ \E r \in 0 .. RandMax :
       \/ kind' = "read" /\ pos' = ReadPosition(r)
       \/ kind' = "write" /\ pos' = WritePosition(r)
  /\ step' = "transfer"
  /\ UNCHANGED <<options, fileSize, curSize, sz, io_len>>

DataOver == step = "abort" /\ UNCHANGED dataVars

DataNext ==
  \/ VerifySettings \/ BadSettings \/ FillDataFile
  \/ Allocate \/ Request \/ Transfer \/ DataOver

DataSpec == DataInit /\ [][DataNext]_dataVars

-----------------------------------------------------------------------------
Steps == {"ParseArgs", "VerifySettings", "abort", "setupDataFile", "allocated",
          "requested", "transfer"}

DataTypeOK ==
  /\ step \in Steps
  /\ {maxMem, maxFileSize, maxIOSize, fileSize, sz, io_len} \subseteq 0 .. Word - 1
  /\ curSize \in Nat
  /\ kind \in {"none", "read", "write"}
  /\ pos \in Int

(* A transfer stays inside the worker's buffer: io_len, a product divided   *)
(* by RAND_MAX, is at least one byte and at most the size allocated, and    *)
(* every accepted --maxiosize keeps the products within 64 bits.            *)
TransferInBuffer ==
  step \in {"requested", "transfer"} => 1 <= io_len /\ io_len <= sz

(* A transfer stays inside the part of the file that setupDataFile filled,  *)
(* when the file has room for a buffer and its size times RAND_MAX is       *)
(* within 63 bits.                                                          *)
TransferInFile ==
  step = "transfer" /\ sz < fileSize /\ fileSize * RandMax < Word \div 2 =>
    0 <= pos /\ pos + io_len <= curSize

(* The numbers of a transfer, chosen in three functions by scaling rand(),  *)
(* name bytes of the buffer and bytes of the file.                          *)
TransferInBounds == TransferInBuffer /\ TransferInFile

(* dwh.cpp:1935: "Given an I/O queue node perform a read for it": whatever  *)
(* file the program makes for itself, the region that ioFileRead locks and  *)
(* reads is a region of that file.                                          *)
ReadInOwnFile ==
  step = "transfer" /\ kind = "read" /\ maxFileSize = 0 =>
    0 <= pos /\ pos + io_len <= curSize
=============================================================================
