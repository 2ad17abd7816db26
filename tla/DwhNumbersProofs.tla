-------------------------- MODULE DwhNumbersProofs --------------------------
(***************************************************************************)
(* Proofs about the sequential parts of dwh, for every time to run, every  *)
(* width of the machine's words that leaves room for a request times       *)
(* rand(), every base of a scale and every number of nanoseconds in a      *)
(* second.  Each part has an invariant of its own, preserved by its own    *)
(* steps; DwhNumbers runs one part and leaves the others alone.            *)
(***************************************************************************)
EXTENDS DwhNumbers, TLAPS

-----------------------------------------------------------------------------
(* main.                                                                   *)

(* What ties the variables of main to the point it has reached: i has its  *)
(* value from the loop on and no elapsed time exists without it; until the *)
(* cleanup the data file exists just when the write stream is open, which  *)
(* is why closing that stream is where the file is removed.                *)
MainInv ==
  /\ MainTypeOK
  /\ ~garbage
  /\ mpc \in {"loop", "sleep", "end"} => i \in Nat
  /\ i = Unset => tElapsed = Invalid
  /\ mpc \notin {"destroy", "exit"} => (wr <=> file)
  /\ mpc \in {"destroy", "exit"} /\ ~undoFailed => ~file
  /\ mpc = "exit" /\ ~undoFailed => initObjects = {}

(* main starts with nothing set up. *)
LEMMA MainInvInit == MainInit => MainInv
  <1> SUFFICES ASSUME MainInit
               PROVE  MainInv
    OBVIOUS
  <1>1. MainTypeOK
    BY MainAssumption DEF MainInit, MainTypeOK, Points, SyncObjects, Unset, Invalid
  <1>2. ~garbage /\ ~file /\ ~wr /\ mpc = "sigmask" /\ tElapsed = Invalid
    BY DEF MainInit
  <1> QED BY <1>1, <1>2 DEF MainInv

(* The readings of a clock and the time between two of them are natural    *)
(* numbers or the value for "failed".                                      *)
LEMMA ElapsedType ==
  ASSUME NEW s \in Nat \cup {Invalid}, NEW n \in Nat, NEW t \in Readings(n)
  PROVE  /\ t \in Nat \cup {Invalid}
         /\ GetElapsed(s, t) \in Nat \cup {Invalid}
  BY DEF GetElapsed, Readings, Invalid

(* A clock value cut off at the bound of the model is a number. *)
LEMMA AtMostType ==
  ASSUME NEW n \in Nat
  PROVE  AtMost(n) \in Nat
  BY MainAssumption DEF AtMost

(* The clock keeps its type while main sleeps. *)
LEMMA PassType ==
  ASSUME now \in Nat, Pass
  PROVE  now' \in Nat
  <1>1. CASE now' \in {AtMost(now + 1), AtMost(now + 2)}
    BY <1>1, AtMostType
  <1>2. CASE now' \in 0 .. now
    BY <1>2
  <1> QED BY <1>1, <1>2 DEF Pass

(* Every step of main preserves its invariant. *)
LEMMA MainInvStep == MainInv /\ [MainNext]_mainVars => MainInv'
  <1> SUFFICES ASSUME MainInv, [MainNext]_mainVars
               PROVE  MainInv'
    OBVIOUS
  <1> USE DEF MainInv, MainTypeOK, Points, SyncObjects, setupVars, timeVars, Move
  <1>1. CASE setSigMask
    BY <1>1 DEF setSigMask
  <1>2. CASE setupSyncObjects
    <2>1. initObjects' \subseteq SyncObjects
      BY <1>2 DEF setupSyncObjects
    <2> QED BY <1>2, <2>1 DEF setupSyncObjects
  <1>3. CASE setupDataFile
    <2>1. \/ wr' = TRUE /\ file' = TRUE /\ rd' \in BOOLEAN
          \/ UNCHANGED <<wr, rd, file>>
      BY <1>3 DEF setupDataFile
    <2>2. mpc' \in {"threads", "finished"}
      BY <1>3 DEF setupDataFile
    <2>3. CASE wr' = TRUE /\ file' = TRUE /\ rd' \in BOOLEAN
      BY <1>3, <2>2, <2>3 DEF setupDataFile
    <2>4. CASE UNCHANGED <<wr, rd, file>>
      BY <1>3, <2>2, <2>4 DEF setupDataFile
    <2> QED BY <2>1, <2>3, <2>4
  <1>4. CASE StartThreads
    BY <1>4 DEF StartThreads, Readings, Unset, Invalid
  <1>5. CASE Sleep
    BY <1>5, PassType DEF Sleep
  <1>6. CASE Tick
    BY <1>6, ElapsedType, AtMostType DEF Tick, Unset, Invalid
  <1>7. CASE LoopEnd
    BY <1>7 DEF LoopEnd
  <1>8. CASE EndThreads
    BY <1>8, PassType, ElapsedType DEF EndThreads, Unset, Invalid
  <1>9. CASE Finished
    BY <1>9 DEF Finished, ReportFrom, Unset, Invalid
  <1>10. CASE cleanupDataFile
    BY <1>10 DEF cleanupDataFile
  <1>11. CASE destroySyncObjects
    <2>1. initObjects' \subseteq SyncObjects
      BY <1>11 DEF destroySyncObjects
    <2> QED BY <1>11, <2>1 DEF destroySyncObjects
  <1>12. CASE Signal
    BY <1>12 DEF Signal
  <1>13. CASE UNCHANGED mainVars
    BY <1>13 DEF mainVars
  <1> QED
    BY <1>1, <1>2, <1>3, <1>4, <1>5, <1>6, <1>7, <1>8, <1>9, <1>10, <1>11, <1>12, <1>13
       DEF MainNext, MainStep, MainOver


-----------------------------------------------------------------------------
(* A transfer.                                                             *)

(* A product scaled back by RAND_MAX is no larger than what was scaled. *)
LEMMA ScaledByRand ==
  ASSUME NEW r \in 0 .. RandMax, NEW n \in Nat
  PROVE  /\ r * n \in Nat /\ r * n <= RandMax * n
         /\ (r * n) \div RandMax \in 0 .. n
  <1>1. RandMax \in Nat \ {0}
    BY DataAssumption
  <1>2. r * n \in Nat /\ r * n <= RandMax * n
    BY <1>1
  <1>3. ASSUME NEW a \in Nat, a <= RandMax * n
        PROVE  a \div RandMax \in 0 .. n
    BY <1>1, <1>3
  <1> QED BY <1>2, <1>3

(* An unsigned result is a number of the word. *)
LEMMA UnsignedType ==
  ASSUME NEW n \in Int
  PROVE  /\ Unsigned(n) \in 0 .. Word - 1
         /\ n \in 0 .. Word - 1 => Unsigned(n) = n
  BY DataAssumption DEF Unsigned

(* A product below half the word is exact in off64_t. *)
LEMMA SignedSmall ==
  ASSUME NEW n \in Nat, n < Word \div 2
  PROVE  Signed(n) = n
  <1>1. n % Word = n
    BY DataAssumption
  <1> QED BY <1>1, DataAssumption DEF Signed

(* The sizes that memsztoull returns are numbers of the word. *)
LEMMA SizesType ==
  ASSUME NEW N, N \subseteq Nat
  PROVE  Sizes(N) \subseteq 0 .. Word - 1
  <1> SUFFICES ASSUME NEW n \in N, NEW e \in Suffixes
               PROVE  memsztoull(n, e) \in 0 .. Word - 1
    BY DEF Sizes
  <1> DEFINE m == IF n < Word THEN n ELSE Word - 1
  <1>1. m \in Nat /\ Scale ^ e \in Nat
    BY DataAssumption
  <1>2. m * (Scale ^ e) \in Int
    <2> HIDE DEF m
    <2> QED BY <1>1
  <1> QED BY <1>2, UnsignedType DEF memsztoull

(* The settings that VerifySettings lets through bound the buffer, so that *)
(* every later product with rand() stays within a word; the file is filled *)
(* beyond the size from which the positions are computed.                  *)
DataInv ==
  /\ DataTypeOK
  /\ step \notin {"ParseArgs", "abort"} => maxIOSize <= MaxInt
  /\ step \in {"setupDataFile", "allocated", "requested", "transfer"} =>
       fileSize < curSize
  /\ step \in {"allocated", "requested", "transfer"} =>
       1 <= sz /\ RandMax * sz < Word
  /\ TransferInBounds

(* The invariant of a transfer holds at the start. *)
LEMMA DataInvInit == DataInit => DataInv
  <1> SUFFICES ASSUME DataInit
               PROVE  DataInv
    OBVIOUS
  <1>1. {maxMem, maxFileSize, maxIOSize} \subseteq 0 .. Word - 1
    BY SizesType, DataAssumption DEF DataInit
  <1>2. DataTypeOK
    BY <1>1, DataAssumption DEF DataInit, DataTypeOK, Steps
  <1> QED BY <1>2 DEF DataInit, DataInv, TransferInBounds, TransferInBuffer, TransferInFile

(* setupDataFile fills more than the file's size. *)
LEMMA FilledBeyond ==
  ASSUME DataTypeOK
  PROVE  /\ FileSize \in 1 .. Word - 1
         /\ WriteSize * (FileSize \div WriteSize + 1) \in Nat
         /\ FileSize < WriteSize * (FileSize \div WriteSize + 1)
  <1>1. Unsigned(2 * maxMem) \in 0 .. Word - 1
    BY UnsignedType DEF DataTypeOK
  <1>2. FileSize \in 1 .. Word - 1
    BY <1>1, DataAssumption DEF DataTypeOK, FileSize
  <1>3. WriteSize \in Nat \ {0}
    BY <1>2, DataAssumption DEF WriteSize
  <1>4. ASSUME NEW f \in Nat, NEW c \in Nat \ {0}
        PROVE  c * (f \div c + 1) \in Nat /\ f < c * (f \div c + 1)
    OBVIOUS
  <1> QED BY <1>2, <1>3, <1>4

(* The buffer is never empty, and RAND_MAX times it fits a word. *)
LEMMA ChosenSize ==
  ASSUME DataTypeOK, maxIOSize <= MaxInt,
         NEW r \in 0 .. RandMax, NEW avail \in {0, 1, PageSize, PageSize + 1}
  PROVE  /\ ChooseSize(r, avail) \in 1 .. Word - 1
         /\ RandMax * ChooseSize(r, avail) < Word
  <1> DEFINE s == Unsigned(r * maxIOSize) \div RandMax
             z == ChooseSize(r, avail)
             b == RandMax * z
  <1>1. RandMax \in Nat \ {0} /\ MaxInt \in Nat /\ maxIOSize \in Nat /\ Word \in Nat
    BY DataAssumption DEF DataTypeOK
  <1>2. RandMax * maxIOSize <= RandMax * MaxInt
    BY <1>1
  <1>3. r * maxIOSize \in 0 .. Word - 1
    BY <1>1, <1>2, ScaledByRand, DataAssumption
  <1>4. Unsigned(r * maxIOSize) = r * maxIOSize
    BY <1>3, UnsignedType
  <1>5. s \in 0 .. maxIOSize
    BY <1>1, <1>4, ScaledByRand
  <1>6. \/ z = s /\ s # 0
        \/ z \in 1 .. PageSize
        \/ z = MinSize
    <2> HIDE DEF s
    <2>1. avail \in Nat /\ avail \div 2 \in 0 .. avail
      BY DataAssumption
    <2>2. ChooseSize(r, avail) = CASE s # 0 -> s
                       [] s = 0 /\ avail > PageSize -> PageSize
                       [] s = 0 /\ avail <= PageSize /\ avail \div 2 # 0 -> avail \div 2
                       [] OTHER -> MinSize
      BY DEF ChooseSize, s
    <2>3. CASE s # 0
      BY <2>2, <2>3
    <2>4. CASE s = 0 /\ avail > PageSize
      BY <2>2, <2>4, DataAssumption
    <2>5. CASE s = 0 /\ avail <= PageSize /\ avail \div 2 # 0
      BY <2>1, <2>2, <2>5, DataAssumption
    <2>6. CASE s = 0 /\ ~(avail > PageSize) /\ ~(avail <= PageSize /\ avail \div 2 # 0)
      BY <2>2, <2>6
    <2> QED BY <1>5, <2>1, <2>3, <2>4, <2>5, <2>6, DataAssumption
  <1>7. \A n \in Nat : n <= MaxInt \/ n <= PageSize \/ n <= MinSize => RandMax * n < Word
    <2> SUFFICES ASSUME NEW n \in Nat, NEW k0 \in Nat, n <= k0, RandMax * k0 < Word
                 PROVE  RandMax * n < Word
      BY DataAssumption
    <2>1. RandMax * n <= RandMax * k0
      BY <1>1
    <2> QED BY <1>1, <2>1
  <1>8. z \in Nat \ {0} /\ RandMax * z < Word
    <2> HIDE DEF z, s
    <2> QED BY <1>1, <1>5, <1>6, <1>7, DataAssumption
  <1>9. z <= RandMax * z
    <2> HIDE DEF z
    <2> QED BY <1>1, <1>8
  <1> QED
    <2> HIDE DEF z
    <2>1. z \in 1 .. Word - 1 /\ RandMax * z < Word
      BY <1>1, <1>8, <1>9
    <2> QED BY <2>1 DEF z


(* The position of a transfer is a number, and when nothing overflows it   *)
(* leaves room for the request within the file.                            *)
LEMMA PositionType ==
  ASSUME DataTypeOK, NEW r \in 0 .. RandMax
  PROVE  ReadPosition(r) \in Int /\ WritePosition(r) \in Int
  <1>1. RandMax \in Nat \ {0} /\ Word \in Nat \ {0}
    BY DataAssumption
  <1>2. fileSize - io_len - 1 \in Int
    BY DEF DataTypeOK
  <1>3. Room \in Int
    BY <1>2, UnsignedType, <1>1 DEF Room
  <1>4. \A n \in Int : Signed(n) \in Int
    BY <1>1 DEF Signed
  <1>5. \A n \in Int : Quotient(n, RandMax) \in Int
    BY <1>1 DEF Quotient
  <1>6. \A n \in Int : r * n \in Int
    OBVIOUS
  <1>7. \A n \in Int : Unsigned(n) \div RandMax \in Int
    <2> TAKE n \in Int
    <2>1. Unsigned(n) \in Int
      BY UnsignedType
    <2> QED BY <1>1, <2>1
  <1> HIDE DEF Room
  <1>8. ReadPosition(r) \in Int
    <2>1. r * Signed(Room) \in Int
      BY <1>3, <1>4, <1>6
    <2> QED BY <2>1, <1>4, <1>5 DEF ReadPosition
  <1>9. WritePosition(r) \in Int
    BY <1>3, <1>6, <1>7 DEF WritePosition
  <1> QED BY <1>8, <1>9

(* A position scaled by rand() leaves room for the length behind it. *)
LEMMA PositionInFile ==
  ASSUME DataInv, step = "requested", NEW r \in 0 .. RandMax,
         sz < fileSize, fileSize * RandMax < Word \div 2
  PROVE  /\ 0 <= ReadPosition(r) /\ ReadPosition(r) + io_len <= curSize
         /\ 0 <= WritePosition(r) /\ WritePosition(r) + io_len <= curSize
  <1>1. /\ RandMax \in Nat \ {0} /\ Word \in Nat \ {0}
        /\ fileSize \in Nat /\ io_len \in Nat /\ curSize \in Nat /\ sz \in Nat
        /\ fileSize < Word
    BY DataAssumption DEF DataInv, DataTypeOK
  <1>2. io_len <= sz /\ fileSize < curSize
    BY DEF DataInv, TransferInBounds, TransferInBuffer
  <1> DEFINE m == fileSize - io_len - 1
  <1>3. m \in Nat /\ m <= fileSize /\ m \in 0 .. Word - 1
    BY <1>1, <1>2
  <1>4. Room = m
    BY <1>3, UnsignedType DEF Room
  <1>5. RandMax * m <= fileSize * RandMax
    <2> HIDE DEF m
    <2> QED BY <1>1, <1>3
  <1>6. r * m \in Nat /\ r * m <= RandMax * m /\ (r * m) \div RandMax \in 0 .. m
    <2> HIDE DEF m
    <2> QED BY <1>3, ScaledByRand
  <1>7. m <= RandMax * m
    <2> HIDE DEF m
    <2> QED BY <1>1, <1>3
  <1>8. r * m < Word \div 2 /\ m < Word \div 2 /\ r * m \in 0 .. Word - 1
    <2> HIDE DEF m
    <2> QED BY <1>1, <1>3, <1>5, <1>6, <1>7
  <1>9. Signed(m) = m /\ Signed(r * m) = r * m /\ Unsigned(r * m) = r * m
    <2> HIDE DEF m
    <2> QED BY <1>3, <1>6, <1>8, SignedSmall, UnsignedType
  <1>10. ReadPosition(r) = (r * m) \div RandMax /\ WritePosition(r) = (r * m) \div RandMax
    <2> HIDE DEF m
    <2>1. Quotient(r * m, RandMax) = (r * m) \div RandMax
      BY <1>6 DEF Quotient
    <2> QED BY <2>1, <1>4, <1>9 DEF ReadPosition, WritePosition
  <1>11. \A q \in 0 .. m : 0 <= q /\ q + io_len <= curSize
    BY <1>1, <1>2
  <1> QED
    <2> HIDE DEF m
    <2> QED BY <1>6, <1>10, <1>11

(* Every step of a transfer preserves its invariant. *)
LEMMA DataInvStep == DataInv /\ [DataNext]_dataVars => DataInv'
  <1> SUFFICES ASSUME DataInv, [DataNext]_dataVars
               PROVE  DataInv'
    OBVIOUS
  <1>0. DataTypeOK /\ TransferInBounds
    BY DEF DataInv
  <1> USE DEF TransferInBounds, TransferInBuffer, TransferInFile, options
  <1>1. CASE VerifySettings
    BY <1>1, DataAssumption DEF DataInv, DataTypeOK, Steps, VerifySettings
  <1>2. CASE BadSettings
    BY <1>2 DEF DataInv, DataTypeOK, Steps, BadSettings
  <1>3. CASE FillDataFile
    <2>1. /\ fileSize' \in 0 .. Word - 1 /\ curSize' \in Nat
          /\ fileSize' < curSize'
      BY <1>0, <1>3, FilledBeyond, DataAssumption DEF FillDataFile
    <2> QED BY <1>3, <2>1 DEF DataInv, DataTypeOK, Steps, FillDataFile
  <1>4. CASE Allocate
    <2>1. sz' \in 1 .. Word - 1 /\ RandMax * sz' < Word
      BY <1>0, <1>4, ChosenSize DEF DataInv, Allocate
    <2>2. 0 \in 0 .. Word - 1
      BY DataAssumption
    <2> QED BY <1>4, <2>1, <2>2 DEF DataInv, DataTypeOK, Steps, Allocate
  <1>5. CASE Request
    <2>1. PICK r \in 0 .. RandMax : io_len' = RequestLength(r)
      BY <1>5 DEF Request
    <2>2. sz \in Nat /\ 1 <= sz /\ RandMax * sz < Word /\ Word \in Nat /\ RandMax \in Nat
      BY <1>5, DataAssumption DEF DataInv, DataTypeOK, Request
    <2>3. sz * r = r * sz
      BY <2>2
    <2>4. r * sz \in Nat /\ r * sz <= RandMax * sz /\ (r * sz) \div RandMax \in 0 .. sz
      BY <2>2, ScaledByRand
    <2>5. sz * r \in 0 .. Word - 1
      BY <2>2, <2>3, <2>4
    <2>6. Unsigned(sz * r) \div RandMax \in 0 .. sz
      BY <2>3, <2>4, <2>5, UnsignedType
    <2>7. io_len' \in 1 .. sz
      BY <2>1, <2>2, <2>6 DEF RequestLength
    <2>8. io_len' \in 0 .. Word - 1
      BY <2>2, <2>7 DEF DataInv, DataTypeOK
    <2> QED BY <1>5, <2>7, <2>8 DEF DataInv, DataTypeOK, Steps, Request
  <1>6. CASE Transfer
    <2>1. PICK r \in 0 .. RandMax : \/ kind' = "read" /\ pos' = ReadPosition(r)
                                    \/ kind' = "write" /\ pos' = WritePosition(r)
      BY <1>6 DEF Transfer
    <2>2. pos' \in Int /\ kind' \in {"read", "write"}
      BY <2>1, PositionType, <1>0
    <2>3. ASSUME sz < fileSize, fileSize * RandMax < Word \div 2
          PROVE  0 <= pos' /\ pos' + io_len <= curSize
      BY <1>6, <2>1, <2>3, PositionInFile DEF DataInv, Transfer
    <2> QED BY <1>6, <2>2, <2>3 DEF DataInv, DataTypeOK, Steps, Transfer
  <1>7. CASE UNCHANGED dataVars
    BY <1>7 DEF DataInv, DataTypeOK, dataVars
  <1> QED
    BY <1>1, <1>2, <1>3, <1>4, <1>5, <1>6, <1>7 DEF DataNext, DataOver


-----------------------------------------------------------------------------
(* A figure and its letter.                                                *)

(* The letter is the one of the divisions or multiplications done, and     *)
(* each division was of a value at least the next power of the base.  A    *)
(* value is put back only by doubleToDecimalScale, at its second division. *)
ScaleInv ==
  /\ fn \in {"binary", "decimal"} /\ orig \in Int
  /\ result \in BOOLEAN /\ done \in BOOLEAN
  /\ fn = "binary" /\ orig >= 0 =>
       /\ result
       /\ k \in 0 .. 7
       /\ k = 0 => scale = "none"
       /\ k > 0 => scale = Letters[k] /\ orig >= Base ^ k
  /\ fn = "binary" /\ orig < 0 => result /\ k = 0 /\ scale = "none"
  /\ fn = "decimal" /\ orig >= 0 =>
       \/ result /\ k = 0 /\ scale = "none"
       \/ result /\ k = 1 /\ scale = "k"
       \/ ~result /\ k = 0 /\ scale = "none" /\ orig >= Base ^ 2
  /\ fn = "decimal" /\ orig < 0 =>
       /\ result
       /\ \/ k = 0 /\ scale = "none"
          \/ k = -1 /\ scale = "m"
          \/ k = -2 /\ scale = "u"
          \/ k = -3 /\ scale = "n"
          \/ k = -4 /\ scale = "p"
          \/ k = -5 /\ scale = "f"
  /\ done => IF orig >= 0 THEN ~MoreUp ELSE ~MoreDown

(* Nothing has been divided at the start. *)
LEMMA ScaleInvInit == ScaleInit => ScaleInv
  <1> SUFFICES ASSUME ScaleInit
               PROVE  ScaleInv
    OBVIOUS
  <1>1. fn \in {"binary", "decimal"} /\ orig \in Int
    BY ScaleAssumption DEF ScaleInit
  <1>3. result /\ ~done /\ result \in BOOLEAN /\ done \in BOOLEAN
    BY DEF ScaleInit
  <1>2. k = 0 /\ scale = "none"
    BY DEF ScaleInit
  <1> QED BY <1>1, <1>2, <1>3 DEF ScaleInv

(* The letters the switch statements give, division by division. *)
LEMMA LetterAfter ==
  ASSUME fn \in {"binary", "decimal"}
  PROVE  /\ "none" \in DOMAIN After(fn)
         /\ After(fn)["none"] = IF fn = "binary" THEN Letters[1] ELSE "k"
         /\ fn = "binary" => \A n \in 1 .. 6 : /\ Letters[n] \in DOMAIN After(fn)
                                               /\ After(fn)[Letters[n]] = Letters[n + 1]
         /\ fn = "decimal" => "k" \notin DOMAIN After(fn)
  BY DEF After, Letters

(* A division and its letter go together. *)
LEMMA ScaleInvStep == ScaleInv /\ [ScaleNext]_scaleVars => ScaleInv'
  <1> SUFFICES ASSUME ScaleInv, [ScaleNext]_scaleVars
               PROVE  ScaleInv'
    OBVIOUS
  <1>1. CASE Divide
    <2>1. /\ result /\ ~done /\ orig \in Int /\ orig >= 0
          /\ orig >= Base ^ (k + 1) /\ scale # "Z"
          /\ fn' = fn /\ orig' = orig /\ ~done' /\ done' \in BOOLEAN
      BY <1>1 DEF ScaleInv, Divide, MoreUp, TooLarge
    <2>2. CASE fn = "binary"
      <3>1. k \in 0 .. 6 /\ scale = IF k = 0 THEN "none" ELSE Letters[k]
        BY <2>1, <2>2 DEF ScaleInv, Letters
      <3>2. scale \in DOMAIN After(fn) /\ After(fn)[scale] = Letters[k + 1]
        <4>1. CASE k = 0
          BY <2>2, <3>1, <4>1, LetterAfter
        <4>2. CASE k \in 1 .. 6
          BY <2>2, <3>1, <4>2, LetterAfter
        <4> QED BY <3>1, <4>1, <4>2
      <3>3. k' = k + 1 /\ scale' = Letters[k + 1] /\ result' /\ result' \in BOOLEAN
        BY <1>1, <2>1, <3>2 DEF ScaleInv, Divide
      <3> QED BY <2>1, <2>2, <3>1, <3>3 DEF ScaleInv
    <2>3. CASE fn = "decimal" /\ k = 0
      <3>1. k' = 1 /\ scale' = "k" /\ result' /\ result' \in BOOLEAN
        BY <1>1, <2>1, <2>3, LetterAfter DEF ScaleInv, Divide
      <3> QED BY <2>1, <2>3, <3>1 DEF ScaleInv
    <2>4. CASE fn = "decimal" /\ k # 0
      <3>0. k = 1 /\ scale = "k"
        BY <2>1, <2>4 DEF ScaleInv
      <3>1. k' = 0 /\ scale' = "none" /\ ~result' /\ result' \in BOOLEAN
        BY <1>1, <2>1, <2>4, <3>0, LetterAfter DEF ScaleInv, Divide
      <3>2. orig >= Base ^ 2
        BY <2>1, <3>0
      <3> QED BY <2>1, <2>4, <3>1, <3>2 DEF ScaleInv
    <2> QED BY <2>1, <2>2, <2>3, <2>4 DEF ScaleInv
  <1>2. CASE Multiply
    BY <1>2 DEF ScaleInv, Multiply, MoreDown, Below
  <1>3. CASE Return
    BY <1>3 DEF ScaleInv, Return, MoreUp, MoreDown, TooLarge
  <1>4. CASE UNCHANGED scaleVars
    BY <1>4 DEF ScaleInv, scaleVars, MoreUp, MoreDown, TooLarge
  <1> QED BY <1>1, <1>2, <1>3, <1>4 DEF ScaleNext

(* What the invariant says when the function returns. *)
LEMMA ScaleInvImplies == ScaleInv => FiguresScaled
  <1> SUFFICES ASSUME ScaleInv, done
               PROVE  FiguresScaled
    BY DEF FiguresScaled, LetterMatches, InRange
  <1>1. InRange("binary")
    BY ScaleAssumption DEF InRange, ScaleInv, MoreUp, TooLarge, Letters
  <1>2. LetterMatches
    <2>1. CASE fn = "binary" /\ orig >= 0
      BY <2>1 DEF LetterMatches, ScaleInv, Letters, Power
    <2>2. CASE fn = "decimal" \/ ~(orig >= 0)
      BY <2>2 DEF LetterMatches, ScaleInv, Power
    <2> QED BY <2>1, <2>2 DEF ScaleInv
  <1> QED BY <1>1, <1>2 DEF FiguresScaled

-----------------------------------------------------------------------------
(* The difference of two clock values.                                     *)

(* What timespec_elapsed has returned is exact. *)
TimespecInv ==
  /\ x \in Timespecs /\ y0 \in Timespecs
  /\ ~called => y = y0
  /\ ElapsedExact

(* No difference has been taken at the start. *)
LEMMA TimespecInvInit == TimespecInit => TimespecInv
  BY DEF TimespecInit, TimespecInv, ElapsedExact

(* What is borrowed is one second exactly, and nothing is given back. *)
LEMMA BorrowOne ==
  ASSUME NEW a \in Timespecs, NEW b \in Timespecs
  PROVE  GiveBack(a, Borrow(a, b)) =
           IF a.tv_nsec < b.tv_nsec
           THEN [tv_sec |-> b.tv_sec + 1, tv_nsec |-> b.tv_nsec - Nano]
           ELSE b
  <1>1. /\ Nano \in Nat \ {0, 1}
        /\ a.tv_nsec \in 0 .. Nano - 1 /\ b.tv_nsec \in 0 .. Nano - 1
        /\ a.tv_sec \in Nat /\ b.tv_sec \in Nat
    BY TimespecAssumption DEF Timespecs
  <1>2. CASE a.tv_nsec < b.tv_nsec
    <2>1. (b.tv_nsec - a.tv_nsec) \div Nano = 0
      <3>1. ASSUME NEW d \in 0 .. Nano - 1
            PROVE  d \div Nano = 0
        BY <1>1
      <3> QED BY <1>1, <1>2, <3>1
    <2>2. Borrow(a, b) = [tv_sec |-> b.tv_sec + 1, tv_nsec |-> b.tv_nsec - Nano]
      BY <1>1, <1>2, <2>1 DEF Borrow
    <2> QED BY <1>1, <1>2, <2>2 DEF GiveBack
  <1>3. CASE ~(a.tv_nsec < b.tv_nsec)
    BY <1>1, <1>3 DEF Borrow, GiveBack
  <1> QED BY <1>2, <1>3

(* Borrow and carry keep the instant and make the difference exact. *)
LEMMA TimespecInvStep == TimespecInv /\ [timespec_elapsed]_timespecVars => TimespecInv'
  <1> SUFFICES ASSUME TimespecInv, [timespec_elapsed]_timespecVars
               PROVE  TimespecInv'
    OBVIOUS
  <1>1. CASE timespec_elapsed
    <2> DEFINE b == GiveBack(x, Borrow(x, y0))
    <2>1. /\ x \in Timespecs /\ y0 \in Timespecs /\ x' = x /\ y0' = y0 /\ called'
          /\ y' = b
          /\ elapsed' = [tv_sec |-> x.tv_sec - b.tv_sec, tv_nsec |-> x.tv_nsec - b.tv_nsec]
          /\ negative' = (x.tv_sec < b.tv_sec)
      BY <1>1 DEF timespec_elapsed, TimespecInv
    <2>2. b = IF x.tv_nsec < y0.tv_nsec
              THEN [tv_sec |-> y0.tv_sec + 1, tv_nsec |-> y0.tv_nsec - Nano]
              ELSE y0
      BY <2>1, BorrowOne
    <2>3. /\ Nano \in Nat \ {0, 1}
          /\ x.tv_nsec \in 0 .. Nano - 1 /\ y0.tv_nsec \in 0 .. Nano - 1
          /\ x.tv_sec \in Nat /\ y0.tv_sec \in Nat
      BY <2>1, TimespecAssumption DEF Timespecs
    <2>4. /\ b.tv_sec \in Int /\ b.tv_nsec \in Int
          /\ b.tv_sec * Nano + b.tv_nsec = y0.tv_sec * Nano + y0.tv_nsec
          /\ x.tv_nsec - b.tv_nsec \in 0 .. Nano - 1
      <3>1. (y0.tv_sec + 1) * Nano = y0.tv_sec * Nano + Nano
        BY <2>3
      <3> QED BY <2>2, <2>3, <3>1
    <2> HIDE DEF b
    <2>5. (x.tv_sec - b.tv_sec) * Nano = x.tv_sec * Nano - b.tv_sec * Nano
      BY <2>3, <2>4
    <2>6. (x.tv_sec < b.tv_sec) <=>
             x.tv_sec * Nano + x.tv_nsec < b.tv_sec * Nano + b.tv_nsec
      <3>1. x.tv_sec < b.tv_sec => (x.tv_sec + 1) * Nano <= b.tv_sec * Nano
        BY <2>3, <2>4
      <3>2. ~(x.tv_sec < b.tv_sec) => b.tv_sec * Nano <= x.tv_sec * Nano
        BY <2>3, <2>4
      <3>3. (x.tv_sec + 1) * Nano = x.tv_sec * Nano + Nano
        BY <2>3
      <3> DEFINE p == x.tv_sec * Nano
                 q == b.tv_sec * Nano
      <3>4. p \in Int /\ q \in Int
        BY <2>3, <2>4
      <3> HIDE DEF p, q
      <3>5. CASE x.tv_sec < b.tv_sec
        <4>1. p + Nano <= q
          BY <3>1, <3>3, <3>5 DEF p, q
        <4> QED BY <4>1, <3>4, <3>5, <2>3, <2>4 DEF p, q
      <3>6. CASE ~(x.tv_sec < b.tv_sec)
        <4>1. q <= p
          BY <3>2, <3>6 DEF p, q
        <4> QED BY <4>1, <3>4, <3>6, <2>3, <2>4 DEF p, q
      <3> QED BY <3>5, <3>6
    <2>7. ElapsedExact'
      <3>1. Instant(elapsed') = Instant(x) - Instant(y0)
        <4> DEFINE p == x.tv_sec * Nano
                   q == b.tv_sec * Nano
        <4>1. p \in Int /\ q \in Int /\ y0.tv_sec * Nano \in Int
          BY <2>3, <2>4
        <4>2. Instant(elapsed') = (x.tv_sec - b.tv_sec) * Nano + (x.tv_nsec - b.tv_nsec)
          BY <2>1 DEF Instant
        <4>3. Instant(x) = p + x.tv_nsec /\ Instant(y0) = q + b.tv_nsec
          BY <2>4 DEF Instant
        <4>4. (x.tv_sec - b.tv_sec) * Nano = p - q
          BY <2>5
        <4> HIDE DEF p, q
        <4> QED BY <2>3, <2>4, <4>1, <4>2, <4>3, <4>4
      <3>2. elapsed'.tv_nsec \in 0 .. Nano - 1
        BY <2>1, <2>4
      <3>3. negative' <=> Instant(x) < Instant(y0)
        BY <2>1, <2>4, <2>6 DEF Instant
      <3>4. Instant(y') = Instant(y0)
        BY <2>1, <2>4 DEF Instant
      <3> QED BY <2>1, <3>1, <3>2, <3>3, <3>4 DEF ElapsedExact, Instant
    <2> QED BY <2>1, <2>7 DEF TimespecInv
  <1>2. CASE UNCHANGED timespecVars
    BY <1>2 DEF TimespecInv, timespecVars, ElapsedExact, Instant
  <1> QED BY <1>1, <1>2


-----------------------------------------------------------------------------
(* The parts together.                                                     *)

(* Each part keeps its own invariant. *)
NumbersInv == MainInv /\ DataInv /\ ScaleInv /\ TimespecInv

(* DwhNumbers takes the steps of its parts and no others. *)
LEMMA PartSteps ==
  ASSUME [Next]_<<part, mainVars, dataVars, scaleVars, timespecVars>>
  PROVE  /\ [MainNext]_mainVars /\ [DataNext]_dataVars
         /\ [ScaleNext]_scaleVars /\ [timespec_elapsed]_timespecVars
  BY DEF Next, MainPart, DataPart, ScalePart, TimespecPart, Over

(* The invariants of the four parts hold in every reachable state. *)
LEMMA NumbersInvAlways == Spec => []NumbersInv
  <1>1. Init => NumbersInv
    BY MainInvInit, DataInvInit, ScaleInvInit, TimespecInvInit DEF Init, NumbersInv
  <1>2. NumbersInv /\ [Next]_<<part, mainVars, dataVars, scaleVars, timespecVars>>
          => NumbersInv'
    BY PartSteps, MainInvStep, DataInvStep, ScaleInvStep, TimespecInvStep DEF NumbersInv
  <1> QED BY <1>1, <1>2, PTL DEF Spec

(* The variables of main and of a transfer keep their types: a size is a   *)
(* number of the machine's word, and i is never counted from its           *)
(* indeterminate value (dwh.cpp, main, setupDataFile, ioFileRead).         *)
THEOREM NumbersTyped == Spec => []TypeOK
  <1>1. NumbersInv => TypeOK
    BY DEF NumbersInv, MainInv, DataInv, TypeOK
  <1> QED BY <1>1, NumbersInvAlways, PTL

(* However main reaches the label "finished", it does not read i before    *)
(* the loop has set it (dwh.cpp, main).                                    *)
THEOREM CountAlwaysKnown == Spec => []CountKnown
  <1>1. NumbersInv => CountKnown
    BY DEF NumbersInv, MainInv, CountKnown
  <1> QED BY <1>1, NumbersInvAlways, PTL

(* Whatever step of the setup fails, at exit no data file and no mutex is  *)
(* left unless undoing it failed (dwh.cpp, setupDataFile, cleanupDataFile, *)
(* setupSyncObjects, destroySyncObjects).                                  *)
THEOREM SetupAlwaysUndone == Spec => []SetupUndone
  <1>1. NumbersInv => SetupUndone
    BY DEF NumbersInv, MainInv, SetupUndone
  <1> QED BY <1>1, NumbersInvAlways, PTL

(* For every width of the word that holds a request times RAND_MAX, and    *)
(* every accepted size, a transfer names bytes of its buffer, and bytes of *)
(* the file when the file times RAND_MAX fits 63 bits (dwh.cpp,            *)
(* WorkerThreadStart, ioFileRead, ioFileWrite).                            *)
THEOREM TransferAlwaysInBounds == Spec => []TransferInBounds
  <1>1. NumbersInv => TransferInBounds
    BY DEF NumbersInv, DataInv
  <1> QED BY <1>1, NumbersInvAlways, PTL

(* For every base, a figure and its letter stand for the value given, and  *)
(* doubleToScale brings every value into its range (dwh.cpp,               *)
(* doubleToScale, doubleToDecimalScale).                                   *)
THEOREM FiguresAlwaysScaled == Spec => []FiguresScaled
  <1>1. NumbersInv => FiguresScaled
    BY ScaleInvImplies DEF NumbersInv
  <1> QED BY <1>1, NumbersInvAlways, PTL

(* For every number of nanoseconds in a second and all clock values, the   *)
(* difference and its sign are exact and the rewritten argument means the  *)
(* same instant (dwh.cpp, timespec_elapsed).                               *)
THEOREM ElapsedAlwaysExact == Spec => []ElapsedExact
  <1>1. NumbersInv => ElapsedExact
    BY DEF NumbersInv, TimespecInv
  <1> QED BY <1>1, NumbersInvAlways, PTL
=============================================================================
