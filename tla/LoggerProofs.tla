---------------------------- MODULE LoggerProofs ----------------------------
(* The lines of the threads stand in a log file in the order in which they   *)
(* read the clock, for any number of threads and files.  The clock is read   *)
(* and the line written under one hold of the mutex, so the line in work is  *)
(* from a later reading than every line of a thread that any file has.       *)
EXTENDS Logger, TLAPS

\* A thread that writes has the mutex, and nobody read the clock after it.
WriterIsNewest ==
  \A t \in Thread : at[t] = "write" => mutex = {t} /\ line[t].read = reads

\* What threads have in a file is from readings of the clock, earlier ones than
\* that of the line in work.
FilesAreOlder ==
  \A f \in File : \A i \in 1..Len(files[f]) : files[f][i] # MainLine =>
    /\ files[f][i].read <= reads
    /\ \A t \in Thread : at[t] = "write" => files[f][i].read < line[t].read

LInv == TypeOK /\ WriterIsNewest /\ FilesAreOlder /\ LinesInReadOrder

-----------------------------------------------------------------------------
\* Before the first line the files are empty, whatever the process is (getInstance).
LEMMA LInvInit == Init => LInv
  BY DEF Init, LInv, TypeOK, WriterIsNewest, FilesAreOlder, LinesInReadOrder, Level, INFO, NoLine

\* A start of the process (getInstance) and the calls before the threads do not
\* write to a file.
LEMMA QuietSteps ==
  ASSUME LInv,
         \/ Fresh
         \/ \E f \in File : SetLogFile(f)
         \/ \E l \in Level : SetLogLevel(l)
         \/ UNCHANGED vars
  PROVE  LInv'
  <1> USE DEF LInv, TypeOK, WriterIsNewest, FilesAreOlder, LinesInReadOrder
  <1>1. CASE Fresh
    BY <1>1 DEF Fresh, Level, INFO, NoLine
  <1>2. CASE \E f \in File : SetLogFile(f)
    BY <1>2 DEF SetLogFile
  <1>3. CASE \E l \in Level : SetLogLevel(l)
    BY <1>3 DEF SetLogLevel
  <1>4. CASE UNCHANGED vars
    BY <1>4 DEF vars
  <1> QED BY <1>1, <1>2, <1>3, <1>4

\* What main() logs, here or in another process, puts no line of a thread into a
\* file and moves none past another.
LEMMA LogMainStep ==
  ASSUME LInv, NEW f \in File, LogMain(f)
  PROVE  LInv'
  <1> USE DEF LInv, LogMain
  <1>1. ASSUME NEW g \in File
        PROVE  /\ files'[g] \in Seq(Line \cup {MainLine})
               /\ \A i \in 1..Len(files'[g]) : files'[g][i] # MainLine =>
                    i \in 1..Len(files[g]) /\ files'[g][i] = files[g][i]
    <2>1. files[g] \in Seq(Line \cup {MainLine})
      BY DEF TypeOK
    <2>2. CASE g # f
      BY <2>1, <2>2 DEF TypeOK
    <2>3. CASE g = f
      <3>1. files'[g] = Append(files[g], MainLine)
        BY <2>3 DEF TypeOK
      <3> QED BY <2>1, <3>1
    <2> QED BY <2>2, <2>3
  <1>2. TypeOK'
    <2>1. files' \in [File -> Seq(Line \cup {MainLine})]
      BY <1>1 DEF TypeOK
    <2> QED BY <2>1 DEF TypeOK
  <1>3. WriterIsNewest'
    BY DEF WriterIsNewest
  <1>4. FilesAreOlder'
    BY <1>1 DEF FilesAreOlder
  <1>5. LinesInReadOrder'
    BY <1>1 DEF LinesInReadOrder
  <1> QED BY <1>2, <1>3, <1>4, <1>5

\* log() before its lock_guard: the line has no reading yet, and is not being written.
LEMMA LogStep ==
  ASSUME LInv, NEW t \in Thread, NEW l \in Level, NEW m \in Text, Log(t, l, m)
  PROVE  LInv'
  <1> USE DEF LInv, Log
  <1>1. TypeOK'
    BY DEF TypeOK, Line, NoLine
  <1>2. at' = [at EXCEPT ![t] = "lock"] /\ \A u \in Thread : u # t => line'[u] = line[u]
    BY DEF TypeOK
  <1>3. \A u \in Thread : at'[u] = "write" => at[u] = "write" /\ line'[u] = line[u]
    BY <1>2 DEF TypeOK
  <1>4. files' = files /\ reads' = reads /\ mutex' = mutex
    OBVIOUS
  <1>5. WriterIsNewest'
    BY <1>3, <1>4 DEF WriterIsNewest
  <1>6. FilesAreOlder'
    BY <1>3, <1>4 DEF FilesAreOlder
  <1>7. LinesInReadOrder'
    BY <1>4 DEF LinesInReadOrder
  <1> QED BY <1>1, <1>5, <1>6, <1>7

\* Under the lock_guard: the reading is newer than all that was written.
LEMMA LockStep ==
  ASSUME LInv, NEW t \in Thread, Lock(t)
  PROVE  LInv'
  <1> USE DEF LInv, Lock
  <1>1. line[t] \in Line /\ reads' \in Nat /\ reads' = reads + 1
    BY DEF TypeOK
  <1>2. line'[t] = [line[t] EXCEPT !.read = reads'] /\ line'[t] \in Line /\ line'[t].read = reads'
    BY <1>1 DEF TypeOK, Line
  <1>3. \A u \in Thread : at'[u] = IF u = t THEN "write" ELSE at[u]
    BY DEF TypeOK
  <1>4. \A u \in Thread : u # t => line'[u] = line[u]
    BY DEF TypeOK
  <1>5. TypeOK'
    <2>1. \A u \in Thread : at'[u] # "out" => line'[u] \in Line
      BY <1>2, <1>3, <1>4 DEF TypeOK
    <2> QED BY <2>1, <1>1 DEF TypeOK
  <1>6. \A u \in Thread : at'[u] = "write" => u = t
    BY <1>3 DEF WriterIsNewest
  <1>7. WriterIsNewest'
    BY <1>2, <1>6 DEF WriterIsNewest
  <1>8. FilesAreOlder'
    <2>1. ASSUME NEW f \in File, NEW i \in 1..Len(files[f]), files[f][i] # MainLine
          PROVE  files[f][i].read < reads' /\ files[f][i].read <= reads'
      <3>1. files[f][i] \in Line
        BY <2>1 DEF TypeOK
      <3>2. files[f][i].read \in Nat
        BY <3>1 DEF Line
      <3> QED BY <2>1, <3>2, <1>1 DEF FilesAreOlder, TypeOK
    <2>2. \A u \in Thread : at'[u] = "write" => line'[u].read = reads'
      BY <1>2, <1>6
    <2> QED BY <2>1, <2>2 DEF FilesAreOlder
  <1>9. LinesInReadOrder'
    BY DEF LinesInReadOrder
  <1> QED BY <1>5, <1>7, <1>8, <1>9

\* The line goes behind lines that are all older, and no thread writes after it
\* before it has the mutex and a reading of its own.
LEMMA WriteStep ==
  ASSUME LInv, NEW t \in Thread, Write(t)
  PROVE  LInv'
  <1> USE DEF LInv, Write
  <1>1. line[t] \in Line /\ mutex = {t} /\ line[t].read = reads
    BY DEF TypeOK, WriterIsNewest
  <1>2. \A u \in Thread : at'[u] = IF u = t THEN "out" ELSE at[u]
    BY DEF TypeOK
  <1>3. \A u \in Thread : line'[u] = IF u = t THEN NoLine ELSE line[u]
    BY DEF TypeOK
  <1>4. \A u \in Thread : at'[u] # "write"
    BY <1>1, <1>2 DEF WriterIsNewest
  <1>5. ASSUME NEW f \in File
        PROVE  /\ files'[f] \in Seq(Line \cup {MainLine})
               /\ \/ files'[f] = files[f]
                  \/ /\ Len(files'[f]) = Len(files[f]) + 1
                     /\ files'[f][Len(files[f]) + 1] = line[t]
                     /\ \A i \in 1..Len(files[f]) : files'[f][i] = files[f][i]
    BY <1>1 DEF TypeOK
  <1>6. TypeOK'
    <2>1. files' \in [File -> Seq(Line \cup {MainLine})]
      BY <1>5
    <2>2. \A u \in Thread : at'[u] # "out" => line'[u] \in Line
      BY <1>2, <1>3 DEF TypeOK
    <2> QED BY <2>1, <2>2 DEF TypeOK
  <1>7. FilesAreOlder'
    <2> SUFFICES ASSUME NEW f \in File, NEW i \in 1..Len(files'[f]),
                        files'[f][i] # MainLine
                 PROVE  files'[f][i].read <= reads
      BY <1>4 DEF FilesAreOlder
    <2>1. CASE files'[f] = files[f]
      BY <2>1 DEF FilesAreOlder
    <2>2. CASE files'[f] # files[f] /\ i = Len(files[f]) + 1
      BY <2>2, <1>1, <1>5 DEF TypeOK
    <2>3. CASE files'[f] # files[f] /\ i # Len(files[f]) + 1
      <3>1. i \in 1..Len(files[f]) /\ files'[f][i] = files[f][i]
        BY <2>3, <1>5 DEF TypeOK
      <3> QED BY <3>1 DEF FilesAreOlder
    <2> QED BY <2>1, <2>2, <2>3
  <1>8. LinesInReadOrder'
    <2> SUFFICES ASSUME NEW f \in File, NEW i \in 1..Len(files'[f]), NEW j \in 1..Len(files'[f]),
                        i < j, files'[f][i] # MainLine, files'[f][j] # MainLine
                 PROVE  files'[f][i].read < files'[f][j].read
      BY DEF LinesInReadOrder
    <2>1. CASE files'[f] = files[f]
      BY <2>1 DEF LinesInReadOrder
    <2>2. CASE files'[f] # files[f]
      <3>1. i \in 1..Len(files[f]) /\ files'[f][i] = files[f][i]
        BY <2>2, <1>5 DEF TypeOK
      <3>2. CASE j = Len(files[f]) + 1
        BY <2>2, <3>1, <3>2, <1>5 DEF FilesAreOlder
      <3>3. CASE j # Len(files[f]) + 1
        <4>1. j \in 1..Len(files[f]) /\ files'[f][j] = files[f][j]
          BY <2>2, <3>3, <1>5 DEF TypeOK
        <4> QED BY <3>1, <4>1 DEF LinesInReadOrder
      <3> QED BY <3>2, <3>3
    <2> QED BY <2>1, <2>2
  <1> QED BY <1>4, <1>6, <1>7, <1>8 DEF WriterIsNewest

\* Every step of the logger, and of the process it is in, keeps the invariant.
LEMMA LInvStep == LInv /\ [Next]_vars => LInv'
  <1> SUFFICES ASSUME LInv, [Next]_vars PROVE LInv'
    OBVIOUS
  <1>1. CASE \E t \in Thread, l \in Level, m \in Text : Log(t, l, m)
    BY <1>1, LogStep
  <1>2. CASE \E t \in Thread : Lock(t)
    BY <1>2, LockStep
  <1>3. CASE \E t \in Thread : Write(t)
    BY <1>3, WriteStep
  <1>4. CASE \E f \in File : LogMain(f)
    BY <1>4, LogMainStep
  <1>5. CASE \/ Fresh \/ (\E f \in File : SetLogFile(f)) \/ (\E l \in Level : SetLogLevel(l))
             \/ UNCHANGED vars
    BY <1>5, QuietSteps
  <1> QED BY <1>1, <1>2, <1>3, <1>4, <1>5 DEF Next

\* The Logger keeps its types, and its lines their order (Logger::log).
THEOREM LogInvariant == Spec => []LInv
  BY LInvInit, LInvStep, PTL DEF Spec

\* The lines of threads stand in a log file in the order in which the threads read
\* the clock (Logger::log), however many starts of the process they are from.
THEOREM LogInOrder == Spec => []LinesInReadOrder
  <1>1. LInv => LinesInReadOrder
    BY DEF LInv
  <1> QED BY <1>1, LogInvariant, PTL
=============================================================================
