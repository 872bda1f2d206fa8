------------------------------- MODULE Logger -------------------------------
(***************************************************************************)
(* The Logger (src/Logger.cpp), which the LOG macros call in a build with  *)
(* DEBUGMODE.  One object serves all threads: its level is compared before *)
(* its mutex is taken, everything else is done under the mutex.            *)
(*                                                                         *)
(* The clock is read under the mutex.  What it says is left out: it is the *)
(* system's, printed in local time, and can be set back.  Of a line's time *)
(* only is kept which reading of the clock it is from.  That a line goes   *)
(* to std::cout as well is left out.                                       *)
(***************************************************************************)
EXTENDS Naturals, Sequences

CONSTANTS
  Thread,
  Text,     \* what is logged
  File,     \* names of log files
  MainLine  \* a line that main() logs, before there are threads or in another process:
            \* none of Line

\* DEBUG, INFO, WARN, ERROR
Level == 0..3
DEBUG == 0
INFO  == 1

Line == [by : Thread, text : Text, level : Level, read : Nat]

VARIABLES
  mutex,         \* who holds it: nobody, or one thread
  currentLevel,
  logFile,       \* the file that is open, if any
  files,         \* files[f]: what is in file f
  reads,         \* how often the threads have read the clock
  at,            \* at[t]: where t is in log(); "out": not in it
  line           \* line[t]: the line of t

vars == <<mutex, currentLevel, logFile, files, reads, at, line>>

NoLine == <<>>

TypeOK ==
  /\ mutex \in {{}} \cup {{t} : t \in Thread}
  /\ currentLevel \in Level
  /\ logFile \in {{}} \cup {{f} : f \in File}
  /\ files \in [File -> Seq(Line \cup {MainLine})]
  /\ reads \in Nat
  /\ at \in [Thread -> {"out", "lock", "write"}]
  /\ line \in [Thread -> Line \cup {NoLine}]
  /\ \A t \in Thread : at[t] # "out" => line[t] \in Line

\* getInstance(): the object of a process that starts.
Fresh ==
  /\ mutex' = {} /\ currentLevel' = INFO /\ logFile' = {}
  /\ at' = [t \in Thread |-> "out"] /\ line' = [t \in Thread |-> NoLine]
  /\ UNCHANGED <<files, reads>>

Init ==
  /\ mutex = {} /\ currentLevel = INFO /\ logFile = {}
  /\ files = [f \in File |-> <<>>] /\ reads = 0
  /\ at = [t \in Thread |-> "out"] /\ line = [t \in Thread |-> NoLine]

-----------------------------------------------------------------------------

\* The file that was open is closed, and the new one opened to append.
SetLogFile(f) ==
  /\ mutex = {}
  /\ logFile' = {f}
  /\ UNCHANGED <<mutex, currentLevel, files, reads, at, line>>

SetLogLevel(l) ==
  /\ mutex = {}
  /\ currentLevel' = l
  /\ UNCHANGED <<mutex, logFile, files, reads, at, line>>

\* main() logs a line: it has the mutex to itself, or one of its own where it is the
\* main() of another process, whose file is the same.
LogMain(f) ==
  /\ files' = [files EXCEPT ![f] = Append(@, MainLine)]
  /\ UNCHANGED <<mutex, currentLevel, logFile, reads, at, line>>

\* log() returns at once.
Suppressed(l) == l < currentLevel

\* log(), up to the lock_guard.
Log(t, l, m) ==
  /\ at[t] = "out"
  /\ ~Suppressed(l)
  /\ at' = [at EXCEPT ![t] = "lock"]
  /\ line' = [line EXCEPT ![t] = [by |-> t, text |-> m, level |-> l, read |-> 0]]
  /\ UNCHANGED <<mutex, currentLevel, logFile, files, reads>>

\* Mutant of Lock: nobody waits.
LockNot(t) ==
  /\ at[t] = "lock"
  /\ mutex' = {t}
  /\ reads' = reads + 1
  /\ line' = [line EXCEPT ![t].read = reads']
  /\ at' = [at EXCEPT ![t] = "write"]
  /\ UNCHANGED <<currentLevel, logFile, files>>

\* The lock_guard, and the line with what getTimestamp() reads.
Lock(t) ==
  /\ at[t] = "lock"
  /\ mutex = {}
  /\ mutex' = {t}
  /\ reads' = reads + 1
  /\ line' = [line EXCEPT ![t].read = reads']
  /\ at' = [at EXCEPT ![t] = "write"]
  /\ UNCHANGED <<currentLevel, logFile, files>>

\* logFile << ss.str(), flush() and the end of the lock_guard.
Write(t) ==
  /\ at[t] = "write"
  /\ files' = [f \in File |->
                IF f \in logFile THEN Append(files[f], line[t]) ELSE files[f]]
  /\ mutex' = {}
  /\ at' = [at EXCEPT ![t] = "out"]
  /\ line' = [line EXCEPT ![t] = NoLine]
  /\ UNCHANGED <<currentLevel, logFile, reads>>

Next ==
  \/ \E f \in File : SetLogFile(f) \/ LogMain(f)
  \/ \E l \in Level : SetLogLevel(l)
  \/ \E t \in Thread :
       \/ \E l \in Level, m \in Text : Log(t, l, m)
       \/ Lock(t) \/ Write(t)
  \/ Fresh

Spec == Init /\ [][Next]_vars

-----------------------------------------------------------------------------
(* Properties *)

\* The threads' lines stand in a file in the order in which they read the clock,
\* over all starts of the process: where the times in a log go back, the clock went
\* back or another process wrote, never two threads.
LinesInReadOrder ==
  \A f \in File : \A i, j \in 1..Len(files[f]) :
    i < j /\ files[f][i] # MainLine /\ files[f][j] # MainLine =>
      files[f][i].read < files[f][j].read
=============================================================================
