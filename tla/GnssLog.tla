------------------------------- MODULE GnssLog -------------------------------
(***************************************************************************)
(* The log directory of the GPS daemon (script/gps/main.c).                *)
(* gnss_log_record appends what it reads from the receiver to one .ubx     *)
(* file; past log_size it closes the file, log_rotate removes the oldest   *)
(* .gz file if there are many and forks a gzip of the closed file, and a   *)
(* file named by the current second is opened.  The gzip processes run     *)
(* beside the daemon; both may be cut off by a loss of power, and the      *)
(* daemon starts again on the directory it left.                           *)
(***************************************************************************)
EXTENDS Integers, FiniteSets

CONSTANTS
  MAX_FILES,    \* files the directory is meant to hold                  (50)
  LOG_SIZE,     \* log_size, in reads from the receiver
  MaxTime,      \* bound: seconds
  MaxReads,     \* bound: reads from the receiver
  MaxStarts     \* bound: starts of the log thread

ASSUME LogAssumption ==
  /\ MAX_FILES \in Nat /\ MAX_FILES > 1
  /\ LOG_SIZE \in Nat
  /\ MaxTime \in Nat /\ MaxReads \in Nat /\ MaxStarts \in Nat

Name == 0 .. MaxTime    \* a file is named by the second it was made in
Absent == -1

VARIABLES
  logging,   \* gnss_log_record is in its loop
  logFile,   \* its local "file"
  fsize,     \* its local "fsize"
  ubx,       \* the size of each .ubx file, or Absent
  mtime,     \* when each .ubx file was last written
  gz,        \* each .gz file: "no", "part" (gzip has not finished it), "whole"
  gzTime,    \* the modification time of each .gz file
  gzip,      \* external: the gzip process of each file: "no", "forked", "open", "read"
  seen,      \* external: how much of the file that process read
  second,    \* the clock
  reads,     \* history: reads from the receiver
  starts,    \* history: starts of the log thread
  crashed,   \* history: the power was lost
  reused,    \* history: names a new file was opened under that had one
  left,      \* history: a start left a .ubx file no gzip was working on
  swept,     \* history: .gz files removed while gzip was writing them
  overlap,   \* history: a rotation came while a gzip was running
  lost       \* history: files of which logged data is gone that no rotation removed

dirVars == <<ubx, mtime, gz, gzTime>>
gzipVars == <<gzip, seen>>
logHistory == <<reads, starts, crashed, reused, left, swept, overlap, lost>>
logVars == <<logging, logFile, fsize, dirVars, gzipVars, second, logHistory>>

LogInit ==
  /\ logging = FALSE /\ logFile = 0 /\ fsize = 0
  /\ ubx = [n \in Name |-> Absent] /\ mtime = [n \in Name |-> 0]
  /\ gz = [n \in Name |-> "no"] /\ gzTime = [n \in Name |-> 0]
  /\ gzip = [n \in Name |-> "no"] /\ seen = [n \in Name |-> 0]
  /\ second = 0
  /\ reads = 0 /\ starts = 0 /\ crashed = FALSE
  /\ reused = {} /\ swept = {} /\ overlap = FALSE /\ left = FALSE /\ lost = {}

Files == {n \in Name : ubx[n] # Absent}
Zipped == {n \in Name : gz[n] # "no"}

-----------------------------------------------------------------------------
(* The log thread *)

\* get_log_filename at the start.  readdir lists the files in any order; one not
\* newer than a file already looked at is passed over, the first that is below
\* log_size is taken, so a large newer file listed first hides a small one.
Small == {n \in Files : ubx[n] < LOG_SIZE}
Hidden == \A n \in Small : \E m \in Files \ Small : mtime[m] >= mtime[n]

\* Another .ubx file is there which nothing will compress.
Idle(n) == \E m \in Files \ {n} : gzip[m] = "no"

\* fopen(file, "a+") of a file that may exist.
Opened(n) == IF ubx[n] = Absent THEN [ubx EXCEPT ![n] = 0] ELSE ubx

StartLog ==
  /\ ~logging /\ starts < MaxStarts
  /\ starts' = starts + 1
  /\ \/ \E n \in Small :
          /\ logFile' = n
          /\ fsize' = ubx[n]
          /\ left' = (left \/ Idle(n))
          /\ UNCHANGED <<ubx, mtime, reused>>
     \/ /\ Hidden
        /\ logFile' = second
        /\ fsize' = 0
        /\ ubx' = Opened(second)
        /\ reused' = IF ubx[second] # Absent THEN reused \cup {second} ELSE reused
        /\ mtime' = [mtime EXCEPT ![second] = second]
        /\ left' = (left \/ Idle(second))
  /\ logging' = TRUE
  /\ UNCHANGED <<gz, gzTime, gzipVars, second, reads, crashed, swept, overlap, lost>>

\* log_rotate removes the oldest .gz file (one of them, if several are).
Oldest == {n \in Zipped : /\ gzTime[n] < second
                          /\ \A m \in Zipped : gzTime[n] <= gzTime[m]}

\* What it removes, or Absent.
Sweep == IF Cardinality(Zipped) >= MAX_FILES - 1 /\ Oldest # {} THEN Oldest ELSE {Absent}

\* log_rotate forks a gzip of the file that is full.
Forked == [gzip EXCEPT ![logFile] = IF @ = "no" THEN "forked" ELSE @]

\* Mutant: the file keeps being written while gzip compresses it.
NextNameSame == logFile

\* get_log_filename of a new file.
NextName == second

\* One read from the receiver is appended; past log_size the directory is
\* rotated and a new file opened.
LogRead ==
  /\ logging /\ reads < MaxReads
  /\ reads' = reads + 1
  /\ mtime' = [mtime EXCEPT ![logFile] = second]
  /\ LET grown == [ubx EXCEPT ![logFile] = IF @ = Absent THEN @ ELSE @ + 1]
         gone  == ubx[logFile] = Absent   \* gzip has unlinked the open file
         full  == fsize + 1 > LOG_SIZE
     IN
     \/ /\ ~full
        /\ fsize' = fsize + 1
        /\ ubx' = grown
        /\ lost' = IF gone THEN lost \cup {logFile} ELSE lost
        /\ UNCHANGED <<logFile, gz, gzTime, gzip, reused, swept, overlap>>
     \/ /\ full
        /\ \E d \in Sweep :
             /\ gz' = IF d = Absent THEN gz ELSE [gz EXCEPT ![d] = "no"]
             /\ swept' = IF d # Absent /\ gzip[d] # "no" THEN swept \cup {d} ELSE swept
        /\ gzip' = Forked
        /\ overlap' = (overlap \/ \E n \in Name : gzip[n] # "no")
        /\ logFile' = NextName
        /\ fsize' = 0
        /\ reused' = IF NextName = second /\ grown[second] # Absent THEN reused \cup {NextName} ELSE reused
        /\ ubx' = [grown EXCEPT ![NextName] = IF @ = Absent THEN 0 ELSE @]
        /\ lost' = IF gone THEN lost \cup {logFile} ELSE lost
        /\ UNCHANGED gzTime
  /\ UNCHANGED <<logging, seen, second, starts, crashed, left>>

\* gl_exit is seen: the loop ends and the file is closed.
StopLog ==
  /\ logging
  /\ logging' = FALSE
  /\ UNCHANGED <<logFile, fsize, dirVars, gzipVars, second, logHistory>>

-----------------------------------------------------------------------------
(* External: gzip, the clock, the power supply *)

\* gzip makes the .gz file; if there is one already it gives up.
GzipOpen(n) ==
  /\ gzip[n] = "forked"
  /\ IF gz[n] = "no" /\ ubx[n] # Absent
     THEN /\ gz' = [gz EXCEPT ![n] = "part"]
          /\ gzTime' = [gzTime EXCEPT ![n] = second]
          /\ gzip' = [gzip EXCEPT ![n] = "open"]
     ELSE /\ gzip' = [gzip EXCEPT ![n] = "no"]
          /\ UNCHANGED <<gz, gzTime>>
  /\ UNCHANGED <<logging, logFile, fsize, ubx, mtime, seen, second, logHistory>>

\* gzip has read to the end of the file.
GzipRead(n) ==
  /\ gzip[n] = "open"
  /\ gzip' = [gzip EXCEPT ![n] = "read"]
  /\ seen' = [seen EXCEPT ![n] = ubx[n]]
  /\ UNCHANGED <<logging, logFile, fsize, dirVars, second, logHistory>>

\* gzip gives the .gz file the times of the original, which it removes.
GzipDone(n) ==
  /\ gzip[n] = "read"
  /\ gzip' = [gzip EXCEPT ![n] = "no"]
  /\ seen' = [seen EXCEPT ![n] = 0]
  /\ gz' = [gz EXCEPT ![n] = IF @ = "part" THEN "whole" ELSE @]
  /\ gzTime' = [gzTime EXCEPT ![n] = mtime[n]]
  /\ ubx' = [ubx EXCEPT ![n] = Absent]
  /\ lost' = IF ubx[n] > seen[n] \/ gz[n] = "no" THEN lost \cup {n} ELSE lost
  /\ UNCHANGED <<logging, logFile, fsize, mtime, second, reads, starts, crashed, reused, left, swept, overlap>>

LogTick ==
  /\ second < MaxTime
  /\ second' = second + 1
  /\ UNCHANGED <<logging, logFile, fsize, dirVars, gzipVars, logHistory>>

\* Everything that runs is gone; what is written stays.
Crash ==
  /\ crashed' = TRUE
  /\ logging' = FALSE
  /\ gzip' = [n \in Name |-> "no"]
  /\ seen' = [n \in Name |-> 0]
  /\ UNCHANGED <<logFile, fsize, dirVars, second, reads, starts, reused, left, swept, overlap, lost>>

LogEnvironment ==
  \/ \E n \in Name : GzipOpen(n) \/ GzipRead(n) \/ GzipDone(n)
  \/ LogTick
  \/ Crash

LogNext == StartLog \/ LogRead \/ StopLog \/ LogEnvironment

LogSpec == LogInit /\ [][LogNext]_logVars

-----------------------------------------------------------------------------
(* Properties *)

LogTypeOK ==
  /\ logging \in BOOLEAN /\ logFile \in Name /\ fsize \in Nat
  /\ ubx \in [Name -> Nat \cup {Absent}] /\ mtime \in [Name -> Nat]
  /\ gz \in [Name -> {"no", "part", "whole"}] /\ gzTime \in [Name -> Nat]
  /\ gzip \in [Name -> {"no", "forked", "open", "read"}]
  /\ seen \in [Name -> Nat]
  /\ second \in Name /\ reads \in 0 .. MaxReads /\ starts \in 0 .. MaxStarts /\ crashed \in BOOLEAN
  /\ reused \subseteq Name /\ swept \subseteq Name /\ lost \subseteq Name
  /\ overlap \in BOOLEAN /\ left \in BOOLEAN

\* Logged data is lost to nothing but rotation's own removal of old files, with
\* two exceptions: two rotations within a second write to the file being
\* compressed, and a rotation may remove a file gzip is still writing.
LogLossExplained == lost \subseteq reused \cup swept

\* A .ubx file holds at most one read more than log_size, except under a name
\* opened again within a second, whose size counts from 0.
LogSizeKept == \A n \in Files \ reused : ubx[n] <= LOG_SIZE + 1

\* The start-up message names MAX_FILES as the limit of the files in the
\* directory (a file and its .gz counted once).
LogNumberKept == Cardinality(Files \cup Zipped) <= MAX_FILES

\* It is kept as long as no rotation comes while a gzip is running, no power is
\* lost, no name is opened twice and no start leaves a file behind: a file of
\* exactly log_size was not rotated and is not continued.
LogNumberExplained ==
  ~overlap /\ ~crashed /\ reused = {} /\ ~left => LogNumberKept

\* What the log keeps of the receiver's data, and how much of it at a time.
LogExplained == LogLossExplained /\ LogSizeKept /\ LogNumberExplained

=============================================================================
