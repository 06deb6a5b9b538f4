------------------------------ MODULE CharFile ------------------------------
(***************************************************************************)
(* The files the character device and sysfs examples offer, as a program   *)
(* that uses them sees them: mychardev (simple_chardev/chardev.c) reads    *)
(* out one fixed line and copies what is written into a buffer on the      *)
(* stack; kobject_example.c has two integers that share one pair of        *)
(* functions, kobj_attribute_example.c and sysfs_kset_example.c an integer *)
(* and a buffer behind functions of their own.  A text is its length and   *)
(* the one value its bytes stand for.                                      *)
(***************************************************************************)
EXTENDS Integers, Sequences

CONSTANTS
  LINE,        \* the length of mychardev's line             (29)
  MAX_LEN,     \* the bytes a write to mychardev keeps       (30)
  BUFFER,      \* sizeof my_buffer                           (256)
  Counts,      \* bound: the lengths of reads and writes
  Value,       \* bound: what is written
  MaxCalls     \* bound

ASSUME CharFileAssumption ==
  /\ LINE \in Nat \ {0} /\ MAX_LEN \in Nat \ {0} /\ BUFFER \in Nat \ {0}
  /\ Counts \subseteq Nat \ {0} /\ MaxCalls \in Nat

VARIABLES
  file,       \* the example that is loaded
  int1, int2, \* my_int and my_second_int
  buffer,     \* my_buffer: its text [len, val]; kzalloc made it empty
  answer,     \* what the last call returned, and showed
  got,        \* mychardev: how much one reader has read
  last,       \* history: what was last stored through each attribute
  calls

filVars == <<file, int1, int2, buffer, answer, got, last, calls>>

Examples == {"mychardev", "kobject", "attribute", "kset"}
Attribute == {"my_int", "my_second_int", "my_buffer"}
Offers(f) == CASE f = "mychardev" -> {} [] f = "kobject" -> {"my_int", "my_second_int"}
               [] OTHER -> {"my_int", "my_buffer"}

Least(a, b) == IF a < b THEN a ELSE b
Text(n, v) == [len |-> n, val |-> v]
Nothing == [call |-> "none", ret |-> 0, shown |-> Text(0, 0)]

FilInit ==
  /\ file \in Examples
  /\ int1 = 0 /\ int2 = 0
  /\ buffer = Text(0, 0)
  /\ answer = Nothing
  /\ got = 0
  /\ last = [a \in Attribute |-> Text(0, 0)]
  /\ calls = 0

Calling == calls < MaxCalls /\ calls' = calls + 1

\* The line from its start: the offset is neither used nor set.
ReadLen(count, offset) == Least(count, LINE)

EFAULT == -14

\* mychardev_read: `missed` bytes at the end of the reader's buffer cannot be
\* written.
MychardevRead(count, missed) ==
  LET n == ReadLen(count, got) IN
  /\ file = "mychardev" /\ Calling
  /\ missed <= n
  /\ \/ /\ missed = 0
        /\ answer' = [call |-> "read", ret |-> n, shown |-> Text(n, 1)]
        /\ got' = Least(got + n, 2 * LINE)
     \/ /\ missed > 0
        /\ answer' = [call |-> "read", ret |-> EFAULT, shown |-> Text(0, 0)]
        /\ UNCHANGED got
  /\ UNCHANGED <<file, int1, int2, buffer, last>>

\* Where mychardev_write ends the text: at the number of bytes copy_from_user
\* could NOT copy, which is 0 for a write that worked.
EndsAt(n, missed) == missed

\* mychardev_write: `missed` bytes at the end of the buffer are not readable.
MychardevWrite(count, missed, v) ==
  LET n == Least(count, MAX_LEN)
      end == EndsAt(n, missed)
  IN
  /\ file = "mychardev" /\ Calling
  /\ missed <= n
  /\ answer' = [call |-> "write", ret |-> count,
                shown |-> Text(end, IF end <= n - missed THEN v ELSE -1)]
  /\ UNCHANGED <<file, int1, int2, buffer, got, last>>

\* my_file_store of kobject_example.c: strncmp is nonzero, so that my_int is
\* used, for the attribute whose name does NOT begin with my_int.
StoresFirst(a) == a # "my_int"

\* my_file_show has the same comparison.
ShowsFirst(a) == a # "my_int"

\* my_file_store with a text kstrtoint takes (valid) or refuses: the older
\* example returns its error, the two others 0.
IntStore(a, v, valid, count) ==
  /\ a \in Offers(file) \ {"my_buffer"} /\ Calling
  /\ IF ~valid THEN UNCHANGED <<int1, int2>>
     ELSE IF file = "kobject" /\ ~StoresFirst(a) THEN int2' = v /\ UNCHANGED int1
     ELSE int1' = v /\ UNCHANGED int2
  /\ last' = IF valid THEN [last EXCEPT ![a] = Text(1, v)] ELSE last
  /\ answer' = [call |-> "store", shown |-> Text(0, 0),
                ret |-> IF valid THEN count ELSE IF file = "kobject" THEN -22 ELSE 0]
  /\ UNCHANGED <<file, buffer, got>>

\* my_file_show.
IntShow(a) ==
  /\ a \in Offers(file) \ {"my_buffer"} /\ Calling
  /\ answer' = [call |-> a, ret |-> 1,
                shown |-> Text(1, IF file = "kobject" /\ ~ShowsFirst(a) THEN int2 ELSE int1)]
  /\ UNCHANGED <<file, int1, int2, buffer, got, last>>

\* strncpy(my_buffer, buf, 256): filled with zeros behind the text, and not
\* ended at all when the text fills it.
Stored(count, v) == IF count < BUFFER THEN Text(count, v) ELSE Text(BUFFER, v)

\* my_buffer_store.
BufferStore(count, v) ==
  /\ "my_buffer" \in Offers(file) /\ Calling
  /\ buffer' = Stored(count, v)
  /\ last' = [last EXCEPT !["my_buffer"] = Text(count, v)]
  /\ answer' = [call |-> "store", ret |-> count, shown |-> Text(0, 0)]
  /\ UNCHANGED <<file, int1, int2, got>>

\* my_buffer_show: "%s" reads on behind a buffer without an end.
BufferShow ==
  /\ "my_buffer" \in Offers(file) /\ Calling
  /\ answer' = [call |-> "buffer",
                ret |-> buffer.len,
                shown |-> IF buffer.len < BUFFER THEN buffer ELSE Text(BUFFER + 1, -1)]
  /\ UNCHANGED <<file, int1, int2, buffer, got, last>>

FilNext ==
  \/ \E n \in Counts :
       \/ \E missed \in {0, 1, n} : MychardevRead(n, missed)
       \/ \E v \in Value :
            \/ \E missed \in {0, 1, n} : MychardevWrite(n, missed, v)
            \/ BufferStore(n, v)
            \/ \E a \in Attribute, valid \in BOOLEAN : IntStore(a, v, valid, n)
  \/ \E a \in Attribute : IntShow(a)
  \/ BufferShow

FilSpec == FilInit /\ [][FilNext]_filVars

-----------------------------------------------------------------------------
(* Properties *)

FilTypeOK ==
  /\ file \in Examples
  /\ int1 \in Value \cup {0} /\ int2 \in Value \cup {0}
  /\ buffer.len \in 0 .. BUFFER
  /\ got \in 0 .. 2 * LINE /\ calls \in 0 .. MaxCalls

\* An attribute shows what was last stored through it and parsed, although the
\* functions the two integers share have the comparison the wrong way round.
ShowsWhatWasStored ==
  answer.call \in {"my_int", "my_second_int"} => answer.shown.val = last[answer.call].val

\* The buffer is shown as it was stored, but for a text that fills it: what is
\* behind the buffer is then shown as well.
BufferShownExplained ==
  answer.call = "buffer" =>
    \/ answer.shown = last["my_buffer"]
    \/ last["my_buffer"].len >= BUFFER

\* A read never reports the end of the file (0), but bytes or an error: who reads
\* until the end reads the line for ever.
EndlessLine == answer.call = "read" => answer.ret > 0 \/ answer.ret = EFAULT
=============================================================================
