------------------------------ MODULE Logging ------------------------------
(***************************************************************************)
(* lib/logger/logger.c over the selector's table: lines are appended to a  *)
(* buffer, written with dates to standard output when it takes them, and   *)
(* copied to a second buffer for the log file.                             *)
(*                                                                         *)
(* An entry is LineLen cells <<n, k>>, the last of them a newline, and     *)
(* others too where a name or a password that is logged has one            *)
(* (auth.c:159); the one format without a newline at its end               *)
(* (closing.c:49) is never logged, as closing.c:36 is.  The date and the   *)
(* blank put in front of a line are DateLen cells without an entry, 20     *)
(* bytes in the code.  The rest of the server is seen as entries that are  *)
(* logged and as other descriptors of the same table.                      *)
(***************************************************************************)
EXTENDS SelectorTable, Sequences, SequencesExt

CONSTANTS LogFd,        \* the duplicate of standard output
          FileFd,       \* the log file
          Other,        \* what the rest of the server passes as descriptors
          LineLen, DateLen,
          Breaks,       \* the cells before the last that are newlines, too
          MaxLines,     \* bound: entries logged
          MaxStalls     \* bound: writes to standard output that fall short

ASSUME LoggingAssumption ==
  /\ {LogFd, FileFd} \subseteq Fds /\ LogFd # FileFd
  /\ Other \subseteq Int \ {LogFd, FileFd}
  /\ LineLen \in Nat \ {0} /\ DateLen \in Nat \ {0}
  /\ Breaks \subseteq (1..MaxLines) \X (1..LineLen)
  /\ MaxLines \in Nat /\ MaxStalls \in Nat

VARIABLES text,       \* buffer[0 .. size - 1]
          fileText,   \* file_buffer[0 .. file_size - 1]
          out,        \* what standard output got
          file,       \* what the log file got
          logged,     \* entries logged so far
          stalls,     \* writes to standard output that fell short
          open,       \* log_file_fd # -1
          closed,     \* others that were closed and are in the table still
          status      \* "boot", "set" (logger_initialize ran), "up" (main's
                      \* loop), "down" (logger_destroy ran), "broken"

vars == <<sel, text, fileText, out, file, logged, stalls, open, closed, status>>
-----------------------------------------------------------------------------
Line(n) == [k \in 1..LineLen |-> <<n, k>>]
Date    == [k \in 1..DateLen |-> <<0, k>>]

Ends(cell) == cell[2] = LineLen \/ cell \in Breaks

StartsLine(t, i) == i = 1 \/ Ends(t[i - 1])

\* prepend_datetime_to_lines: a date before what starts the text or follows the
\* end of a line.
Dated(t) ==
  FlattenSeq([i \in DOMAIN t |-> IF StartsLine(t, i) THEN Date \o <<t[i]>> ELSE <<t[i]>>])

\* The room for it is that of the text and of a date for every two bytes and two
\* more: lines of one byte need more than that.
Overruns(t) == Cardinality({i \in DOMAIN t : StartsLine(t, i)}) > Len(t) \div 2 + 2

Init ==
  /\ TableInit
  /\ text = <<>> /\ fileText = <<>> /\ out = <<>> /\ file = <<>>
  /\ logged = 0 /\ stalls = 0 /\ open = FALSE /\ closed = {} /\ status = "boot"

\* logger_initialize: what was logged before stays in the buffer, and nobody is
\* asked for it yet.  The file may not open.
Initialize ==
  /\ status = "boot" /\ status' = "set"
  /\ \/ /\ open' = TRUE
        /\ sel' = Registered(Registered(sel, LogFd, {}), FileFd, {})
     \/ /\ open' = FALSE
        /\ sel' = Registered(sel, LogFd, {})
  /\ UNCHANGED <<text, fileText, out, file, logged, stalls, closed>>

\* With a fault: the selector is not told.
LogSilent ==
  /\ status \in {"boot", "set", "up"} /\ logged < MaxLines
  /\ logged' = logged + 1
  /\ text' = text \o Line(logged + 1)
  /\ status' = IF status = "set" THEN "up" ELSE status
  /\ UNCHANGED <<sel, fileText, out, file, stalls, open, closed>>

\* log_to_stdout.  Before logger_initialize there is no selector to tell; after
\* it main logs, whatever the state of the accounts, before it starts to loop.
Log ==
  /\ status \in {"boot", "set", "up"} /\ logged < MaxLines
  /\ logged' = logged + 1
  /\ text' = text \o Line(logged + 1)
  /\ sel' = IF status = "boot" THEN sel ELSE InterestSet(sel, LogFd, {"W"})
  /\ status' = IF status = "set" THEN "up" ELSE status
  /\ UNCHANGED <<fileText, out, file, stalls, open, closed>>

\* pselect fails with EBADF: a descriptor of its sets is closed.  selector_select
\* calls no handler then, and main loops on.
Fails == closed \cap (sel.r \cup sel.w) # {}

\* The table has the descriptor in the set that pselect waits for, the kernel
\* can take data, and the item still asks for it.
Writable(fd) == status = "up" /\ ~Fails /\ fd \in sel.w /\ fd <= sel.maxFd

\* The first half of logger_handle_write: the whole text is copied to the
\* buffer of the file, at every call.
CopiedToFile(t) ==
  IF open THEN [text |-> fileText \o Dated(text), sel |-> InterestSet(t, FileFd, {"W"})]
          ELSE [text |-> fileText, sel |-> t]

\* With a fault: the text is not freed.
WriteAllAgain ==
  /\ Writable(LogFd)
  /\ LET c == CopiedToFile(sel) IN
     fileText' = c.text /\ sel' = InterestSet(c.sel, LogFd, {})
  /\ out' = out \o Dated(text)
  /\ UNCHANGED <<text, file, logged, stalls, open, closed, status>>

\* write takes everything.
WriteAll ==
  /\ Writable(LogFd)
  /\ LET c == CopiedToFile(sel) IN
     fileText' = c.text /\ sel' = InterestSet(c.sel, LogFd, {})
  /\ out' = out \o Dated(text) /\ text' = <<>>
  /\ UNCHANGED <<file, logged, stalls, open, closed, status>>

\* With a fault: what was written is counted off the text without its dates.
KeptByOffset(remain, written) == SubSeq(text, written + 1, Len(text))

\* What memmove leaves in the buffer: its last bytes, as many as there are left
\* of the dated text.
Kept(remain, written) == SubSeq(text, Len(text) - remain + 1, Len(text))

\* write takes a part.  If less than the dates was taken, more bytes are kept
\* than there are, and what follows is undefined.
WritePart ==
  /\ Writable(LogFd) /\ stalls < MaxStalls
  /\ stalls' = stalls + 1
  /\ LET c == CopiedToFile(sel) IN fileText' = c.text /\ sel' = c.sel
  /\ \E written \in 1..(Len(Dated(text)) - 1) :
       LET remain == Len(Dated(text)) - written IN
       /\ out' = out \o SubSeq(Dated(text), 1, written)
       /\ text' = IF remain > Len(text) THEN <<>> ELSE Kept(remain, written)
       /\ status' = IF remain > Len(text) THEN "broken" ELSE status
  /\ UNCHANGED <<file, logged, open, closed>>

\* write fails, with EAGAIN or another error: the text stays, and has been
\* copied to the buffer of the file all the same.
WriteNothing ==
  /\ Writable(LogFd) /\ stalls < MaxStalls
  /\ stalls' = stalls + 1
  /\ LET c == CopiedToFile(sel) IN fileText' = c.text /\ sel' = c.sel
  /\ UNCHANGED <<text, out, file, logged, open, closed, status>>

\* The dated text does not fit, and what lies behind it is overwritten: what
\* follows is undefined.  Where nothing is there, a write is one of the others.
Overrun ==
  /\ Writable(LogFd) /\ Overruns(text)
  /\ status' = "broken"
  /\ UNCHANGED <<sel, text, fileText, out, file, logged, stalls, open, closed>>

StdoutWrite == WriteAll \/ WritePart \/ WriteNothing \/ Overrun

\* With a fault: a partial write is taken for a complete one.
FileWriteOnce ==
  /\ Writable(FileFd)
  /\ \E written \in 1..Len(fileText) :
       /\ file' = file \o SubSeq(fileText, 1, written)
       /\ fileText' = SubSeq(fileText, written + 1, Len(fileText))
  /\ sel' = InterestSet(sel, FileFd, {})
  /\ UNCHANGED <<text, out, logged, stalls, open, closed, status>>

\* logger_file_handle_write.  A write that fails changes nothing.
FileWrite ==
  /\ Writable(FileFd)
  /\ \E written \in 1..Len(fileText) :
       /\ file' = file \o SubSeq(fileText, 1, written)
       /\ fileText' = SubSeq(fileText, written + 1, Len(fileText))
       /\ sel' = IF written = Len(fileText) THEN InterestSet(sel, FileFd, {}) ELSE sel
  /\ UNCHANGED <<text, out, logged, stalls, open, closed, status>>

\* The other descriptors: sockets, and numbers that are not descriptors.  One
\* that is registered was opened for that, also if its number is still in the
\* table; one may be closed and left there (request.c:520).
Others ==
  /\ status \in {"boot", "set", "up"}
  /\ \E fd \in Other :
       \/ \E i \in SUBSET Op : sel' = Registered(sel, fd, i) /\ closed' = closed \ {fd}
       \/ \E i \in SUBSET Op : sel' = InterestSet(sel, fd, i) /\ UNCHANGED closed
       \/ sel' = Unregistered(sel, fd) /\ closed' = closed \ {fd}
       \/ fd \in Fds /\ closed' = closed \cup {fd} /\ UNCHANGED sel
  /\ UNCHANGED <<text, fileText, out, file, logged, stalls, open, status>>

\* logger_destroy: the descriptors are closed and unregistered, and the handlers
\* for that free both buffers.
Destroy ==
  /\ status = "up" /\ status' = "down"
  /\ sel' = IF open THEN Unregistered(Unregistered(sel, LogFd), FileFd)
                    ELSE Unregistered(sel, LogFd)
  /\ text' = <<>> /\ fileText' = <<>>
  /\ UNCHANGED <<out, file, logged, stalls, open, closed>>

Next == Initialize \/ Log \/ StdoutWrite \/ FileWrite \/ Others \/ Destroy

Spec == Init /\ [][Next]_vars

\* As long as pselect does not fail, the loop calls the handlers of descriptors
\* that are reported again and again.
FairSpec == Spec /\ WF_vars(StdoutWrite) /\ WF_vars(FileWrite)
-----------------------------------------------------------------------------
Cell == (0..MaxLines) \X (1..(LineLen + DateLen))

TypeOK ==
  /\ TableTypeOK
  /\ text \in Seq(Cell) /\ fileText \in Seq(Cell)
  /\ out \in Seq(Cell) /\ file \in Seq(Cell)
  /\ logged \in 0..MaxLines /\ stalls \in 0..MaxStalls
  /\ open \in BOOLEAN /\ closed \subseteq Other
  /\ status \in {"boot", "set", "up", "down", "broken"}

Serving == status \in {"boot", "set", "up"}

Lines(from, to) == FlattenSeq([i \in 1..(to - from + 1) |-> Line(from + i - 1)])

\* As long as standard output takes whole texts, and none overruns its room, it
\* and the file get each entry once, in order, each line of it with its date, cut
\* or not in the writes to the file.
LogIsExact ==
  Serving /\ stalls = 0 =>
    /\ out \o Dated(text) = Dated(Lines(1, logged))
    /\ open => file \o fileText = out

Holds(s, b) == \E i \in 0..(Len(s) - Len(b)) : SubSeq(s, i + 1, i + Len(b)) = b

\* While the process is not broken, no byte of an entry is missing from standard
\* output, whatever that takes, and no entry from the file: what a short write
\* does to the buffer repeats bytes and loses none (logger.c:111-114).  A short
\* write may break the process, and a text of short lines (logger.c:44-66), but
\* nothing else does.
NothingMissing ==
  /\ Serving => \A n \in 1..logged :
       /\ \A k \in 1..LineLen : <<n, k>> \in Range(out) \cup Range(text)
       /\ open => Holds(text, Line(n)) \/ Holds(file \o fileText, Dated(Line(n)))
  /\ status = "broken" => stalls > 0 \/ Overruns(text)

\* What waits to be written is waited for, also what was logged before there was
\* a selector, once main loops; and no handler is called with nothing to write,
\* so that the tests for that are never true (logger.c:78, logger.c:142).
LoggerAwake ==
  status = "up" => /\ text # <<>> <=> LogFd \in sel.w
                   /\ fileText # <<>> <=> FileFd \in sel.w

\* An entry that is logged while the server serves gets to the file, with its
\* dates, or pselect fails: then it may stay in the buffers, since a descriptor
\* that is closed and registered keeps pselect from waiting for any other.
LogReachesFile ==
  \A n \in 1..MaxLines :
    (status = "up" /\ open /\ logged >= n)
      ~> (status # "up" \/ Fails \/ Holds(file, Dated(Line(n))))
=============================================================================
