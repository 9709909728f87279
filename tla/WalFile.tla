------------------------------- MODULE WalFile -------------------------------
(***************************************************************************)
(* zrt_wal_file.h: a log kept in a directory of files wal_<start>.wal.     *)
(* Each WalFileWriter starts a file of its own, named after the sequence   *)
(* number it expects to write first; what it writes waits in the buffer of *)
(* an ofstream and is lost when the process dies.  A WalFileReader of      *)
(* another process reads the same directory meanwhile.                     *)
(*                                                                         *)
(* A file is the sequence of the pieces written by single calls of write:  *)
(* the file header, then the header and the data of each entry.  libstdc++ *)
(* either buffers such a piece or, when it does not fit, writes the buffer *)
(* and the whole piece to the file, so a file always ends between pieces.  *)
(* The entry CRC, which neither class checks, and timestamps are left out. *)
(***************************************************************************)
EXTENDS Integers, Sequences, FiniteSets, SequencesExt

CONSTANTS FirstSeq,     \* the directory starts with the entries before it cut
          SyncInterval, \* sync_interval_
          Cutoffs,      \* arguments of TruncateBefore
          Afters,       \* values of after_seq readers use
          BatchSizes,   \* values of max_count readers use, 0 for no limit
          MaxAppends,   \* bound: calls of Append
          MaxSessions,  \* bound: WalFileWriters constructed
          MaxReads      \* bound: calls of ReadAfter

ASSUME ConstantsAssumption ==
    /\ FirstSeq \in Nat \ {0}
    /\ SyncInterval \in Nat \ {0}
    /\ Cutoffs \subseteq Nat
    /\ Afters \subseteq Nat
    /\ BatchSizes \subseteq Nat
    /\ MaxAppends \in Nat /\ MaxSessions \in Nat /\ MaxReads \in Nat

VARIABLES
    files,         \* the directory: start number in the name -> its pieces
    opened,        \* file_.is_open()
    current_file,  \* the number in current_file_
    current_seq, entry_count,
    scanning,      \* is Init looking at the directory?
    sleft,         \* the files it has still to visit
    max_seq,       \* Init: max_seq
    buffer,        \* pieces written to file_ that are not in the file yet
    tleft,         \* the files TruncateBefore has still to visit
    tseq,          \* its argument
    rpc,           \* where the reader is in ReadAfter
    rleft,         \* the files it has still to read, sorted by name
    rafter, rmax,  \* its arguments
    entries,       \* the entries it has collected
    uid,           \* history: calls of Append, each makes another entry
    durable,       \* history: the entries that have been in a file
    cutoff,        \* history: the largest argument of TruncateBefore
    headless,      \* history: a crash left a file without its header
    rmust,         \* history: what was in the files when ReadAfter began
    sessions, reads

scan == <<scanning, sleft, max_seq>>
writer == <<opened, current_file, current_seq, entry_count, buffer, scan>>
truncate == <<tleft, tseq>>
reader == <<rpc, rleft, rafter, rmax, entries, rmust, reads>>
vars == <<files, writer, truncate, reader,
          uid, durable, cutoff, headless, sessions>>

FileHeader(start) == [kind |-> "file", seq |-> start, uid |-> 0]
EntryHeader(s, u) == [kind |-> "entry", seq |-> s, uid |-> u]
EntryData(s, u) == [kind |-> "data", seq |-> s, uid |-> u]

\* Mutant: after_seq itself is returned again.
Found_Inclusive(pieces, after_seq) ==
    LET found[i \in 0 .. Len(pieces)] ==
            IF i = 0 THEN <<>>
            ELSE IF pieces[i].kind = "entry" /\ pieces[i].seq >= after_seq
                 THEN Append(found[i - 1], pieces[i])
                 ELSE found[i - 1]
    IN  found[Len(pieces)]

\* What the reading loop keeps of a file: the headers of the entries behind
\* after_seq, in order.  A last header whose data is missing is an entry like
\* the others.
Found(pieces, after_seq) ==
    LET found[i \in 0 .. Len(pieces)] ==
            IF i = 0 THEN <<>>
            ELSE IF pieces[i].kind = "entry" /\ pieces[i].seq > after_seq
                 THEN Append(found[i - 1], pieces[i])
                 ELSE found[i - 1]
    IN  found[Len(pieces)]

EntrySet(pieces) == {p \in ToSet(pieces) : p.kind = "entry"}

OnDisk(fs) == UNION {EntrySet(fs[f]) : f \in DOMAIN fs}

\* GetLastSeqInFile: of a file without entries it is the start number, and
\* of an empty file, where the header read leaves its defaults, it is 0.
GetLastSeqInFile(f) == IF files[f] = <<>> THEN 0 ELSE Last(files[f]).seq

Init ==
    /\ files = [f \in {FirstSeq - 1} \ {0} |->
                   <<FileHeader(f), EntryHeader(f, 0), EntryData(f, 0)>>]
    /\ opened = FALSE /\ current_file = 0
    /\ current_seq = 0 /\ entry_count = 0 /\ buffer = <<>>
    /\ scanning = FALSE /\ sleft = {} /\ max_seq = 0
    /\ tleft = {} /\ tseq = 0
    /\ rpc = "idle" /\ rleft = <<>> /\ rafter = 0 /\ rmax = 0
    /\ entries = <<>> /\ rmust = {} /\ reads = 0
    /\ uid = 0 /\ durable = OnDisk(files) /\ cutoff = FirstSeq - 1
    /\ headless = FALSE /\ sessions = 0

----------------------------------------------------------------------------
(* WalFileWriter *)

\* The constructor and Init, which visits the files in the order of a
\* directory_iterator: any.
ScanBegin ==
    /\ ~opened /\ ~scanning /\ tleft = {} /\ sessions < MaxSessions
    /\ scanning' = TRUE
    /\ sleft' = DOMAIN files
    /\ sessions' = sessions + 1
    /\ UNCHANGED <<files, opened, current_file, current_seq, entry_count,
                   buffer, max_seq, truncate, reader, uid, durable, cutoff,
                   headless>>

\* Mutant: the first of the two assignments stays in force, and the number
\* in the name counts as the last of the file.
ScanVisit_NameOnly(f) ==
    /\ f \in sleft
    /\ sleft' = sleft \ {f}
    /\ max_seq' = IF f > max_seq THEN f ELSE max_seq
    /\ UNCHANGED <<files, opened, current_file, current_seq, entry_count,
                   buffer, scanning, truncate, reader, uid, durable, cutoff,
                   headless, sessions>>

ScanVisit(f) ==
    /\ f \in sleft
    /\ sleft' = sleft \ {f}
    /\ max_seq' = IF f > max_seq THEN GetLastSeqInFile(f) ELSE max_seq
    /\ UNCHANGED <<files, opened, current_file, current_seq, entry_count,
                   buffer, scanning, truncate, reader, uid, durable, cutoff,
                   headless, sessions>>

\* CreateNewFile truncates a file of that name.  The header stays in the
\* buffer.
CreateNewFile ==
    LET start == current_seq' + 1
    IN  /\ current_file' = start
        /\ files' = [f \in DOMAIN files \cup {start} |->
                        IF f = start THEN <<>> ELSE files[f]]
        /\ buffer' = <<FileHeader(start)>>
        /\ opened' = TRUE
        /\ entry_count' = 0

\* The end of Init.
OpenWriter ==
    /\ scanning /\ sleft = {}
    /\ current_seq' = max_seq
    /\ CreateNewFile
    /\ scanning' = FALSE /\ max_seq' = 0
    /\ UNCHANGED <<sleft, truncate, reader, uid, durable, cutoff, headless,
                   sessions>>

\* The first n pieces of the buffer all go into the file.
WriteOut(pieces, n) ==
    /\ files' = [files EXCEPT ![current_file] =
                     @ \o SubSeq(pieces, 1, n)]
    /\ buffer' = SubSeq(pieces, n + 1, Len(pieces))
    /\ durable' = durable \cup EntrySet(SubSeq(pieces, 1, n))

\* Append: the header and the data are two writes, and either may overflow
\* the buffer; every sync_interval_ entries the file is flushed.
Append_(hasData) ==
    /\ opened /\ uid < MaxAppends
    /\ LET s == current_seq + 1
           pieces == Append(buffer, EntryHeader(s, uid + 1))
                       \o (IF hasData THEN <<EntryData(s, uid + 1)>> ELSE <<>>)
           flush == (entry_count + 1) % SyncInterval = 0
       IN \E n \in IF flush THEN {Len(pieces)}
                   ELSE {0, Len(buffer) + 1, Len(pieces)} :
             WriteOut(pieces, n)
    /\ current_seq' = current_seq + 1
    /\ entry_count' = entry_count + 1
    /\ uid' = uid + 1
    /\ UNCHANGED <<opened, current_file, scan, truncate, reader, cutoff,
                   headless, sessions>>

Sync ==
    /\ opened /\ buffer # <<>>
    /\ WriteOut(buffer, Len(buffer))
    /\ UNCHANGED <<opened, current_file, current_seq, entry_count, scan,
                   truncate, reader, uid, cutoff, headless, sessions>>

\* Mutant: the start number in the header is off by one.
UpdateFileHeader_StartOffByOne(pieces) ==
    <<FileHeader(current_seq - entry_count)>> \o Tail(pieces)

\* UpdateFileHeader writes a header over the one the file begins with.
UpdateFileHeader(pieces) ==
    <<FileHeader(current_seq - entry_count + 1)>> \o Tail(pieces)

\* Close: the seekp of UpdateFileHeader flushes the buffer first.
Close ==
    /\ opened
    /\ files' = [files EXCEPT ![current_file] = UpdateFileHeader(@ \o buffer)]
    /\ durable' = durable \cup EntrySet(buffer)
    /\ buffer' = <<>>
    /\ opened' = FALSE
    /\ UNCHANGED <<current_file, current_seq, entry_count, scan, truncate,
                   reader, uid, cutoff, headless, sessions>>

\* The process dies: what the buffer held is lost, a TruncateBefore stops.
Crash ==
    /\ opened \/ scanning
    /\ opened' = FALSE
    /\ scanning' = FALSE /\ sleft' = {} /\ max_seq' = 0
    /\ current_file' = 0 /\ current_seq' = 0 /\ entry_count' = 0
    /\ buffer' = <<>>
    /\ tleft' = {} /\ tseq' = 0
    /\ headless' = (headless \/ (opened /\ files[current_file] = <<>>))
    /\ UNCHANGED <<files, reader, uid, durable, cutoff, sessions>>

----------------------------------------------------------------------------
(* TruncateBefore, which takes no lock *)

TruncateBefore(s) ==
    /\ opened /\ tleft = {} /\ s > cutoff
    /\ tleft' = DOMAIN files
    /\ tseq' = s
    /\ cutoff' = s
    /\ UNCHANGED <<files, writer, reader, uid, durable, headless, sessions>>

\* Mutant: a file goes once its first entry is below the argument.
TruncateVisit_ByStart(f) ==
    /\ f \in tleft
    /\ tleft' = tleft \ {f}
    /\ files' = IF f < tseq /\ f # current_file
                THEN [g \in DOMAIN files \ {f} |-> files[g]]
                ELSE files
    /\ UNCHANGED <<writer, tseq, reader, uid, durable, cutoff, headless,
                   sessions>>

TruncateVisit(f) ==
    /\ f \in tleft
    /\ tleft' = tleft \ {f}
    /\ files' = IF GetLastSeqInFile(f) < tseq /\ f # current_file
                THEN [g \in DOMAIN files \ {f} |-> files[g]]
                ELSE files
    /\ UNCHANGED <<writer, tseq, reader, uid, durable, cutoff, headless,
                   sessions>>

----------------------------------------------------------------------------
(* WalFileReader::ReadAfter *)

digits[n \in Nat] ==
    IF n < 10 THEN <<n>> ELSE Append(digits[n \div 10], n % 10)

\* wal_<m>.wal is less than wal_<n>.wal as a string; the dot that ends a
\* number is less than a digit.
NameLess(m, n) ==
    LET a == digits[m]
        b == digits[n]
    IN  \/ Len(a) < Len(b) /\ SubSeq(b, 1, Len(a)) = a
        \/ \E i \in 1 .. Len(a) :
              /\ i <= Len(b) /\ a[i] < b[i]
              /\ \A j \in 1 .. i - 1 : a[j] = b[j]

Sorted(names) ==
    \A i, j \in DOMAIN names : i < j => NameLess(names[i], names[j])

ReadCall(after, max_count) ==
    /\ rpc = "idle" /\ reads < MaxReads
    /\ rpc' = "read"
    /\ \E names \in SetToSeqs(DOMAIN files) : Sorted(names) /\ rleft' = names
    /\ rafter' = after
    /\ rmax' = max_count
    /\ entries' = <<>>
    /\ rmust' = OnDisk(files)
    /\ reads' = reads + 1
    /\ UNCHANGED <<files, writer, truncate, uid, durable, cutoff, headless,
                   sessions>>

\* One file; it is skipped when TruncateBefore has removed it.
ReadFile ==
    /\ rpc = "read" /\ rleft # <<>>
    /\ LET f == Head(rleft)
           found == IF f \in DOMAIN files THEN Found(files[f], rafter) ELSE <<>>
           all == entries \o found
           full == rmax > 0 /\ Len(all) >= rmax
       IN /\ entries' = IF full THEN SubSeq(all, 1, rmax) ELSE all
          /\ rleft' = IF full THEN <<>> ELSE Tail(rleft)
    /\ UNCHANGED <<files, writer, truncate, rpc, rafter, rmax, rmust, reads,
                   uid, durable, cutoff, headless, sessions>>

\* The call has returned and the application has used the entries.
ReadReturn ==
    /\ rpc = "read" /\ rleft = <<>>
    /\ rpc' = "idle" /\ rafter' = 0 /\ rmax' = 0
    /\ entries' = <<>> /\ rmust' = {}
    /\ UNCHANGED <<files, writer, truncate, rleft, reads, uid, durable,
                   cutoff, headless, sessions>>

Next ==
    \/ ScanBegin \/ OpenWriter \/ Sync \/ Close \/ Crash
    \/ \E f \in sleft : ScanVisit(f)
    \/ \E hasData \in BOOLEAN : Append_(hasData)
    \/ \E s \in Cutoffs : TruncateBefore(s)
    \/ \E f \in tleft : TruncateVisit(f)
    \/ \E after \in Afters, max_count \in BatchSizes :
          ReadCall(after, max_count)
    \/ ReadFile \/ ReadReturn

Spec == Init /\ [][Next]_vars

----------------------------------------------------------------------------
(* Properties *)

\* Every session takes at most one number that it does not use.
Numbers == 1 .. FirstSeq + MaxAppends + MaxSessions
Piece == [kind : {"file", "entry", "data"}, seq : Numbers, uid : 0 .. uid]

\* Types of the variables.  In particular a file begins with its header, so
\* that none is left with entries no reader can reach, and the buffer that
\* Close and a crash must leave empty is empty while no file is open.
TypeOK ==
    /\ \A f \in DOMAIN files :
          /\ f \in Numbers
          /\ files[f] \in Seq(Piece)
          /\ files[f] # <<>> => files[f][1] = FileHeader(f)
    /\ opened \in BOOLEAN
    /\ current_file \in Numbers \cup {0}
    /\ opened => current_file \in DOMAIN files
    /\ current_seq \in Numbers \cup {0} /\ entry_count \in 0 .. MaxAppends
    /\ scanning \in BOOLEAN /\ sleft \subseteq DOMAIN files
    /\ max_seq \in Numbers \cup {0}
    /\ scanning => ~opened
    /\ buffer \in Seq(Piece)
    /\ ~opened => buffer = <<>>
    /\ tleft \subseteq Numbers /\ tseq \in Cutoffs \cup {0}
    /\ rpc \in {"idle", "read"} /\ rleft \in Seq(Numbers)
    /\ rafter \in Afters \cup {0} /\ rmax \in BatchSizes \cup {0}
    /\ entries \in Seq(Piece)

\* Two entries that have ever been readable never have the same number,
\* across restarts and crashes: Init (line 78) continues after the last
\* entry that survived, although it looks at each file only once and in any
\* order.  It is promised while no crash has left an empty file.
SeqsNotReused ==
    ~headless =>
        \A d, e \in durable : d.seq = e.seq => d = e

\* An entry that reached a file stays readable until TruncateBefore is asked
\* to drop it: no restart overwrites a file, and TruncateBefore (line 190),
\* which runs without the lock beside Append, drops no file with an entry at
\* or after its argument.
DurableKept ==
    ~headless =>
        \A d \in durable : d.seq >= cutoff => d \in OnDisk(files)

InOrder == \A i \in 2 .. Len(entries) : entries[i - 1].seq < entries[i].seq

\* ReadAfter leaves no entry out: what it returns is after rafter, and when
\* max_count did not end it, everything that was in the files is there.  As
\* long as all numbers have equally many digits it is in order, and a batch
\* cut by max_count holds the first entries, so that a reader that continues
\* after the last of them misses none.  Files are removed and appended to
\* meanwhile.
ReadAfterNoGap ==
    rpc = "read" /\ rleft = <<>> /\ ~headless =>
        LET full == rmax > 0 /\ Len(entries) = rmax
            wanted == {d \in rmust : d.seq > rafter /\ d.seq >= cutoff}
            got == ToSet(entries)
            sameDigits == \A d, e \in rmust \cup got :
                             Len(digits[d.seq]) = Len(digits[e.seq])
        IN  /\ \A e \in got : e.seq > rafter
            /\ ~full => wanted \subseteq got
            /\ sameDigits =>
                  /\ InOrder
                  /\ full => \A d \in wanted :
                                d.seq <= Last(entries).seq => d \in got

============================================================================
