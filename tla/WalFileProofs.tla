--------------------------- MODULE WalFileProofs ---------------------------
(***************************************************************************)
(* Proofs about WalFile for any directory the log starts with, any number  *)
(* of sessions, crashes, entries and calls, and any intervals.             *)
(***************************************************************************)
EXTENDS WalFile, SequenceTheorems, FiniteSetTheorems, WellFoundedInduction, TLAPS

P == [kind : {"file", "entry", "data"}, seq : Nat, uid : Nat]

----------------------------------------------------------------------------
(* Sequences of pieces *)

Rising(s) == \A i, j \in 1 .. Len(s) : i <= j => s[i].seq <= s[j].seq

Apart(s) ==
    \A i, j \in 1 .. Len(s) :
        i < j /\ s[i].kind = "entry" /\ s[j].kind = "entry" => s[i].seq < s[j].seq

\* The first entry has the number of the file.
Opening(s, f) == Len(s) >= 2 => s[2].kind = "entry" /\ s[2].seq = f

\* The file f with the pieces s, and the last number it stands for.
Good(s, f) ==
    Rising(s) /\ Apart(s) /\ Opening(s, f) /\ (s # <<>> => s[1] = FileHeader(f))

EndOf(s, f) == IF s = <<>> THEN f - 1 ELSE Last(s).seq

LEMMA EntryInSet ==
    ASSUME NEW s \in Seq(P), NEW e
    PROVE  e \in EntrySet(s) <=> e.kind = "entry" /\ \E i \in 1 .. Len(s) : e = s[i]
<1>1. DOMAIN s = 1 .. Len(s)
  OBVIOUS
<1>. QED
  BY <1>1 DEF EntrySet, ToSet

LEMMA EntriesArePieces ==
    ASSUME NEW s \in Seq(P)
    PROVE  EntrySet(s) \subseteq P
<1>1. \A i \in 1 .. Len(s) : s[i] \in P
  OBVIOUS
<1>. QED
  BY <1>1, EntryInSet

\* A file stands for its start at least, unless it is empty, and for all of
\* its pieces.
LEMMA EndBounds ==
    ASSUME NEW s \in Seq(P), NEW f \in Nat \ {0}, Good(s, f)
    PROVE  /\ EndOf(s, f) \in Nat /\ f - 1 <= EndOf(s, f)
           /\ s # <<>> => f <= EndOf(s, f)
           /\ \A i \in 1 .. Len(s) : s[i].seq <= EndOf(s, f)
<1>1. CASE s = <<>>
  BY <1>1 DEF EndOf
<1>2. CASE s # <<>>
  <2>1. Len(s) \in Nat /\ Len(s) >= 1 /\ \A i \in 1 .. Len(s) : s[i] \in P
    BY <1>2
  <2>2. EndOf(s, f) = s[Len(s)].seq
    BY <1>2 DEF EndOf, Last
  <2>3. \A i \in 1 .. Len(s) : s[i].seq \in Nat
    BY <2>1 DEF P
  <2>4. s[1].seq = f
    BY <1>2 DEF Good, FileHeader
  <2>5. \A i \in 1 .. Len(s) : s[i].seq <= s[Len(s)].seq
    BY <2>1 DEF Good, Rising
  <2>. QED
    BY <2>1, <2>2, <2>3, <2>4, <2>5
<1>. QED
  BY <1>1, <1>2

\* What is written out of a sequence of pieces and what is left make the
\* same whole after what was in the file before.
LEMMA SplitWhole ==
    ASSUME NEW a \in Seq(P), NEW t \in Seq(P), NEW n \in 0 .. Len(t)
    PROVE  LET b == SubSeq(t, 1, n)
               r == SubSeq(t, n + 1, Len(t))
           IN  /\ b \in Seq(P) /\ r \in Seq(P) /\ a \o b \in Seq(P)
               /\ (a \o b) \o r = a \o t
               /\ n = Len(t) => b = t
               /\ EntrySet(t) = EntrySet(b) \cup EntrySet(r)
               /\ EntrySet(a \o b) = EntrySet(a) \cup EntrySet(b)
               /\ \A i \in 1 .. Len(a \o b) :
                     i <= Len(a \o t) /\ (a \o b)[i] = (a \o t)[i]
<1> DEFINE b == SubSeq(t, 1, n)
           r == SubSeq(t, n + 1, Len(t))
<1>1. Len(t) \in Nat /\ Len(a) \in Nat /\ \A i \in 1 .. Len(t) : t[i] \in P
  OBVIOUS
<1>2. /\ b \in Seq(P) /\ Len(b) = n /\ \A i \in 1 .. n : b[i] = t[i]
  BY <1>1, SubSeqProperties
<1>3. /\ r \in Seq(P) /\ Len(r) = Len(t) - n
      /\ \A i \in 1 .. Len(t) - n : r[i] = t[n + i]
  <2>1. /\ r \in Seq(P) /\ Len(r) = IF n + 1 <= Len(t) THEN Len(t) - (n + 1) + 1 ELSE 0
        /\ \A i \in 1 .. Len(t) - (n + 1) + 1 : r[i] = t[(n + 1) + i - 1]
    <3>1. \A i \in n + 1 .. Len(t) : t[i] \in P
      BY <1>1
    <3>. QED
      BY <1>1, <3>1, SubSeqProperties
  <2>. QED
    BY <1>1, <2>1
<1>. HIDE DEF b, r
<1>4. b \o r = t
  <2>1. b \o r \in Seq(P) /\ Len(b \o r) = Len(t)
    BY <1>1, <1>2, <1>3
  <2>2. \A i \in 1 .. Len(t) : (b \o r)[i] = t[i]
    <3> TAKE i \in 1 .. Len(t)
    <3>1. (b \o r)[i] = IF i <= n THEN b[i] ELSE r[i - n]
      <4>1. /\ b \in Seq(P) /\ r \in Seq(P)
            /\ Len(b) = n /\ Len(b) + Len(r) = Len(t)
        BY <1>1, <1>2, <1>3
      <4>2. \A k \in 1 .. Len(b) + Len(r) :
               (b \o r)[k] = IF k <= Len(b) THEN b[k] ELSE r[k - Len(b)]
        BY <4>1, ConcatProperties
      <4>. QED
        BY <4>1, <4>2
    <3>2. CASE i <= n
      BY <1>1, <1>2, <3>1, <3>2
    <3>3. CASE i > n
      <4>1. i - n \in 1 .. Len(t) - n /\ n + (i - n) = i
        BY <1>1, <3>3
      <4>. QED
        BY <1>1, <1>3, <3>1, <3>3, <4>1
    <3>4. i <= n \/ i > n
      BY <1>1
    <3>. QED
      BY <3>2, <3>3, <3>4
  <2>. QED
    BY <2>1, <2>2, SeqEqual
<1>5. (a \o b) \o r = a \o t
  <2>1. b \in Seq(P) /\ r \in Seq(P)
    BY <1>2, <1>3
  <2>2. (a \o b) \o r = a \o (b \o r)
    BY <2>1, ConcatAssociative
  <2>. QED
    BY <1>4, <2>2
<1>6. n = Len(t) => b = t
  BY <1>2, SeqEqual
<1>7. a \o b \in Seq(P) /\ Len(a \o b) = Len(a) + n /\ Len(a \o t) = Len(a) + Len(t)
  BY <1>1, <1>2
<1>8. \A i \in 1 .. Len(a \o b) : i <= Len(a \o t) /\ (a \o b)[i] = (a \o t)[i]
  BY <1>1, <1>2, <1>7
<1>9. EntrySet(t) = EntrySet(b) \cup EntrySet(r)
  <2>1. \A e \in EntrySet(t) : e \in EntrySet(b) \/ e \in EntrySet(r)
    <3> TAKE e \in EntrySet(t)
    <3>1. PICK i \in 1 .. Len(t) : e = t[i] /\ e.kind = "entry"
      BY EntryInSet
    <3>2. CASE i <= n
      BY <1>2, <3>1, <3>2, EntryInSet
    <3>3. CASE i > n
      <4>1. i - n \in 1 .. Len(r) /\ r[i - n] = e
        BY <1>1, <1>3, <3>1, <3>3
      <4>. QED
        BY <1>3, <3>1, <4>1, EntryInSet
    <3>. QED
      BY <1>1, <3>2, <3>3
  <2>2. \A e \in EntrySet(b) : e \in EntrySet(t)
    <3> TAKE e \in EntrySet(b)
    <3>1. PICK i \in 1 .. n : e = b[i] /\ e.kind = "entry"
      BY <1>2, EntryInSet
    <3>. QED
      BY <1>1, <1>2, <3>1, EntryInSet
  <2>3. \A e \in EntrySet(r) : e \in EntrySet(t)
    <3> TAKE e \in EntrySet(r)
    <3>1. PICK i \in 1 .. Len(t) - n : e = r[i] /\ e.kind = "entry"
      BY <1>3, EntryInSet
    <3>2. n + i \in 1 .. Len(t) /\ t[n + i] = e
      BY <1>1, <1>3, <3>1
    <3>. QED
      BY <3>1, <3>2, EntryInSet
  <2>. QED
    BY <2>1, <2>2, <2>3
<1>10. PICK c \in Seq(P) : c = a \o b
  BY <1>7
<1>11. EntrySet(c) = EntrySet(a) \cup EntrySet(b)
  <2>1. /\ \A i \in 1 .. Len(a) : c[i] = a[i]
        /\ \A i \in 1 .. n : c[Len(a) + i] = b[i]
    BY <1>1, <1>2, <1>7, <1>10
  <2>2. \A e \in EntrySet(c) : e \in EntrySet(a) \/ e \in EntrySet(b)
    <3> TAKE e \in EntrySet(c)
    <3>1. PICK i \in 1 .. Len(c) : e = c[i] /\ e.kind = "entry"
      BY <1>7, <1>10, EntryInSet
    <3>2. CASE i <= Len(a)
      BY <1>1, <2>1, <3>1, <3>2, EntryInSet
    <3>3. CASE i > Len(a)
      <4>1. i - Len(a) \in 1 .. n /\ b[i - Len(a)] = e
        BY <1>1, <1>2, <1>7, <1>10, <3>1, <3>3
      <4>. QED
        BY <1>2, <3>1, <4>1, EntryInSet
    <3>. QED
      BY <1>1, <3>2, <3>3
  <2>3. \A e \in EntrySet(a) : e \in EntrySet(c)
    <3> TAKE e \in EntrySet(a)
    <3>1. PICK i \in 1 .. Len(a) : e = a[i] /\ e.kind = "entry"
      BY EntryInSet
    <3>2. i \in 1 .. Len(c) /\ c[i] = e
      BY <1>1, <1>7, <1>10, <2>1, <3>1
    <3>. QED
      BY <1>10, <3>1, <3>2, EntryInSet
  <2>4. \A e \in EntrySet(b) : e \in EntrySet(c)
    <3> TAKE e \in EntrySet(b)
    <3>1. PICK i \in 1 .. n : e = b[i] /\ e.kind = "entry"
      BY <1>2, EntryInSet
    <3>2. Len(a) + i \in 1 .. Len(c) /\ c[Len(a) + i] = e
      BY <1>1, <1>7, <1>10, <2>1, <3>1
    <3>. QED
      BY <1>7, <1>10, <3>1, <3>2, EntryInSet
  <2>. QED
    BY <2>2, <2>3, <2>4
<1>. QED
  BY <1>2, <1>3, <1>5, <1>6, <1>7, <1>8, <1>9, <1>10, <1>11 DEF b, r

\* Entries in what is written out come before those in what is left.
LEMMA PartsApart ==
    ASSUME NEW a \in Seq(P), NEW t \in Seq(P), NEW n \in 0 .. Len(t), Apart(a \o t)
    PROVE  LET b == SubSeq(t, 1, n)
               r == SubSeq(t, n + 1, Len(t))
           IN  /\ \A d \in EntrySet(b), e \in EntrySet(r) : d.seq < e.seq
               /\ \A d, e \in EntrySet(b) : d.seq = e.seq => d = e
<1> DEFINE b == SubSeq(t, 1, n)
           r == SubSeq(t, n + 1, Len(t))
<1>1. Len(t) \in Nat /\ Len(a) \in Nat /\ \A i \in 1 .. Len(t) : t[i] \in P
  OBVIOUS
<1>2. /\ b \in Seq(P) /\ Len(b) = n /\ \A i \in 1 .. n : b[i] = t[i]
  BY <1>1, SubSeqProperties
<1>3. /\ r \in Seq(P) /\ Len(r) = Len(t) - n
      /\ \A i \in 1 .. Len(t) - n : r[i] = t[n + i]
  <2>1. /\ r \in Seq(P) /\ Len(r) = IF n + 1 <= Len(t) THEN Len(t) - (n + 1) + 1 ELSE 0
        /\ \A i \in 1 .. Len(t) - (n + 1) + 1 : r[i] = t[(n + 1) + i - 1]
    <3>1. \A i \in n + 1 .. Len(t) : t[i] \in P
      BY <1>1
    <3>. QED
      BY <1>1, <3>1, SubSeqProperties
  <2>. QED
    BY <1>1, <2>1
<1>. HIDE DEF b, r
<1>4. \A i, j \in 1 .. Len(t) :
        i < j /\ t[i].kind = "entry" /\ t[j].kind = "entry" => t[i].seq < t[j].seq
  <2> SUFFICES ASSUME NEW i \in 1 .. Len(t), NEW j \in 1 .. Len(t),
                      i < j, t[i].kind = "entry", t[j].kind = "entry"
               PROVE  t[i].seq < t[j].seq
    OBVIOUS
  <2>1. PICK w : w = a \o t
    OBVIOUS
  <2>2. /\ w[Len(a) + i] = t[i] /\ w[Len(a) + j] = t[j]
        /\ Len(a) + i \in 1 .. Len(w) /\ Len(a) + j \in 1 .. Len(w) /\ Len(a) + i < Len(a) + j
    BY <1>1, <2>1
  <2>. QED
    BY <2>1, <2>2 DEF Apart
<1>5. ASSUME NEW d \in EntrySet(b), NEW e \in EntrySet(r)
      PROVE  d.seq < e.seq
  <2>1. PICK i \in 1 .. n : d = b[i] /\ d.kind = "entry"
    BY <1>2, EntryInSet
  <2>2. PICK j \in 1 .. Len(t) - n : e = r[j] /\ e.kind = "entry"
    BY <1>3, EntryInSet
  <2>3. i \in 1 .. Len(t) /\ n + j \in 1 .. Len(t) /\ i < n + j
    BY <1>1, <2>1, <2>2
  <2>. QED
    BY <1>2, <1>3, <1>4, <2>1, <2>2, <2>3
<1>6. ASSUME NEW d \in EntrySet(b), NEW e \in EntrySet(b), d.seq = e.seq
      PROVE  d = e
  <2>1. PICK i \in 1 .. n : d = b[i] /\ d.kind = "entry"
    BY <1>2, EntryInSet
  <2>2. PICK j \in 1 .. n : e = b[j] /\ e.kind = "entry"
    BY <1>2, EntryInSet
  <2>3. i \in 1 .. Len(t) /\ j \in 1 .. Len(t) /\ d = t[i] /\ e = t[j]
    BY <1>1, <1>2, <2>1, <2>2
  <2>4. t[i].seq \in Nat /\ t[j].seq \in Nat
    BY <1>1, <2>3 DEF P
  <2>5. ~(i < j) /\ ~(j < i)
    BY <1>4, <1>6, <2>1, <2>2, <2>3, <2>4
  <2>. QED
    BY <2>3, <2>5
<1>. QED
  BY <1>5, <1>6 DEF b, r

----------------------------------------------------------------------------
(* The invariant. Every file stands for an interval of numbers that ends   *)
(* before the next file begins, and the one being written is the newest.   *)
(* While a file is open, the pieces in it and in the buffer are what Close *)
(* would leave: a header and entries in increasing order. The scan of Init *)
(* knows the end of the newest file it has visited, and so of all of them. *)
(* A crash before the first flush leaves a file that stands for nothing    *)
(* (headless), and with it the promises end.                               *)

End(f) == EndOf(files[f], f)

Draft(w, f, c) ==
    /\ w # <<>> /\ w[1] = FileHeader(f)
    /\ Rising(w) /\ Apart(w) /\ Opening(w, f)
    /\ Len(w) = 1 => c + 1 = f
    /\ \A i \in 2 .. Len(w) : w[i].seq <= c

Types ==
    /\ files \in [DOMAIN files -> Seq(P)] /\ DOMAIN files \subseteq Nat \ {0}
    /\ buffer \in Seq(P) /\ durable \subseteq P
    /\ current_file \in Nat /\ current_seq \in Nat /\ entry_count \in Nat
    /\ max_seq \in Nat /\ uid \in Nat /\ cutoff \in Nat /\ tseq \in Nat
    /\ opened \in BOOLEAN /\ scanning \in BOOLEAN
    /\ tleft \subseteq DOMAIN files

Filed ==
    /\ \A f \in DOMAIN files :
          /\ Good(files[f], f)
          /\ files[f] = <<>> => opened /\ f = current_file
    /\ \A f, g \in DOMAIN files : f < g => End(f) < g

Newest ==
    /\ opened \/ tleft # {} =>
          /\ current_file \in DOMAIN files
          /\ \A f \in DOMAIN files : f <= current_file
    /\ tleft # {} => tseq = cutoff /\ ~scanning

Writing ==
    opened =>
        /\ Draft(files[current_file] \o buffer, current_file, current_seq)
        /\ current_seq + 1 = current_file + entry_count
        /\ \A d \in durable :
              d.seq <= current_seq /\ \A e \in EntrySet(buffer) : d.seq < e.seq
        /\ ~scanning

Scanned ==
    /\ scanning =>
          /\ sleft \subseteq DOMAIN files
          /\ \A f \in DOMAIN files \ sleft : End(f) <= max_seq
          /\ max_seq = 0 \/ \E f \in DOMAIN files \ sleft : max_seq = End(f)
    /\ ~scanning => max_seq = 0 /\ sleft = {}

Remembered ==
    /\ \A d \in durable : \E f \in DOMAIN files : d.seq <= End(f)
    /\ \A d, e \in durable : d.seq = e.seq => d = e
    /\ \A d \in durable : d.seq >= cutoff => d \in OnDisk(files)

Inv == Types /\ Filed /\ Newest /\ Writing /\ Scanned /\ Remembered

LogInv == ~headless => Inv

LEMMA OnDiskDef ==
    ASSUME NEW fs, NEW d
    PROVE  d \in OnDisk(fs) <=> \E f \in DOMAIN fs : d \in EntrySet(fs[f])
  BY DEF OnDisk

\* The newest file gets more pieces, and no other file changes.
Grown ==
    /\ DOMAIN files' = DOMAIN files
    /\ \A g \in DOMAIN files :
          /\ EntrySet(files[g]) \subseteq EntrySet(files'[g])
          /\ g # current_file => files'[g] = files[g]

\* Writing out the first n of the pieces t, which with what the file holds
\* make a draft.
LEMMA WriteKeeps ==
    ASSUME Types, Filed, Newest, Remembered, opened,
           NEW t \in Seq(P), NEW n \in 0 .. Len(t), NEW c \in Nat,
           files' = [files EXCEPT ![current_file] = files[current_file] \o SubSeq(t, 1, n)],
           durable' = durable \cup EntrySet(SubSeq(t, 1, n)),
           buffer' = SubSeq(t, n + 1, Len(t)),
           current_file' = current_file, cutoff' = cutoff,
           opened' \/ n = Len(t),
           Draft(files[current_file] \o t, current_file, c),
           \A d \in durable : d.seq <= c /\ \A e \in EntrySet(t) : d.seq < e.seq
    PROVE  /\ Filed' /\ Remembered' /\ Grown
           /\ DOMAIN files' = DOMAIN files /\ files' \in [DOMAIN files -> Seq(P)]
           /\ buffer' \in Seq(P) /\ durable' \subseteq P
           /\ files'[current_file] \o buffer' = files[current_file] \o t
           /\ \A d \in durable' :
                 d.seq <= c /\ \A e \in EntrySet(buffer') : d.seq < e.seq
<1>1. PICK f \in Nat \ {0} : f = current_file /\ f \in DOMAIN files /\ \A g \in DOMAIN files : g <= f
  BY DEF Newest, Types
<1>2. PICK a \in Seq(P) : a = files[f]
  BY <1>1 DEF Types
<1> DEFINE b == SubSeq(t, 1, n)
           r == SubSeq(t, n + 1, Len(t))
<1>4. /\ b \in Seq(P) /\ r \in Seq(P) /\ a \o b \in Seq(P)
      /\ (a \o b) \o r = a \o t
      /\ n = Len(t) => b = t
      /\ EntrySet(t) = EntrySet(b) \cup EntrySet(r)
      /\ EntrySet(a \o b) = EntrySet(a) \cup EntrySet(b)
      /\ \A i \in 1 .. Len(a \o b) : i <= Len(a \o t) /\ (a \o b)[i] = (a \o t)[i]
  BY SplitWhole
<1>5. PICK w \in Seq(P) : w = a \o t
  BY ConcatProperties
<1>6. PICK s \in Seq(P) : s = a \o b
  BY <1>4
<1>7. Draft(w, f, c)
  BY <1>1, <1>2, <1>5
<1>8. /\ \A d \in EntrySet(b), e \in EntrySet(r) : d.seq < e.seq
      /\ \A d, e \in EntrySet(b) : d.seq = e.seq => d = e
  BY <1>5, <1>7, PartsApart DEF Draft
<1>9. \A i \in 1 .. Len(s) : i \in 1 .. Len(w) /\ s[i] = w[i]
  BY <1>4, <1>5, <1>6
<1>10. Good(s, f)
  <2>1. Rising(s)
    BY <1>7, <1>9 DEF Draft, Rising
  <2>2. s # <<>> => s[1] = FileHeader(f)
    <3>1. s # <<>> => 1 \in 1 .. Len(s)
      OBVIOUS
    <3>. QED
      BY <1>7, <1>9, <3>1 DEF Draft
  <2>3. Apart(s)
    BY <1>7, <1>9 DEF Draft, Apart
  <2>4. Opening(s, f)
    <3>1. ASSUME Len(s) >= 2
          PROVE  2 \in 1 .. Len(s) /\ Len(w) >= 2
      <4>1. Len(s) \in Nat /\ Len(w) \in Nat
        OBVIOUS
      <4>. QED
        BY <1>9, <3>1, <4>1
    <3>. QED
      BY <1>7, <1>9, <3>1 DEF Draft, Opening
  <2>. QED
    BY <2>1, <2>2, <2>3, <2>4 DEF Good
<1>11. files' = [files EXCEPT ![f] = s] /\ durable' = durable \cup EntrySet(b) /\ buffer' = r
  BY <1>1, <1>2, <1>6
<1>. HIDE DEF b, r
<1>12. /\ DOMAIN files' = DOMAIN files /\ files'[f] = s
       /\ \A g \in DOMAIN files \ {f} : files'[g] = files[g]
  BY <1>1, <1>11 DEF Types
<1>13. files' \in [DOMAIN files -> Seq(P)]
  BY <1>6, <1>11 DEF Types
<1>14. EndOf(a, f) <= EndOf(s, f)
  <2>1. Good(a, f)
    BY <1>1, <1>2 DEF Filed
  <2>2. /\ f - 1 <= EndOf(s, f) /\ EndOf(s, f) \in Nat
        /\ \A i \in 1 .. Len(s) : s[i].seq <= EndOf(s, f)
    BY <1>10, EndBounds
  <2>3. CASE a = <<>>
    BY <2>2, <2>3 DEF EndOf
  <2>4. CASE a # <<>>
    <3>1. Len(a) \in 1 .. Len(s) /\ s[Len(a)] = a[Len(a)]
      BY <1>4, <1>6, <2>4
    <3>2. EndOf(a, f) = a[Len(a)].seq
      BY <2>4 DEF EndOf, Last
    <3>. QED
      BY <2>2, <3>1, <3>2
  <2>. QED
    BY <2>3, <2>4
<1>15. \A d \in EntrySet(b) : d.seq <= EndOf(s, f)
  <2> TAKE d \in EntrySet(b)
  <2>1. d \in EntrySet(s)
    BY <1>4, <1>6
  <2>2. PICK i \in 1 .. Len(s) : d = s[i]
    BY <2>1, EntryInSet
  <2>. QED
    BY <1>10, <2>2, EndBounds
<1>16. \A g \in DOMAIN files : End(g)' = IF g = f THEN EndOf(s, f) ELSE End(g)
  BY <1>12 DEF End
<1>17. End(f) = EndOf(a, f)
  BY <1>2 DEF End
<1>18. Filed'
  <2>1. s = <<>> => opened'
    <3>1. n = Len(t) => s = w
      BY <1>4, <1>5, <1>6
    <3>. QED
      BY <1>7, <3>1 DEF Draft
  <2>2. \A g \in DOMAIN files : /\ Good(files'[g], g)
                                /\ files'[g] = <<>> => opened' /\ g = f
    BY <1>1, <1>10, <1>12, <2>1 DEF Filed
  <2>3. ASSUME NEW g \in DOMAIN files, NEW h \in DOMAIN files, g < h
        PROVE  End(g)' < h
    <3>1. g # f
      <4>1. g \in Nat /\ h \in Nat /\ h <= f
        BY <1>1 DEF Types
      <4>. QED
        BY <2>3, <4>1
    <3>. QED
      BY <1>16, <2>3, <3>1 DEF Filed
  <2>4. \A g, h \in DOMAIN files' : g < h => End(g)' < h
    BY <1>12, <2>3
  <2>. QED
    BY <1>1, <1>12, <2>2, <2>4 DEF Filed
<1>19. Remembered'
  <2>1. ASSUME NEW d \in durable'
        PROVE  \E g \in DOMAIN files' : d.seq <= End(g)'
    <3>1. CASE d \in durable
      <4>1. PICK g \in DOMAIN files : d.seq <= End(g)
        BY <3>1 DEF Remembered
      <4>2. CASE g = f
        <5>1. d.seq \in Nat /\ EndOf(a, f) \in Nat /\ EndOf(s, f) \in Nat
          BY <1>1, <1>2, <1>10, <3>1, EndBounds DEF Types, Filed, P
        <5>2. d.seq <= EndOf(s, f)
          BY <1>14, <1>17, <4>1, <4>2, <5>1
        <5>. QED
          BY <1>1, <1>12, <1>16, <5>2
      <4>3. CASE g # f
        BY <1>12, <1>16, <4>1, <4>3
      <4>. QED
        BY <4>2, <4>3
    <3>2. CASE d \in EntrySet(b)
      BY <1>1, <1>12, <1>15, <1>16, <3>2
    <3>. QED
      BY <1>11, <3>1, <3>2
  <2>2. ASSUME NEW d \in durable', NEW e \in durable', d.seq = e.seq
        PROVE  d = e
    <3>1. \A x \in durable, y \in EntrySet(b) : x.seq # y.seq
      <4>1. \A x \in durable, y \in EntrySet(b) : x.seq < y.seq /\ x.seq \in Nat
        BY <1>4 DEF Types, P
      <4>. QED
        BY <4>1
    <3>. QED
      BY <1>8, <1>11, <2>2, <3>1 DEF Remembered
  <2>3. ASSUME NEW d \in durable', d.seq >= cutoff'
        PROVE  d \in OnDisk(files')
    <3>1. CASE d \in durable
      <4>1. PICK g \in DOMAIN files : d \in EntrySet(files[g])
        BY <2>3, <3>1, OnDiskDef DEF Remembered
      <4>2. d \in EntrySet(files'[g])
        BY <1>2, <1>4, <1>6, <1>12, <4>1
      <4>. QED
        BY <1>12, <4>2, OnDiskDef
    <3>2. CASE d \in EntrySet(b)
      <4>1. d \in EntrySet(files'[f])
        BY <1>4, <1>6, <1>12, <3>2
      <4>. QED
        BY <1>1, <1>12, <4>1, OnDiskDef
    <3>. QED
      BY <1>11, <3>1, <3>2
  <2>. QED
    BY <2>1, <2>2, <2>3 DEF Remembered
<1>20. EntrySet(b) \subseteq P
  <2>1. b \in Seq(P)
    BY <1>4
  <2>. QED
    BY <2>1, EntriesArePieces
<1>21. \A d \in EntrySet(b) : d.seq <= c
  <2> TAKE d \in EntrySet(b)
  <2>1. d \in EntrySet(s)
    BY <1>4, <1>6
  <2>2. PICK i \in 1 .. Len(w) : d = w[i] /\ d.kind = "entry"
    <3>1. PICK j \in 1 .. Len(s) : d = s[j] /\ d.kind = "entry"
      BY <2>1, EntryInSet
    <3>. QED
      BY <1>9, <3>1
  <2>3. i # 1
    BY <1>7, <2>2 DEF Draft, FileHeader
  <2>4. i \in 2 .. Len(w)
    BY <2>2, <2>3
  <2>. QED
    BY <1>7, <2>2, <2>4 DEF Draft
<1>22. \A d \in durable' : d.seq <= c /\ \A e \in EntrySet(buffer') : d.seq < e.seq
  BY <1>4, <1>8, <1>11, <1>21
<1>23. files'[current_file] \o buffer' = files[current_file] \o t
  BY <1>1, <1>2, <1>4, <1>6, <1>11, <1>12
<1>24. buffer' \in Seq(P)
  <2>1. r \in Seq(P)
    BY <1>4
  <2>2. buffer' = r
    BY <1>11
  <2>. QED
    BY <2>1, <2>2
<1>25. durable' \subseteq P
  <2>1. durable \subseteq P
    BY DEF Types
  <2>. QED
    BY <1>11, <1>20, <2>1
<1>26. Grown
  <2>1. EntrySet(files[f]) \subseteq EntrySet(files'[f])
    BY <1>2, <1>4, <1>6, <1>12
  <2>. QED
    BY <1>1, <1>12, <2>1 DEF Grown
<1>. QED
  BY <1>12, <1>13, <1>18, <1>19, <1>22, <1>23, <1>24, <1>25, <1>26

\* The directory the log starts with holds no file, or one with an entry.
LEMMA InitLog == Init => Inv
<1> SUFFICES ASSUME Init
             PROVE  Inv
  OBVIOUS
<1>. USE DEF Init
<1>1. PICK k \in Nat : k = FirstSeq - 1
  BY ConstantsAssumption
<1>2. PICK s : s = <<FileHeader(k), EntryHeader(k, 0), EntryData(k, 0)>>
  OBVIOUS
<1>3. /\ s \in Seq(P) /\ s # <<>> /\ Len(s) = 3
      /\ s[1] = FileHeader(k) /\ s[2] = EntryHeader(k, 0) /\ s[3] = EntryData(k, 0)
  <2>1. {FileHeader(k), EntryHeader(k, 0), EntryData(k, 0)} \subseteq P
    BY DEF P, FileHeader, EntryHeader, EntryData
  <2>. QED
    BY <1>2, <2>1
<1>4. DOMAIN files = {k} \ {0} /\ \A f \in DOMAIN files : f = k /\ files[f] = s
  BY <1>1, <1>2
<1>5. Good(s, k)
  <2>1. \A i \in 1 .. Len(s) : s[i].seq = k
    <3>1. s[1].seq = k /\ s[2].seq = k /\ s[3].seq = k
      BY <1>3 DEF FileHeader, EntryHeader, EntryData
    <3>. QED
      BY <1>3, <3>1
  <2>2. Rising(s)
    BY <1>3, <2>1 DEF Rising
  <2>3. Apart(s)
    <3>1. s[1].kind # "entry" /\ s[3].kind # "entry"
      BY <1>3 DEF FileHeader, EntryData
    <3>2. \A i \in 1 .. Len(s) : i \in {1, 2, 3}
      BY <1>3
    <3>. QED
      BY <3>1, <3>2 DEF Apart
  <2>4. Opening(s, k)
    <3>1. EntryHeader(k, 0).kind = "entry" /\ EntryHeader(k, 0).seq = k
      BY DEF EntryHeader
    <3>. QED
      BY <1>3, <3>1 DEF Opening
  <2>. QED
    BY <1>3, <2>2, <2>3, <2>4 DEF Good
<1>6. files \in [DOMAIN files -> Seq(P)]
  BY <1>3, <1>4
<1>7. EntrySet(s) \subseteq P
  BY <1>3, EntriesArePieces
<1>8. \A d \in durable : k # 0 /\ d \in EntrySet(s)
  BY <1>4, OnDiskDef
<1>9. Types
  <2>1. durable \subseteq P
    BY <1>7, <1>8
  <2>2. buffer \in Seq(P)
    OBVIOUS
  <2>3. DOMAIN files \subseteq Nat \ {0}
    BY <1>4
  <2>4. cutoff \in Nat
    BY <1>1
  <2>. QED
    BY <1>6, <2>1, <2>2, <2>3, <2>4 DEF Types
<1>10. Filed
  <2>1. \A f \in DOMAIN files : Good(files[f], f) /\ files[f] # <<>>
    BY <1>3, <1>4, <1>5
  <2>2. \A f, g \in DOMAIN files : ~(f < g)
    BY <1>4
  <2>. QED
    BY <2>1, <2>2 DEF Filed
<1>11. Remembered
  <2>1. ASSUME NEW d \in durable
        PROVE  /\ \E f \in DOMAIN files : d.seq <= End(f)
               /\ d = EntryHeader(k, 0)
    <3>1. PICK i \in 1 .. Len(s) : d = s[i] /\ d.kind = "entry"
      BY <1>3, <1>8, EntryInSet
    <3>2. i \in {1, 2, 3}
      BY <1>3, <3>1
    <3>3. d = EntryHeader(k, 0)
      BY <1>3, <3>1, <3>2 DEF FileHeader, EntryData
    <3>4. k \in DOMAIN files /\ End(k) = EndOf(s, k)
      BY <1>4, <1>8 DEF End
    <3>5. d.seq <= EndOf(s, k)
      BY <1>3, <1>5, <1>8, <3>1, EndBounds
    <3>. QED
      BY <3>3, <3>4, <3>5
  <2>. QED
    BY <2>1 DEF Remembered
<1>. QED
  BY <1>9, <1>10, <1>11 DEF Inv, Newest, Writing, Scanned

----------------------------------------------------------------------------
(* The steps of the writer *)

LEMMA ScanBeginKeeps ==
    ASSUME Inv, ScanBegin
    PROVE  Inv'
<1>1. /\ ~opened /\ ~scanning /\ scanning' /\ sleft' = DOMAIN files /\ tleft = {}
      /\ UNCHANGED <<files, opened, current_file, current_seq, entry_count, buffer, max_seq,
                     tleft, tseq, uid, durable, cutoff>>
  BY DEF ScanBegin, truncate
<1>2. Types'
  BY <1>1 DEF ScanBegin, Inv, Types
<1>3. Filed' /\ Newest' /\ Writing' /\ Remembered'
  BY <1>1 DEF Inv, Filed, Newest, Writing, Remembered, End
<1>4. max_seq = 0
  BY <1>1 DEF Inv, Scanned
<1>5. Scanned'
  BY <1>1, <1>4 DEF Scanned
<1>. QED
  BY <1>2, <1>3, <1>5 DEF Inv

\* The scan may visit the files in any order: one that begins above max_seq
\* ends above everything visited before, and any other one ends below.
LEMMA ScanVisitKeeps ==
    ASSUME Inv, NEW f \in sleft, ScanVisit(f)
    PROVE  Inv'
<1>1. /\ sleft' = sleft \ {f}
      /\ max_seq' = IF f > max_seq THEN GetLastSeqInFile(f) ELSE max_seq
      /\ UNCHANGED <<files, opened, current_file, current_seq, entry_count, buffer, scanning,
                     tleft, tseq, uid, durable, cutoff>>
  BY DEF ScanVisit, truncate
<1>2. scanning /\ ~opened /\ f \in DOMAIN files /\ sleft \subseteq DOMAIN files
  BY DEF Inv, Scanned, Writing
<1>3. \A g \in DOMAIN files : g \in Nat \ {0} /\ files[g] \in Seq(P) /\ files[g] # <<>> /\ Good(files[g], g)
  BY <1>2 DEF Inv, Types, Filed
<1>4. \A g \in DOMAIN files : End(g) \in Nat /\ g <= End(g)
  BY <1>3, EndBounds DEF End
<1>5. GetLastSeqInFile(f) = End(f)
  BY <1>2, <1>3 DEF GetLastSeqInFile, End, EndOf
<1>6. max_seq \in Nat
  BY DEF Inv, Types
<1>7. CASE f > max_seq
  <2>1. max_seq' = End(f)
    BY <1>1, <1>5, <1>7
  <2>2. \A g \in DOMAIN files \ sleft : End(g) <= End(f)
    <3>1. \A g \in DOMAIN files \ sleft : End(g) <= max_seq
      BY <1>2 DEF Inv, Scanned
    <3>2. f \in Nat /\ f <= End(f) /\ End(f) \in Nat
      BY <1>2, <1>3, <1>4
    <3>. QED
      BY <1>4, <1>6, <1>7, <3>1, <3>2
  <2>3. Scanned'
    BY <1>1, <1>2, <1>4, <2>1, <2>2 DEF Scanned, End
  <2>4. Types'
    BY <1>1, <1>2, <1>4, <2>1 DEF Inv, Types
  <2>5. Filed' /\ Newest' /\ Writing' /\ Remembered'
    BY <1>1 DEF Inv, Filed, Newest, Writing, Remembered, End
  <2>. QED
    BY <2>3, <2>4, <2>5 DEF Inv
<1>8. CASE ~(f > max_seq)
  <2>1. max_seq' = max_seq
    BY <1>1, <1>8
  <2>2. End(f) <= max_seq
    <3>1. max_seq # 0
      BY <1>2, <1>3, <1>6, <1>8
    <3>2. PICK g \in DOMAIN files \ sleft : max_seq = End(g)
      BY <1>2, <3>1 DEF Inv, Scanned
    <3>3. ~(g < f)
      BY <1>2, <1>3, <1>4, <1>8, <3>2 DEF Inv, Filed
    <3>4. f < g
      BY <1>2, <1>3, <3>2, <3>3
    <3>5. End(f) < g
      BY <1>2, <3>4 DEF Inv, Filed
    <3>. QED
      BY <1>2, <1>3, <1>4, <3>2, <3>5
  <2>3. Scanned'
    BY <1>1, <1>2, <2>1, <2>2 DEF Inv, Scanned, End
  <2>4. Types'
    BY <1>1, <2>1 DEF Inv, Types
  <2>5. Filed' /\ Newest' /\ Writing' /\ Remembered'
    BY <1>1 DEF Inv, Filed, Newest, Writing, Remembered, End
  <2>. QED
    BY <2>3, <2>4, <2>5 DEF Inv
<1>. QED
  BY <1>7, <1>8

\* The file a session starts is a new one, after all that there are.
LEMMA OpenWriterKeeps ==
    ASSUME Inv, OpenWriter
    PROVE  Inv'
<1>1. PICK c \in Nat : c = max_seq
  BY DEF Inv, Types
<1>2. /\ scanning /\ sleft = {} /\ current_seq' = c /\ current_file' = c + 1
      /\ buffer' = <<FileHeader(c + 1)>> /\ opened' = TRUE /\ entry_count' = 0
      /\ scanning' = FALSE /\ max_seq' = 0 /\ sleft' = {}
      /\ UNCHANGED <<tleft, tseq, uid, durable, cutoff>>
      /\ files' = [f \in DOMAIN files \cup {c + 1} |-> IF f = c + 1 THEN <<>> ELSE files[f]]
  BY <1>1 DEF OpenWriter, CreateNewFile, truncate
<1>3. tleft = {} /\ ~opened
  BY <1>2 DEF Inv, Newest, Writing
<1>4. \A g \in DOMAIN files : g \in Nat \ {0} /\ files[g] \in Seq(P) /\ files[g] # <<>> /\ Good(files[g], g)
  BY <1>3 DEF Inv, Types, Filed
<1>5. \A g \in DOMAIN files : End(g) \in Nat /\ g <= End(g) /\ End(g) <= c
  BY <1>1, <1>2, <1>4, EndBounds DEF End, Inv, Scanned
<1>6. \A g \in DOMAIN files : g < c + 1 /\ End(g) < c + 1
  BY <1>4, <1>5
<1>7. /\ DOMAIN files' = DOMAIN files \cup {c + 1} /\ files'[c + 1] = <<>>
      /\ \A g \in DOMAIN files : files'[g] = files[g]
  BY <1>2, <1>6
<1>8. /\ End(c + 1)' = c
      /\ \A g \in DOMAIN files : End(g)' = End(g)
  BY <1>7 DEF End, EndOf
<1>9. buffer' \in Seq(P) /\ Len(buffer') = 1 /\ buffer'[1] = FileHeader(c + 1)
  <2>1. FileHeader(c + 1) \in P
    BY DEF P, FileHeader
  <2>. QED
    BY <1>2, <2>1
<1>10. Types'
  <2>1. <<>> \in Seq(P)
    OBVIOUS
  <2>2. files' \in [DOMAIN files' -> Seq(P)] /\ DOMAIN files' \subseteq Nat \ {0}
    BY <1>2, <1>4, <1>7, <2>1
  <2>. QED
    BY <1>2, <1>3, <1>9, <2>2 DEF Inv, Types
<1>11. Filed'
  <2>1. Good(<<>>, c + 1)
    BY DEF Good, Rising, Apart, Opening
  <2>2. \A g \in DOMAIN files' : /\ Good(files'[g], g)
                                 /\ files'[g] = <<>> => opened' /\ g = current_file'
    BY <1>2, <1>4, <1>7, <2>1
  <2>3. \A g, h \in DOMAIN files' : g < h => End(g)' < h
    <3> SUFFICES ASSUME NEW g \in DOMAIN files', NEW h \in DOMAIN files', g < h
                 PROVE  End(g)' < h
      OBVIOUS
    <3>1. g \in DOMAIN files
      BY <1>4, <1>6, <1>7
    <3>2. CASE h = c + 1
      BY <1>6, <1>8, <3>1, <3>2
    <3>3. CASE h # c + 1
      BY <1>7, <1>8, <3>1, <3>3 DEF Inv, Filed
    <3>. QED
      BY <3>2, <3>3
  <2>. QED
    BY <2>2, <2>3 DEF Filed
<1>12. Newest'
  BY <1>2, <1>3, <1>6, <1>7 DEF Newest
<1>13. Remembered'
  <2>1. \A d \in durable : \E f \in DOMAIN files' : d.seq <= End(f)'
    BY <1>7, <1>8 DEF Inv, Remembered
  <2>2. \A d \in OnDisk(files) : d \in OnDisk(files')
    BY <1>7, OnDiskDef
  <2>. QED
    BY <1>2, <2>1, <2>2 DEF Inv, Remembered
<1>14. Writing'
  <2>1. PICK w : w = files'[current_file'] \o buffer'
    OBVIOUS
  <2>2. w = buffer'
    BY <1>2, <1>7, <1>9, <2>1, ConcatEmptySeq
  <2>3. Draft(w, c + 1, c)
    <3>1. w # <<>> /\ w[1] = FileHeader(c + 1) /\ Len(w) = 1
      BY <1>9, <2>2
    <3>2. 1 .. Len(w) = {1} /\ 2 .. Len(w) = {} /\ w[1].seq = c + 1
      BY <3>1 DEF FileHeader
    <3>. QED
      BY <3>1, <3>2 DEF Draft, Rising, Apart, Opening
  <2>4. \A d \in durable : d.seq <= c
    BY <1>1, <1>5 DEF Inv, Types, Remembered, P
  <2>5. EntrySet(buffer') = {}
    BY <1>9, EntryInSet DEF FileHeader
  <2>. QED
    BY <1>2, <2>1, <2>3, <2>4, <2>5 DEF Writing
<1>15. Scanned'
  BY <1>2 DEF Scanned
<1>. QED
  BY <1>10, <1>11, <1>12, <1>13, <1>14, <1>15 DEF Inv

\* One entry at the end of a draft, of which the first piece is its header.
LEMMA DraftExtended ==
    ASSUME NEW w \in Seq(P), NEW v \in Seq(P), NEW f \in Nat \ {0}, NEW c \in Nat,
           f <= c + 1, Draft(w, f, c),
           Len(v) > Len(w), v[Len(w) + 1].kind = "entry",
           \A i \in 1 .. Len(w) : v[i] = w[i],
           \A i \in Len(w) + 1 .. Len(v) :
              v[i].seq = c + 1 /\ (i # Len(w) + 1 => v[i].kind # "entry")
    PROVE  Draft(v, f, c + 1)
<1>1. /\ w # <<>> /\ w[1] = FileHeader(f) /\ Rising(w) /\ Apart(w)
      /\ \A i \in 2 .. Len(w) : w[i].seq <= c
  BY DEF Draft
<1>2. Len(w) \in Nat /\ Len(v) \in Nat /\ Len(w) >= 1
  BY <1>1
<1>3. w[1].seq = f /\ w[1].kind = "file"
  BY <1>1 DEF FileHeader
<1>4. \A i \in 1 .. Len(w) : w[i].seq \in Nat
  <2>1. \A i \in 1 .. Len(w) : w[i] \in P
    OBVIOUS
  <2>. QED
    BY <2>1 DEF P
<1>5. \A i \in 1 .. Len(w) : w[i].seq <= c + 1
  <2> TAKE i \in 1 .. Len(w)
  <2>1. CASE i = 1
    BY <1>3, <2>1
  <2>2. CASE i # 1
    <3>1. i \in 2 .. Len(w)
      BY <2>2
    <3>. QED
      BY <1>1, <1>4, <3>1
  <2>. QED
    BY <2>1, <2>2
<1>6. \A i \in 1 .. Len(v) : i \in 1 .. Len(w) \/ i \in Len(w) + 1 .. Len(v)
  BY <1>2
<1>7. Rising(v)
  <2> SUFFICES ASSUME NEW i \in 1 .. Len(v), NEW j \in 1 .. Len(v), i <= j
               PROVE  v[i].seq <= v[j].seq
    BY DEF Rising
  <2>1. CASE j \in 1 .. Len(w)
    <3>1. i \in 1 .. Len(w)
      BY <1>2, <2>1
    <3>. QED
      BY <1>1, <2>1, <3>1 DEF Rising
  <2>2. CASE j \in Len(w) + 1 .. Len(v)
    <3>1. v[j].seq = c + 1
      BY <2>2
    <3>2. CASE i \in 1 .. Len(w)
      BY <1>5, <3>1, <3>2
    <3>3. CASE i \in Len(w) + 1 .. Len(v)
      BY <3>1, <3>3
    <3>. QED
      BY <1>6, <3>2, <3>3
  <2>. QED
    BY <1>6, <2>1, <2>2
<1>8. Apart(v)
  <2> SUFFICES ASSUME NEW i \in 1 .. Len(v), NEW j \in 1 .. Len(v), i < j,
                      v[i].kind = "entry", v[j].kind = "entry"
               PROVE  v[i].seq < v[j].seq
    BY DEF Apart
  <2>1. CASE j \in 1 .. Len(w)
    <3>1. i \in 1 .. Len(w)
      BY <1>2, <2>1
    <3>. QED
      BY <1>1, <2>1, <3>1 DEF Apart
  <2>2. CASE j \in Len(w) + 1 .. Len(v)
    <3>1. j = Len(w) + 1 /\ v[j].seq = c + 1
      BY <2>2
    <3>2. i \in 1 .. Len(w) /\ v[i] = w[i]
      BY <1>2, <3>1
    <3>3. i # 1
      BY <1>3, <3>2
    <3>4. i \in 2 .. Len(w)
      BY <3>2, <3>3
    <3>5. w[i].seq <= c /\ w[i].seq \in Nat
      BY <1>1, <1>4, <3>2, <3>4
    <3>. QED
      BY <3>1, <3>2, <3>5
  <2>. QED
    BY <1>6, <2>1, <2>2
<1>9. v # <<>> /\ v[1] = FileHeader(f)
  BY <1>1, <1>2
<1>10. ASSUME NEW i \in 2 .. Len(v)
       PROVE  v[i].seq <= c + 1
  <2>1. i \in 1 .. Len(w) \/ i \in Len(w) + 1 .. Len(v)
    BY <1>2
  <2>2. CASE i \in 1 .. Len(w)
    BY <1>5, <2>2
  <2>3. CASE i \in Len(w) + 1 .. Len(v)
    BY <2>3
  <2>. QED
    BY <2>1, <2>2, <2>3
<1>11. Opening(v, f) /\ Len(v) # 1
  <2>1. CASE Len(w) = 1
    <3>1. 2 \in Len(w) + 1 .. Len(v) /\ 2 = Len(w) + 1 /\ c + 1 = f
      BY <1>2, <2>1 DEF Draft
    <3>2. v[2].kind = "entry" /\ v[2].seq = f
      BY <3>1
    <3>. QED
      BY <1>2, <3>1, <3>2 DEF Opening
  <2>2. CASE Len(w) # 1
    <3>1. Len(w) >= 2 /\ 2 \in 1 .. Len(w)
      <4>1. PICK k \in Nat : k = Len(w) /\ k >= 1 /\ k # 1
        BY <1>2, <2>2
      <4>2. k >= 2 /\ 2 \in 1 .. k
        BY <4>1
      <4>. QED
        BY <4>1, <4>2
    <3>. QED
      BY <1>2, <3>1 DEF Draft, Opening
  <2>. QED
    BY <2>1, <2>2
<1>. QED
  BY <1>7, <1>8, <1>9, <1>10, <1>11 DEF Draft

LEMMA Regrouped ==
    ASSUME NEW a \in Seq(P), NEW b \in Seq(P), NEW c \in Seq(P)
    PROVE  (a \o b) \o c = a \o (b \o c)
  BY ConcatAssociative

\* The pieces of an entry with the number n.
EntryOf(x, n) ==
    /\ Len(x) > 0 /\ x[1].kind = "entry"
    /\ \A i \in 1 .. Len(x) : x[i].seq = n /\ (i # 1 => x[i].kind # "entry")

\* The pieces x of an entry, after those the buffer b holds.
LEMMA BufferGrows ==
    ASSUME NEW a \in Seq(P), NEW b \in Seq(P), NEW f \in Nat \ {0}, NEW c \in Nat,
           NEW x \in Seq(P), f <= c + 1, Draft(a \o b, f, c), EntryOf(x, c + 1)
    PROVE  /\ b \o x \in Seq(P) /\ Draft(a \o (b \o x), f, c + 1)
           /\ Len(b \o x) = Len(b) + Len(x)
           /\ \A e \in EntrySet(b \o x) : e \in EntrySet(b) \/ e.seq = c + 1
<1>0. /\ Len(x) > 0 /\ x[1].kind = "entry"
      /\ \A i \in 1 .. Len(x) : x[i].seq = c + 1 /\ (i # 1 => x[i].kind # "entry")
  BY DEF EntryOf
<1>1. PICK w \in Seq(P) : w = a \o b
  BY ConcatProperties
<1>2. PICK v \in Seq(P) : v = w \o x
  BY ConcatProperties
<1>3. v = a \o (b \o x)
  <2>1. (a \o b) \o x = a \o (b \o x)
    BY Regrouped, SMTT(60)
  <2>. QED
    BY <1>1, <1>2, <2>1
<1>4. PICK m, n, k \in Nat : m = Len(w) /\ n = Len(x) /\ k = Len(b)
  BY LenProperties
<1>5. /\ Len(v) = m + n
      /\ \A i \in 1 .. m + n : v[i] = IF i <= m THEN w[i] ELSE x[i - m]
  BY <1>2, <1>4, ConcatProperties
<1>6. \A i \in 1 .. m : v[i] = w[i]
  BY <1>4, <1>5
<1>7. ASSUME NEW i \in m + 1 .. m + n
      PROVE  v[i].seq = c + 1 /\ (i # m + 1 => v[i].kind # "entry")
  <2>1. i - m \in 1 .. n /\ ~(i <= m) /\ i \in 1 .. m + n /\ (i # m + 1 => i - m # 1)
    BY <1>4
  <2>2. v[i] = x[i - m]
    BY <1>5, <2>1
  <2>. QED
    BY <1>0, <1>4, <2>1, <2>2
<1>8. Draft(v, f, c + 1)
  <2>1. Draft(w, f, c) /\ Len(v) > Len(w) /\ v[Len(w) + 1].kind = "entry"
    <3>1. /\ m + 1 \in 1 .. m + n /\ ~(m + 1 <= m) /\ (m + 1) - m = 1
          /\ Len(v) > Len(w)
      BY <1>0, <1>4, <1>5
    <3>2. v[m + 1] = x[1]
      BY <1>5, <3>1
    <3>. QED
      BY <1>0, <1>1, <1>4, <3>1, <3>2
  <2>. QED
    BY <1>4, <1>5, <1>6, <1>7, <2>1, DraftExtended
<1>9. PICK t \in Seq(P) : t = b \o x
  BY ConcatProperties
<1>10. /\ Len(t) = k + n
       /\ \A i \in 1 .. k + n : t[i] = IF i <= k THEN b[i] ELSE x[i - k]
  BY <1>4, <1>9, ConcatProperties
<1>11. ASSUME NEW e \in EntrySet(t)
       PROVE  e \in EntrySet(b) \/ e.seq = c + 1
  <2>1. PICK i \in 1 .. Len(t) : e = t[i] /\ e.kind = "entry"
    BY EntryInSet
  <2>2. CASE i <= k
    <3>1. i \in 1 .. Len(b) /\ e = b[i]
      BY <1>4, <1>10, <2>1, <2>2
    <3>. QED
      BY <2>1, <3>1, EntryInSet
  <2>3. CASE ~(i <= k)
    <3>1. i - k \in 1 .. Len(x) /\ e = x[i - k]
      BY <1>4, <1>10, <2>1, <2>3
    <3>. QED
      BY <1>0, <3>1
  <2>. QED
    BY <2>2, <2>3
<1>. QED
  BY <1>3, <1>4, <1>8, <1>9, <1>10, <1>11

LEMMA PairOfPieces ==
    ASSUME NEW h \in P, NEW g \in P
    PROVE  <<h>> \o <<g>> = <<h, g>>
<1>1. /\ <<h>> \in Seq(P) /\ <<g>> \in Seq(P) /\ <<h, g>> \in Seq(P)
      /\ Len(<<h>>) = 1 /\ Len(<<g>>) = 1 /\ Len(<<h, g>>) = 2
  OBVIOUS
<1>2. PICK s \in Seq(P) : s = <<h>> \o <<g>>
  BY <1>1, ConcatProperties
<1>3. Len(s) = 2 /\ s[1] = h /\ s[2] = g
  <2>1. \A i \in 1 .. 2 : s[i] = IF i <= 1 THEN <<h>>[i] ELSE <<g>>[i - 1]
    BY <1>1, <1>2, ConcatProperties
  <2>. QED
    BY <1>1, <1>2, <2>1, ConcatProperties
<1>4. s = <<h, g>>
  <2>1. \A i \in 1 .. Len(s) : s[i] = <<h, g>>[i]
    BY <1>3
  <2>. QED
    BY <1>1, <1>3, <2>1, SeqEqual
<1>. QED
  BY <1>2, <1>4

LEMMA AppendKeeps ==
    ASSUME Inv, NEW hasData \in BOOLEAN, Append_(hasData)
    PROVE  Inv' /\ Grown
<1>1. PICK f \in Nat \ {0}, c \in Nat :
          f = current_file /\ c = current_seq /\ f \in DOMAIN files
  BY DEF Append_, Inv, Newest, Types
<1>2. PICK a \in Seq(P), b \in Seq(P) : a = files[f] /\ b = buffer
  BY <1>1 DEF Inv, Types
<1>3. PICK h \in P, g \in P :
          /\ h = EntryHeader(c + 1, uid + 1) /\ g = EntryData(c + 1, uid + 1)
          /\ h.seq = c + 1 /\ h.kind = "entry" /\ g.seq = c + 1 /\ g.kind = "data"
  <2>1. uid + 1 \in Nat /\ c + 1 \in Nat
    BY DEF Inv, Types
  <2>2. EntryHeader(c + 1, uid + 1) \in P /\ EntryData(c + 1, uid + 1) \in P
    BY <2>1 DEF P, EntryHeader, EntryData
  <2>3. /\ EntryHeader(c + 1, uid + 1).seq = c + 1 /\ EntryHeader(c + 1, uid + 1).kind = "entry"
        /\ EntryData(c + 1, uid + 1).seq = c + 1 /\ EntryData(c + 1, uid + 1).kind = "data"
    BY DEF EntryHeader, EntryData
  <2>. QED
    BY <2>2, <2>3
<1>4. PICK x \in Seq(P) : x = IF hasData THEN <<h, g>> ELSE <<h>>
  <2>1. <<h, g>> \in Seq(P) /\ <<h>> \in Seq(P)
    OBVIOUS
  <2>. QED
    BY <2>1
<1>5. /\ Len(x) > 0 /\ x[1].kind = "entry"
      /\ \A i \in 1 .. Len(x) : x[i].seq = c + 1 /\ (i # 1 => x[i].kind # "entry")
  <2>1. CASE hasData
    <3>1. Len(x) = 2 /\ x[1] = h /\ x[2] = g
      BY <1>4, <2>1
    <3>. QED
      BY <1>3, <3>1
  <2>2. CASE ~hasData
    <3>1. Len(x) = 1 /\ x[1] = h
      BY <1>4, <2>2
    <3>. QED
      BY <1>3, <3>1
  <2>. QED
    BY <2>1, <2>2
<1>6. Append(b, h) \o (IF hasData THEN <<g>> ELSE <<>>) = b \o x
  <2>1. Append(b, h) = b \o <<h>>
    OBVIOUS
  <2>2. CASE hasData
    <3>1. <<h>> \o <<g>> = <<h, g>>
      BY PairOfPieces
    <3>2. (b \o <<h>>) \o <<g>> = b \o (<<h>> \o <<g>>)
      <4>1. <<h>> \in Seq(P) /\ <<g>> \in Seq(P)
        OBVIOUS
      <4>. QED
        BY <4>1, ConcatAssociative
    <3>. QED
      BY <1>4, <2>1, <2>2, <3>1, <3>2
  <2>3. CASE ~hasData
    <3>1. b \o <<h>> \in Seq(P)
      OBVIOUS
    <3>2. (b \o <<h>>) \o <<>> = b \o <<h>>
      BY <3>1, ConcatEmptySeq
    <3>. QED
      BY <1>4, <2>1, <2>3, <3>2
  <2>. QED
    BY <2>2, <2>3
<1>7. PICK t : t = b \o x
  OBVIOUS
<1>8. Draft(a \o b, f, c) /\ f <= c + 1 /\ opened /\ ~scanning
  BY <1>1, <1>2 DEF Append_, Inv, Writing, Types
<1>9. /\ t \in Seq(P) /\ Draft(a \o t, f, c + 1)
      /\ Len(t) = Len(b) + Len(x)
      /\ \A e \in EntrySet(t) : e \in EntrySet(b) \/ e.seq = c + 1
  <2>1. /\ b \o x \in Seq(P) /\ Draft(a \o (b \o x), f, c + 1)
        /\ Len(b \o x) = Len(b) + Len(x)
        /\ \A e \in EntrySet(b \o x) : e \in EntrySet(b) \/ e.seq = c + 1
    <3>1. EntryOf(x, c + 1)
      BY <1>5 DEF EntryOf
    <3>2. f <= c + 1 /\ Draft(a \o b, f, c)
      BY <1>8
    <3>. QED
      BY <3>1, <3>2, BufferGrows
  <2>. QED
    BY <1>7, <2>1
<1>10. PICK n \in 0 .. Len(t) : WriteOut(t, n)
  <2>1. \E n \in {0, Len(b) + 1, Len(t)} : WriteOut(t, n)
    <3>1. \E n \in IF (entry_count + 1) % SyncInterval = 0 THEN {Len(t)}
                    ELSE {0, Len(b) + 1, Len(t)} : WriteOut(t, n)
      BY <1>1, <1>2, <1>3, <1>6, <1>7 DEF Append_
    <3>. QED
      BY <3>1
  <2>2. Len(b) \in Nat /\ Len(t) \in Nat /\ Len(x) \in Nat /\ Len(b) + 1 \in 0 .. Len(t)
    BY <1>5, <1>9, LenProperties
  <2>. QED
    BY <2>1, <2>2
<1>11. /\ current_seq' = c + 1 /\ entry_count' = entry_count + 1 /\ uid' = uid + 1
       /\ UNCHANGED <<opened, current_file, scanning, sleft, max_seq, tleft, tseq, cutoff>>
  BY <1>1 DEF Append_, scan, truncate
<1>12. \A d \in durable : d.seq <= c + 1 /\ \A e \in EntrySet(t) : d.seq < e.seq
  <2>1. \A d \in durable : d.seq \in Nat /\ d.seq <= c /\ \A e \in EntrySet(b) : d.seq < e.seq
    BY <1>1, <1>2, <1>8 DEF Inv, Writing, Types, P
  <2>. QED
    BY <1>9, <2>1
<1>13. /\ Filed' /\ Remembered' /\ Grown
       /\ DOMAIN files' = DOMAIN files /\ files' \in [DOMAIN files -> Seq(P)]
       /\ buffer' \in Seq(P) /\ durable' \subseteq P
       /\ files'[current_file] \o buffer' = files[current_file] \o t
       /\ \A d \in durable' :
             d.seq <= c + 1 /\ \A e \in EntrySet(buffer') : d.seq < e.seq
  <2>1. Draft(files[current_file] \o t, current_file, c + 1) /\ opened'
    BY <1>1, <1>2, <1>8, <1>9, <1>11
  <2>2. /\ files' = [files EXCEPT ![current_file] = files[current_file] \o SubSeq(t, 1, n)]
        /\ durable' = durable \cup EntrySet(SubSeq(t, 1, n))
        /\ buffer' = SubSeq(t, n + 1, Len(t))
        /\ current_file' = current_file /\ cutoff' = cutoff
    BY <1>10, <1>11 DEF WriteOut
  <2>3. Types /\ Filed /\ Newest /\ Remembered /\ c + 1 \in Nat /\ t \in Seq(P)
    BY <1>9 DEF Inv
  <2>. QED
    BY <1>8, <1>12, <2>1, <2>2, <2>3, WriteKeeps
<1>14. Types'
  <2>0. Types
    BY DEF Inv
  <2>1. /\ files' \in [DOMAIN files' -> Seq(P)] /\ DOMAIN files' \subseteq Nat \ {0}
        /\ tleft' \subseteq DOMAIN files'
    BY <1>11, <1>13, <2>0 DEF Types
  <2>2. /\ current_file' \in Nat /\ current_seq' \in Nat /\ entry_count' \in Nat /\ max_seq' \in Nat
        /\ uid' \in Nat /\ cutoff' \in Nat /\ tseq' \in Nat
    <3>1. /\ current_file \in Nat /\ current_seq \in Nat /\ entry_count \in Nat
          /\ max_seq \in Nat /\ uid \in Nat /\ cutoff \in Nat /\ tseq \in Nat
      BY <2>0 DEF Types
    <3>. QED
      BY <1>11, <3>1
  <2>3. opened' \in BOOLEAN /\ scanning' \in BOOLEAN
    BY <1>11, <2>0 DEF Types
  <2>. QED
    BY <1>13, <2>1, <2>2, <2>3 DEF Types
<1>15. Newest'
  BY <1>11, <1>13 DEF Inv, Newest
<1>16. Scanned'
  BY <1>8, <1>11 DEF Inv, Scanned
<1>17. Writing'
  <2>1. Draft(files'[current_file'] \o buffer', current_file', c + 1)
    BY <1>1, <1>2, <1>9, <1>11, <1>13
  <2>2. current_seq' + 1 = current_file' + entry_count'
    BY <1>1, <1>8, <1>11 DEF Inv, Types, Writing
  <2>. QED
    BY <1>8, <1>11, <1>13, <2>1, <2>2 DEF Writing
<1>. QED
  BY <1>13, <1>14, <1>15, <1>16, <1>17 DEF Inv

LEMMA SyncKeeps ==
    ASSUME Inv, Sync
    PROVE  Inv' /\ Grown
<1>1. PICK c \in Nat, t \in Seq(P) : c = current_seq /\ t = buffer
  BY DEF Inv, Types
<1>2. /\ opened /\ WriteOut(t, Len(t))
      /\ UNCHANGED <<opened, current_file, current_seq, entry_count, scanning, sleft, max_seq,
                     tleft, tseq, uid, cutoff>>
  BY <1>1 DEF Sync, scan, truncate
<1>3. /\ Draft(files[current_file] \o t, current_file, c) /\ ~scanning
      /\ \A d \in durable : d.seq <= c /\ \A e \in EntrySet(t) : d.seq < e.seq
  BY <1>1, <1>2 DEF Inv, Writing
<1>4. /\ Filed' /\ Remembered' /\ Grown
      /\ DOMAIN files' = DOMAIN files /\ files' \in [DOMAIN files -> Seq(P)]
      /\ buffer' \in Seq(P) /\ durable' \subseteq P
      /\ files'[current_file] \o buffer' = files[current_file] \o t
      /\ \A d \in durable' :
            d.seq <= c /\ \A e \in EntrySet(buffer') : d.seq < e.seq
  <2>1. Len(t) \in 0 .. Len(t)
    BY LenProperties
  <2>2. /\ files' = [files EXCEPT ![current_file] = files[current_file] \o SubSeq(t, 1, Len(t))]
        /\ durable' = durable \cup EntrySet(SubSeq(t, 1, Len(t)))
        /\ buffer' = SubSeq(t, Len(t) + 1, Len(t))
        /\ current_file' = current_file /\ cutoff' = cutoff /\ opened'
    BY <1>2 DEF WriteOut
  <2>3. Types /\ Filed /\ Newest /\ Remembered
    BY DEF Inv
  <2>. QED
    BY <1>2, <1>3, <2>1, <2>2, <2>3, WriteKeeps
<1>5. Types'
  BY <1>2, <1>4 DEF Inv, Types
<1>6. Newest'
  BY <1>2, <1>4 DEF Inv, Newest
<1>7. Scanned'
  BY <1>2, <1>3 DEF Inv, Scanned
<1>8. Writing'
  <2>1. Draft(files'[current_file'] \o buffer', current_file', c)
    BY <1>2, <1>3, <1>4
  <2>2. current_seq' + 1 = current_file' + entry_count'
    BY <1>2 DEF Inv, Writing
  <2>. QED
    BY <1>1, <1>2, <1>3, <1>4, <2>1, <2>2 DEF Writing
<1>. QED
  BY <1>4, <1>5, <1>6, <1>7, <1>8 DEF Inv

LEMMA SameHead ==
    ASSUME NEW w \in Seq(P), w # <<>>, NEW h \in P, w[1] = h
    PROVE  <<h>> \o Tail(w) = w
<1>1. PICK t \in Seq(P) : t = Tail(w)
  BY HeadTailProperties
<1>2. /\ Len(w) \in Nat /\ Len(w) >= 1 /\ Len(t) = Len(w) - 1
      /\ \A i \in 1 .. Len(w) - 1 : t[i] = w[i + 1]
  BY <1>1, HeadTailProperties
<1>3. <<h>> \in Seq(P) /\ Len(<<h>>) = 1
  OBVIOUS
<1>4. PICK v \in Seq(P) : v = <<h>> \o t
  BY <1>3, ConcatProperties
<1>5. /\ Len(v) = Len(w)
      /\ \A i \in 1 .. Len(w) : v[i] = IF i <= 1 THEN <<h>>[i] ELSE t[i - 1]
  BY <1>2, <1>3, <1>4, ConcatProperties
<1>6. \A i \in 1 .. Len(v) : v[i] = w[i]
  <2> TAKE i \in 1 .. Len(v)
  <2>1. CASE i = 1
    BY <1>2, <1>5, <2>1
  <2>2. CASE i # 1
    <3>1. i - 1 \in 1 .. Len(w) - 1 /\ ~(i <= 1) /\ (i - 1) + 1 = i
      BY <1>2, <1>5, <2>2
    <3>. QED
      BY <1>2, <1>5, <3>1
  <2>. QED
    BY <2>1, <2>2
<1>7. v = w
  BY <1>5, <1>6, SeqEqual
<1>. QED
  BY <1>1, <1>4, <1>7

\* Close writes what the file begins with already.
LEMMA CloseKeeps ==
    ASSUME Inv, Close
    PROVE  Inv' /\ Grown
<1>1. PICK c \in Nat, t \in Seq(P), f \in Nat \ {0} :
          c = current_seq /\ t = buffer /\ f = current_file /\ f \in DOMAIN files
  BY DEF Close, Inv, Types, Newest
<1>2. /\ opened /\ opened' = FALSE /\ buffer' = <<>>
      /\ durable' = durable \cup EntrySet(t)
      /\ files' = [files EXCEPT ![f] = UpdateFileHeader(files[f] \o t)]
      /\ UNCHANGED <<current_file, current_seq, entry_count, scanning, sleft, max_seq,
                     tleft, tseq, uid, cutoff>>
  BY <1>1 DEF Close, scan, truncate
<1>3. /\ Draft(files[current_file] \o t, current_file, c) /\ ~scanning
      /\ \A d \in durable : d.seq <= c /\ \A e \in EntrySet(t) : d.seq < e.seq
      /\ c + 1 = f + entry_count
  BY <1>1, <1>2 DEF Inv, Writing
<1>4. UpdateFileHeader(files[f] \o t) = files[f] \o t
  <2>1. current_seq - entry_count + 1 = f
    <3>1. entry_count \in Nat
      BY DEF Inv, Types
    <3>. QED
      BY <1>1, <1>3, <3>1
  <2>2. PICK w \in Seq(P) : w = files[f] \o t
    <3>1. files[f] \in Seq(P)
      BY <1>1 DEF Inv, Types
    <3>. QED
      BY <3>1, ConcatProperties
  <2>3. w # <<>> /\ w[1] = FileHeader(f)
    BY <1>1, <1>3, <2>2 DEF Draft
  <2>4. FileHeader(f) \in P
    BY DEF P, FileHeader
  <2>5. <<FileHeader(f)>> \o Tail(w) = w
    BY <2>3, <2>4, SameHead
  <2>. QED
    BY <2>1, <2>2, <2>5 DEF UpdateFileHeader
<1>5. SubSeq(t, 1, Len(t)) = t /\ SubSeq(t, Len(t) + 1, Len(t)) = <<>>
  <2>1. Len(t) \in Nat
    BY LenProperties
  <2>2. SubSeq(t, 1, Len(t)) = t
    BY SubSeqFull
  <2>3. SubSeq(t, Len(t) + 1, Len(t)) = <<>>
    BY <2>1, SubSeqEmpty
  <2>. QED
    BY <2>2, <2>3
<1>6. /\ Filed' /\ Remembered' /\ Grown
      /\ DOMAIN files' = DOMAIN files /\ files' \in [DOMAIN files -> Seq(P)]
      /\ buffer' \in Seq(P) /\ durable' \subseteq P
  <2>1. Len(t) \in 0 .. Len(t)
    BY LenProperties
  <2>2. /\ files' = [files EXCEPT ![current_file] = files[current_file] \o SubSeq(t, 1, Len(t))]
        /\ durable' = durable \cup EntrySet(SubSeq(t, 1, Len(t)))
        /\ buffer' = SubSeq(t, Len(t) + 1, Len(t))
        /\ current_file' = current_file /\ cutoff' = cutoff
    BY <1>1, <1>2, <1>4, <1>5
  <2>3. Types /\ Filed /\ Newest /\ Remembered
    BY DEF Inv
  <2>. QED
    BY <1>2, <1>3, <2>1, <2>2, <2>3, WriteKeeps
<1>7. Types'
  BY <1>2, <1>6 DEF Inv, Types
<1>8. Newest'
  BY <1>2, <1>6 DEF Inv, Newest
<1>9. Scanned'
  BY <1>2, <1>3 DEF Inv, Scanned
<1>10. Writing'
  BY <1>2 DEF Writing
<1>. QED
  BY <1>6, <1>7, <1>8, <1>9, <1>10 DEF Inv

\* A crash loses the buffer; unless it held the header, the file stands for
\* what has reached it.
LEMMA CrashKeeps ==
    ASSUME Inv, Crash, ~headless'
    PROVE  Inv'
<1>1. /\ opened' = FALSE /\ scanning' = FALSE /\ sleft' = {} /\ max_seq' = 0
      /\ current_file' = 0 /\ current_seq' = 0 /\ entry_count' = 0 /\ buffer' = <<>>
      /\ tleft' = {} /\ tseq' = 0
      /\ UNCHANGED <<files, uid, durable, cutoff>>
  BY DEF Crash
<1>2. opened => files[current_file] # <<>>
  BY DEF Crash
<1>3. Types'
  <2>1. Types
    BY DEF Inv
  <2>2. buffer' \in Seq(P) /\ tleft' \subseteq DOMAIN files'
    BY <1>1
  <2>3. /\ files' \in [DOMAIN files' -> Seq(P)] /\ DOMAIN files' \subseteq Nat \ {0}
        /\ durable' \subseteq P /\ uid' \in Nat /\ cutoff' \in Nat
    BY <1>1, <2>1 DEF Types
  <2>. QED
    BY <1>1, <2>2, <2>3 DEF Types
<1>4. Filed'
  BY <1>1, <1>2 DEF Inv, Filed, End
<1>5. Remembered'
  BY <1>1 DEF Inv, Remembered, End
<1>. QED
  BY <1>1, <1>3, <1>4, <1>5 DEF Inv, Newest, Writing, Scanned

LEMMA TruncateBeforeKeeps ==
    ASSUME Inv, NEW k \in Cutoffs, TruncateBefore(k)
    PROVE  Inv'
<1>1. /\ opened /\ k > cutoff /\ tleft' = DOMAIN files /\ tseq' = k /\ cutoff' = k
      /\ UNCHANGED <<files, opened, current_file, current_seq, entry_count, buffer,
                     scanning, sleft, max_seq, uid, durable>>
  BY DEF TruncateBefore, writer, scan
<1>2. k \in Nat /\ cutoff \in Nat /\ ~scanning
  BY <1>1, ConstantsAssumption DEF Inv, Types, Writing
<1>3. Types'
  BY <1>1, <1>2 DEF Inv, Types
<1>4. Filed' /\ Newest' /\ Writing' /\ Scanned'
  BY <1>1, <1>2 DEF Inv, Filed, Newest, Writing, Scanned, End
<1>5. Remembered'
  <2>1. \A d \in durable : d.seq \in Nat
    BY DEF Inv, Types, P
  <2>. QED
    BY <1>1, <1>2, <2>1 DEF Inv, Remembered, End
<1>. QED
  BY <1>3, <1>4, <1>5 DEF Inv

\* A file that goes holds entries below the argument only, and is not the
\* newest, which stands for larger numbers.
LEMMA TruncateVisitKeeps ==
    ASSUME Inv, NEW f \in tleft, TruncateVisit(f)
    PROVE  Inv'
<1>1. /\ tleft' = tleft \ {f}
      /\ UNCHANGED <<opened, current_file, current_seq, entry_count, buffer,
                     scanning, sleft, max_seq, uid, durable, tseq, cutoff>>
      /\ files' = IF GetLastSeqInFile(f) < tseq /\ f # current_file
                  THEN [g \in DOMAIN files \ {f} |-> files[g]]
                  ELSE files
  BY DEF TruncateVisit, writer, scan
<1>2. /\ f \in DOMAIN files /\ current_file \in DOMAIN files /\ tseq = cutoff /\ ~scanning
      /\ \A g \in DOMAIN files : g <= current_file
  BY DEF Inv, Types, Newest
<1>3. CASE files' = files
  BY <1>1, <1>2, <1>3 DEF Inv, Types, Filed, Newest, Writing, Scanned, Remembered, End
<1>4. CASE GetLastSeqInFile(f) < tseq /\ f # current_file
  <2>1. /\ DOMAIN files' = DOMAIN files \ {f} /\ \A g \in DOMAIN files' : files'[g] = files[g]
        /\ files' = [g \in DOMAIN files \ {f} |-> files[g]]
    BY <1>1, <1>4
  <2>2. \A g \in DOMAIN files : /\ g \in Nat \ {0} /\ files[g] \in Seq(P) /\ Good(files[g], g)
                                /\ End(g) \in Nat /\ g - 1 <= End(g)
    BY EndBounds DEF Inv, Types, Filed, End
  <2>3. files[f] # <<>> /\ End(f) < cutoff /\ f < current_file /\ End(f) < current_file
    <3>1. files[f] # <<>>
      BY <1>2, <1>4 DEF Inv, Filed
    <3>2. GetLastSeqInFile(f) = End(f)
      BY <3>1 DEF GetLastSeqInFile, End, EndOf
    <3>3. f < current_file
      BY <1>2, <1>4, <2>2
    <3>. QED
      BY <1>2, <1>4, <3>1, <3>2, <3>3 DEF Inv, Filed
  <2>4. \A g \in DOMAIN files' : End(g)' = End(g)
    BY <2>1 DEF End
  <2>5. Types'
    BY <1>1, <2>1, <2>2 DEF Inv, Types
  <2>6. Filed'
    BY <1>1, <2>1, <2>4 DEF Inv, Filed
  <2>7. Newest'
    BY <1>1, <1>2, <1>4, <2>1 DEF Inv, Newest
  <2>8. Scanned'
    BY <1>1, <1>2 DEF Inv, Scanned
  <2>9. Writing'
    <3>1. files'[current_file] = files[current_file]
      BY <1>2, <1>4, <2>1
    <3>. QED
      BY <1>1, <3>1 DEF Inv, Writing
  <2>10. Remembered'
    <3>1. \A d \in durable : d.seq \in Nat
      BY DEF Inv, Types, P
    <3>2. ASSUME NEW d \in durable
          PROVE  \E g \in DOMAIN files' : d.seq <= End(g)'
      <4>1. PICK g \in DOMAIN files : d.seq <= End(g)
        BY DEF Inv, Remembered
      <4>2. CASE g = f
        <5>1. d.seq <= End(current_file)
          BY <1>2, <2>2, <2>3, <3>1, <4>1, <4>2
        <5>. QED
          BY <1>2, <1>4, <2>1, <2>4, <5>1
      <4>3. CASE g # f
        BY <2>1, <2>4, <4>1, <4>3
      <4>. QED
        BY <4>2, <4>3
    <3>3. ASSUME NEW d \in durable, d.seq >= cutoff
          PROVE  d \in OnDisk(files')
      <4>1. PICK g \in DOMAIN files : d \in EntrySet(files[g])
        BY <3>3, OnDiskDef DEF Inv, Remembered
      <4>2. g # f
        <5>1. SUFFICES ASSUME g = f
                       PROVE  FALSE
          OBVIOUS
        <5>2. PICK i \in 1 .. Len(files[f]) : d = files[f][i]
          BY <1>2, <2>2, <4>1, <5>1, EntryInSet
        <5>3. d.seq <= End(f)
          BY <1>2, <2>2, <5>2, EndBounds DEF End
        <5>. QED
          <6>1. cutoff \in Nat
            BY DEF Inv, Types
          <6>2. End(f) \in Nat /\ d.seq \in Nat
            BY <1>2, <2>2, <3>1
          <6>. QED
            BY <2>3, <3>3, <5>3, <6>1, <6>2
      <4>. QED
        BY <2>1, <4>1, <4>2, OnDiskDef
    <3>. QED
      BY <1>1, <3>2, <3>3 DEF Inv, Remembered
  <2>. QED
    BY <2>5, <2>6, <2>7, <2>8, <2>9, <2>10 DEF Inv
<1>. QED
  BY <1>1, <1>3, <1>4

LEMMA SameLog ==
    ASSUME Inv, UNCHANGED <<files, writer, truncate, uid, durable, cutoff>>
    PROVE  Inv'
<1>1. Types' /\ Filed' /\ Newest'
  BY DEF Inv, Types, Filed, Newest, End, writer, truncate, scan
<1>2. Writing' /\ Scanned' /\ Remembered'
  BY DEF Inv, Writing, Scanned, Remembered, End, writer, truncate, scan
<1>. QED
  BY <1>1, <1>2 DEF Inv

LEMMA NextLog ==
    ASSUME LogInv, [Next]_vars
    PROVE  LogInv'
<1> SUFFICES ASSUME ~headless'
             PROVE  Inv'
  BY DEF LogInv
<1>1. Inv
  <2>1. ~headless
    BY DEF Next, ScanBegin, ScanVisit, OpenWriter, Append_, Sync, Close, Crash, TruncateBefore,
           TruncateVisit, ReadCall, ReadFile, ReadReturn, vars
  <2>. QED
    BY <2>1 DEF LogInv
<1>2. CASE UNCHANGED vars
  BY <1>1, <1>2, SameLog DEF vars
<1>3. CASE ScanBegin \/ OpenWriter \/ Sync \/ Close \/ Crash
  BY <1>1, <1>3, ScanBeginKeeps, OpenWriterKeeps, SyncKeeps, CloseKeeps, CrashKeeps
<1>4. ASSUME NEW f \in sleft, ScanVisit(f)
      PROVE  Inv'
  BY <1>1, <1>4, ScanVisitKeeps
<1>5. ASSUME NEW hasData \in BOOLEAN, Append_(hasData)
      PROVE  Inv'
  BY <1>1, <1>5, AppendKeeps
<1>6. ASSUME NEW k \in Cutoffs, TruncateBefore(k)
      PROVE  Inv'
  BY <1>1, <1>6, TruncateBeforeKeeps
<1>7. ASSUME NEW f \in tleft, TruncateVisit(f)
      PROVE  Inv'
  BY <1>1, <1>7, TruncateVisitKeeps
<1>8. ASSUME NEW after \in Afters, NEW max_count \in BatchSizes, ReadCall(after, max_count)
      PROVE  Inv'
  BY <1>1, <1>8, SameLog DEF ReadCall
<1>9. CASE ReadFile \/ ReadReturn
  BY <1>1, <1>9, SameLog DEF ReadFile, ReadReturn
<1>. QED
  BY <1>2, <1>3, <1>4, <1>5, <1>6, <1>7, <1>8, <1>9 DEF Next

LEMMA LogInvHolds == Spec => []LogInv
<1>1. Init => LogInv
  BY InitLog DEF LogInv
<1>2. LogInv /\ [Next]_vars => LogInv'
  BY NextLog
<1>. QED
  BY <1>1, <1>2, PTL DEF Spec

\* No two entries that have ever been readable have the same number, over
\* any number of restarts and crashes and whatever the order in which Init
\* visits the directory (zrt_wal_file.h, Init).
THEOREM NumbersNotReused == Spec => []SeqsNotReused
<1>1. LogInv => SeqsNotReused
  BY DEF LogInv, Inv, Remembered, SeqsNotReused
<1>. QED
  BY <1>1, LogInvHolds, PTL

\* What has reached a file stays readable until a TruncateBefore may drop it
\* (zrt_wal_file.h, TruncateBefore).
THEOREM EntriesKept == Spec => []DurableKept
<1>1. LogInv => DurableKept
  BY DEF LogInv, Inv, Remembered, DurableKept
<1>. QED
  BY <1>1, LogInvHolds, PTL

----------------------------------------------------------------------------
(* What the loop of ReadAfter keeps of a file. The loop is a recursive     *)
(* function; induction goes over sets of numbers.                          *)

\* A set that holds 0, and with a number the next one, holds every number.
LEMMA NatSetInduction ==
    ASSUME NEW T, 0 \in T, \A n \in Nat : n \in T => n + 1 \in T
    PROVE  \A n \in Nat : n \in T
<1> DEFINE U == Nat \ T
           R == OpToRel(<, Nat)
<1>. SUFFICES ASSUME U # {} PROVE FALSE
  OBVIOUS
<1>1. IsWellFoundedOn(R, Nat)
  BY NatLessThanWellFounded
<1>2. \A x \in U : x # 0 /\ x - 1 \in Nat
  BY SMT
<1>3. \A x \in Nat : x # 0 => <<x - 1, x>> \in R
  BY DEF OpToRel
<1>4. U \subseteq Nat
  OBVIOUS
<1>5. \A x \in U : x - 1 \in U
  BY <1>2
<1> HIDE DEF U, R
<1>6. PICK x \in U : \A y \in U : <<y, x>> \notin R
  BY <1>1, <1>4, WFMin
<1>. QED
  BY <1>2, <1>3, <1>4, <1>5, <1>6

\* What the reading loop has kept after each of the first n pieces.
Kept(p, a) == p.kind = "entry" /\ p.seq > a

\* f is what the loop has kept after each of the first n pieces of s.
IsFound(f, s, a, n) ==
    /\ f[0] = <<>>
    /\ \A i \in 1 .. n : f[i] = IF Kept(s[i], a) THEN Append(f[i - 1], s[i]) ELSE f[i - 1]

\* t are the entries behind a among the first n pieces of s, in order.
Collected(t, s, a, n) ==
    /\ \A i \in 1 .. Len(t) : \E k \in 1 .. n : t[i] = s[k] /\ Kept(s[k], a)
    /\ \A k \in 1 .. n : Kept(s[k], a) => \E i \in 1 .. Len(t) : t[i] = s[k]
    /\ Apart(s) => \A i, j \in 1 .. Len(t) : i < j => t[i].seq < t[j].seq

\* The loop over the first n pieces is well defined, by induction on n.
LEMMA FoundExists ==
    ASSUME NEW S, NEW s \in Seq(S), NEW a, NEW n \in Nat, n <= Len(s)
    PROVE  \E f \in [0 .. n -> Seq(S)] : IsFound(f, s, a, n)
<1> DEFINE T == {k \in Nat : k <= Len(s) => \E f \in [0 .. k -> Seq(S)] : IsFound(f, s, a, k)}
<1>1. 0 \in T
  <2>1. /\ [i \in 0 .. 0 |-> <<>>] \in [0 .. 0 -> Seq(S)]
        /\ IsFound([i \in 0 .. 0 |-> <<>>], s, a, 0)
    BY DEF IsFound
  <2>. QED
    BY <2>1
<1>2. ASSUME NEW k \in Nat, k \in T
      PROVE  k + 1 \in T
  <2>. SUFFICES ASSUME k + 1 <= Len(s)
                PROVE  \E f \in [0 .. k + 1 -> Seq(S)] : IsFound(f, s, a, k + 1)
    OBVIOUS
  <2>1. PICK f \in [0 .. k -> Seq(S)] : IsFound(f, s, a, k)
    BY <1>2
  <2>2. s[k + 1] \in S /\ f[k] \in Seq(S)
    OBVIOUS
  <2>3. PICK e \in Seq(S) : e = IF Kept(s[k + 1], a) THEN Append(f[k], s[k + 1]) ELSE f[k]
    BY <2>2
  <2>. DEFINE g == [i \in 0 .. k + 1 |-> IF i = k + 1 THEN e ELSE f[i]]
  <2>4. g \in [0 .. k + 1 -> Seq(S)]
    OBVIOUS
  <2>5. IsFound(g, s, a, k + 1)
    <3>1. g[0] = <<>>
      BY <2>1 DEF IsFound
    <3>2. ASSUME NEW i \in 1 .. k + 1
          PROVE  g[i] = IF Kept(s[i], a) THEN Append(g[i - 1], s[i]) ELSE g[i - 1]
      <4>1. CASE i = k + 1
        <5>1. g[i] = e /\ g[i - 1] = f[k] /\ s[i] = s[k + 1]
          BY <4>1
        <5>. QED
          BY <2>3, <5>1
      <4>2. CASE i # k + 1
        <5>1. i \in 1 .. k /\ g[i] = f[i] /\ g[i - 1] = f[i - 1]
          BY <4>2
        <5>2. f[i] = IF Kept(s[i], a) THEN Append(f[i - 1], s[i]) ELSE f[i - 1]
          BY <2>1, <5>1 DEF IsFound
        <5>. QED
          BY <5>1, <5>2
      <4>. QED
        BY <4>1, <4>2
    <3>. HIDE DEF g
    <3>. QED
      BY <3>1, <3>2 DEF IsFound
  <2>. QED
    BY <2>4, <2>5
<1>. HIDE DEF T
<1>3. n \in T
  BY <1>1, <1>2, NatSetInduction
<1>. QED
  BY <1>3 DEF T

\* One piece more, which is kept or not.
LEMMA CollectedNext ==
    ASSUME NEW S \in SUBSET P, NEW s \in Seq(S), NEW a, NEW k \in Nat, k + 1 <= Len(s),
           NEW t \in Seq(S), Collected(t, s, a, k),
           NEW u, u = IF Kept(s[k + 1], a) THEN Append(t, s[k + 1]) ELSE t
    PROVE  u \in Seq(S) /\ Collected(u, s, a, k + 1)
<1>1. PICK p \in S : p = s[k + 1]
  OBVIOUS
<1>2. CASE ~Kept(p, a)
  <2>1. u = t
    BY <1>1, <1>2
  <2>2. \A i \in 1 .. k + 1 : i \in 1 .. k \/ i = k + 1
    OBVIOUS
  <2>3. \A i \in 1 .. k : i \in 1 .. k + 1
    OBVIOUS
  <2>. QED
    BY <1>1, <1>2, <2>1, <2>2, <2>3 DEF Collected
<1>3. CASE Kept(p, a)
  <2>1. PICK m \in Nat : m = Len(t)
    OBVIOUS
  <2>2. /\ u \in Seq(S) /\ Len(u) = m + 1 /\ u[m + 1] = p
        /\ \A i \in 1 .. m : u[i] = t[i]
    <3>1. u = Append(t, p)
      BY <1>1, <1>3
    <3>. QED
      BY <2>1, <3>1, AppendProperties
  <2>3. /\ \A i \in 1 .. k + 1 : i \in 1 .. k \/ i = k + 1
        /\ \A i \in 1 .. m + 1 : i \in 1 .. m \/ i = m + 1
        /\ \A i \in 1 .. k : i \in 1 .. k + 1
        /\ \A i \in 1 .. m : i \in 1 .. m + 1
        /\ k + 1 \in 1 .. k + 1 /\ m + 1 \in 1 .. m + 1
    OBVIOUS
  <2>4. /\ \A i \in 1 .. m : \E l \in 1 .. k : t[i] = s[l] /\ Kept(s[l], a)
        /\ \A l \in 1 .. k : Kept(s[l], a) => \E i \in 1 .. m : t[i] = s[l]
        /\ Apart(s) => \A i, j \in 1 .. m : i < j => t[i].seq < t[j].seq
    BY <2>1 DEF Collected
  <2>5. ASSUME NEW i \in 1 .. m + 1
        PROVE  \E l \in 1 .. k + 1 : u[i] = s[l] /\ Kept(s[l], a)
    <3>1. CASE i \in 1 .. m
      <4>1. PICK l \in 1 .. k : t[i] = s[l] /\ Kept(s[l], a)
        BY <2>4, <3>1
      <4>. QED
        BY <2>2, <2>3, <3>1, <4>1
    <3>2. CASE i = m + 1
      BY <1>1, <1>3, <2>2, <2>3, <3>2
    <3>. QED
      BY <2>3, <3>1, <3>2
  <2>6. \A l \in 1 .. k + 1 : Kept(s[l], a) => \E i \in 1 .. m + 1 : u[i] = s[l]
    BY <1>1, <2>2, <2>3, <2>4
  <2>7. ASSUME Apart(s), NEW i \in 1 .. m + 1, NEW j \in 1 .. m + 1, i < j
        PROVE  u[i].seq < u[j].seq
    <3>1. i \in 1 .. m
      BY <2>7
    <3>2. CASE j \in 1 .. m
      BY <2>2, <2>4, <2>7, <3>1, <3>2
    <3>3. CASE j = m + 1
      <4>1. PICK l \in 1 .. k : t[i] = s[l] /\ Kept(s[l], a)
        BY <2>4, <3>1
      <4>2. l \in 1 .. Len(s) /\ k + 1 \in 1 .. Len(s) /\ l < k + 1
        OBVIOUS
      <4>3. s[l].seq < s[k + 1].seq
        BY <1>1, <1>3, <2>7, <4>1, <4>2 DEF Apart, Kept
      <4>. QED
        BY <1>1, <2>2, <3>1, <3>3, <4>1, <4>3
    <3>. QED
      BY <2>3, <3>2, <3>3
  <2>. QED
    BY <2>2, <2>5, <2>6, <2>7 DEF Collected
<1>. QED
  BY <1>1, <1>2, <1>3

\* The loop keeps the entries behind a, each, and in the order of the file.
LEMMA FoundIs ==
    ASSUME NEW S \in SUBSET P, NEW s \in Seq(S), NEW a
    PROVE  Found(s, a) \in Seq(S) /\ Collected(Found(s, a), s, a, Len(s))
<1> DEFINE n == Len(s)
           D(h) == [i \in 0 .. n |-> IF i = 0 THEN <<>>
                                     ELSE IF s[i].kind = "entry" /\ s[i].seq > a
                                          THEN Append(h[i - 1], s[i])
                                          ELSE h[i - 1]]
           F == CHOOSE h : h = D(h)
<1>1. n \in Nat /\ n <= Len(s)
  OBVIOUS
<1>2. PICK g \in [0 .. n -> Seq(S)] : IsFound(g, s, a, n)
  <2>. HIDE DEF n, D, F
  <2>. QED
    BY <1>1, FoundExists, Zenon
<1>3. g = D(g)
  <2>. SUFFICES ASSUME NEW i \in 0 .. n
                PROVE  g[i] = D(g)[i]
    OBVIOUS
  <2>1. CASE i = 0
    BY <1>2, <2>1 DEF IsFound
  <2>2. CASE i # 0
    <3>1. i \in 1 .. n
      BY <2>2
    <3>. QED
      BY <1>2, <2>2, <3>1 DEF IsFound, Kept
  <2>. QED
    BY <2>1, <2>2
<1>4. F = D(F)
  BY <1>3, Zenon
<1>5. Found(s, a) = F[n]
  BY DEF Found
<1>. HIDE DEF F
<1>6. IsFound(F, s, a, n)
  <2>1. F[0] = <<>>
    BY <1>1, <1>4
  <2>2. ASSUME NEW i \in 1 .. n
        PROVE  F[i] = IF Kept(s[i], a) THEN Append(F[i - 1], s[i]) ELSE F[i - 1]
    <3>1. i \in 0 .. n /\ i # 0
      BY <1>1
    <3>2. PICK h : h = F
      OBVIOUS
    <3>3. h = D(h)
      BY <1>4, <3>2
    <3>4. h[i] = IF s[i].kind = "entry" /\ s[i].seq > a THEN Append(h[i - 1], s[i]) ELSE h[i - 1]
      BY <3>1, <3>3
    <3>. QED
      BY <3>2, <3>4 DEF Kept
  <2>. QED
    BY <2>1, <2>2 DEF IsFound
<1>. HIDE DEF D, n
<1> DEFINE T == {k \in Nat : k <= n => F[k] \in Seq(S) /\ Collected(F[k], s, a, k)}
<1>7. 0 \in T
  <2>1. F[0] = <<>>
    BY <1>6 DEF IsFound
  <2>2. <<>> \in Seq(S) /\ Len(<<>>) = 0 /\ 1 .. 0 = {}
    OBVIOUS
  <2>3. Collected(<<>>, s, a, 0)
    BY <2>2 DEF Collected
  <2>. QED
    BY <2>1, <2>2, <2>3
<1>8. ASSUME NEW k \in Nat, k \in T
      PROVE  k + 1 \in T
  <2>. SUFFICES ASSUME k + 1 <= n
                PROVE  F[k + 1] \in Seq(S) /\ Collected(F[k + 1], s, a, k + 1)
    OBVIOUS
  <2>1. F[k] \in Seq(S) /\ Collected(F[k], s, a, k)
    BY <1>1, <1>8
  <2>2. F[k + 1] = IF Kept(s[k + 1], a) THEN Append(F[k], s[k + 1]) ELSE F[k]
    <3>1. k + 1 \in 1 .. n /\ k + 1 - 1 = k
      BY <1>1
    <3>. QED
      BY <1>6, <3>1 DEF IsFound
  <2>3. k + 1 <= Len(s)
    BY DEF n
  <2>. HIDE DEF T
  <2>4. PICK t, u : t = F[k] /\ u = F[k + 1]
    OBVIOUS
  <2>5. t \in Seq(S) /\ Collected(t, s, a, k)
    BY <2>1, <2>4
  <2>6. u = IF Kept(s[k + 1], a) THEN Append(t, s[k + 1]) ELSE t
    BY <2>2, <2>4
  <2>7. u \in Seq(S) /\ Collected(u, s, a, k + 1)
    BY <2>3, <2>5, <2>6, CollectedNext
  <2>. QED
    BY <2>4, <2>7
<1>. HIDE DEF T
<1>9. n \in T
  <2>1. \A k \in Nat : k \in T
    BY <1>7, <1>8, NatSetInduction
  <2>. QED
    BY <1>1, <2>1
<1>10. F[n] \in Seq(S) /\ Collected(F[n], s, a, n)
  BY <1>1, <1>9 DEF T
<1>. QED
  BY <1>5, <1>10 DEF n

----------------------------------------------------------------------------
(* Types. Every entry takes a number, and every session at most one more;  *)
(* the number of a session is taken when its file is opened.               *)

\* The largest number that may have been taken so far.
Top == FirstSeq - 1 + uid + sessions - (IF scanning THEN 1 ELSE 0)

Pieces(n, u) == [kind : {"file", "entry", "data"}, seq : 1 .. n, uid : 0 .. u]

\* A directory whose files hold pieces with numbers up to n.
Held(fs, n, u) ==
    /\ fs \in [DOMAIN fs -> Seq(Pieces(n, u))] /\ DOMAIN fs \subseteq 1 .. n
    /\ \A f \in DOMAIN fs : fs[f] # <<>> => fs[f][1] = FileHeader(f)

\* A file that begins with its header.
Begun(w, f) == w # <<>> /\ w[1] = FileHeader(f)

Counted(n) ==
    /\ n \in Nat
    /\ uid \in 0 .. MaxAppends /\ sessions \in 0 .. MaxSessions
    /\ entry_count \in 0 .. uid
    /\ current_seq \in 0 .. n /\ current_file \in 0 .. n /\ max_seq \in 0 .. n
    /\ opened \in BOOLEAN /\ scanning \in BOOLEAN

OpenFile(n) ==
    /\ opened =>
          /\ current_file \in DOMAIN files /\ current_seq < n
          /\ current_seq + 1 = current_file + entry_count
          /\ Begun(files[current_file] \o buffer, current_file)
    /\ ~opened => buffer = <<>>

Visits(n) ==
    /\ scanning => ~opened /\ tleft = {} /\ sleft \subseteq DOMAIN files /\ sessions > 0
    /\ ~scanning => sleft = {}
    /\ tleft \subseteq 1 .. n /\ tseq \in Cutoffs \cup {0}

ReaderTypes(n, u) ==
    /\ rpc \in {"idle", "read"} /\ rleft \in Seq(1 .. n)
    /\ rafter \in Afters \cup {0} /\ rmax \in BatchSizes \cup {0}
    /\ entries \in Seq(Pieces(n, u))

TypeInv ==
    /\ Counted(Top) /\ Held(files, Top, uid) /\ buffer \in Seq(Pieces(Top, uid))
    /\ OpenFile(Top) /\ Visits(Top) /\ ReaderTypes(Top, uid)

\* Sequences over a set are sequences over a larger one.
LEMMA SeqGrows ==
    ASSUME NEW S, NEW T, S \subseteq T, NEW s \in Seq(S)
    PROVE  s \in Seq(T)
<1>1. Len(s) \in Nat /\ s \in [1 .. Len(s) -> S]
  OBVIOUS
<1>2. s \in [1 .. Len(s) -> T]
  BY <1>1
<1>. QED
  BY <1>1, <1>2

\* More numbers allow more pieces.
LEMMA PiecesGrow ==
    ASSUME NEW n \in Nat, NEW m \in Nat, n <= m, NEW u \in Nat, NEW v \in Nat, u <= v
    PROVE  Pieces(n, u) \subseteq Pieces(m, v) /\ Pieces(n, u) \subseteq P
<1>1. 1 .. n \subseteq 1 .. m /\ 0 .. u \subseteq 0 .. v /\ 1 .. n \subseteq Nat /\ 0 .. u \subseteq Nat
  OBVIOUS
<1>. QED
  BY <1>1 DEF Pieces, P

\* A directory stays of its types as numbers grow.
LEMMA HeldGrows ==
    ASSUME NEW n \in Nat, NEW m \in Nat, n <= m, NEW u \in Nat, NEW v \in Nat, u <= v,
           NEW fs, Held(fs, n, u)
    PROVE  Held(fs, m, v)
<1>1. \A s \in Seq(Pieces(n, u)) : s \in Seq(Pieces(m, v))
  <2>1. Pieces(n, u) \subseteq Pieces(m, v)
    BY PiecesGrow
  <2>. QED
    BY <2>1, SeqGrows
<1>2. 1 .. n \subseteq 1 .. m
  OBVIOUS
<1>. QED
  BY <1>1, <1>2 DEF Held

\* The reader's state stays of its types as numbers grow.
LEMMA ReaderTypesGrow ==
    ASSUME NEW n \in Nat, NEW m \in Nat, n <= m, NEW u \in Nat, NEW v \in Nat, u <= v,
           ReaderTypes(n, u), UNCHANGED <<rpc, rleft, rafter, rmax, entries>>
    PROVE  ReaderTypes(m, v)'
<1>1. Pieces(n, u) \subseteq Pieces(m, v) /\ 1 .. n \subseteq 1 .. m
  BY PiecesGrow
<1>2. entries \in Seq(Pieces(m, v))
  BY <1>1, SeqGrows DEF ReaderTypes
<1>3. rleft \in Seq(1 .. m)
  BY <1>1, SeqGrows DEF ReaderTypes
<1>. QED
  BY <1>2, <1>3 DEF ReaderTypes

\* The log starts with no file or one that has an entry.
LEMMA InitTypes == Init => TypeInv
<1> SUFFICES ASSUME Init
             PROVE  TypeInv
  OBVIOUS
<1>. USE DEF Init
<1>1. PICK k \in Nat : k = FirstSeq - 1
  BY ConstantsAssumption
<1>2. Top = k /\ uid = 0
  BY <1>1 DEF Top
<1>3. Counted(k)
  <2>1. MaxAppends \in Nat /\ MaxSessions \in Nat
    BY ConstantsAssumption
  <2>2. opened \in BOOLEAN /\ scanning \in BOOLEAN
    OBVIOUS
  <2>3. uid \in 0 .. MaxAppends /\ sessions \in 0 .. MaxSessions /\ entry_count \in 0 .. uid
    BY <2>1
  <2>4. current_seq \in 0 .. k /\ current_file \in 0 .. k /\ max_seq \in 0 .. k
    OBVIOUS
  <2>. QED
    BY <2>2, <2>3, <2>4 DEF Counted
<1>4. Held(files, k, 0)
  <2>1. PICK s : s = <<FileHeader(k), EntryHeader(k, 0), EntryData(k, 0)>>
    OBVIOUS
  <2>2. s[1] = FileHeader(k)
    BY <2>1
  <2>3. DOMAIN files = {k} \ {0} /\ files = [f \in {k} \ {0} |-> <<FileHeader(f), EntryHeader(f, 0), EntryData(f, 0)>>]
    BY <1>1
  <2>4. k # 0 => s \in Seq(Pieces(k, 0))
    <3>1. k # 0 => {FileHeader(k), EntryHeader(k, 0), EntryData(k, 0)} \subseteq Pieces(k, 0)
      BY DEF Pieces, FileHeader, EntryHeader, EntryData
    <3>. QED
      BY <2>1, <3>1
  <2>5. \A f \in DOMAIN files : f = k /\ k # 0 /\ files[f] = s
    BY <2>1, <2>3
  <2>. QED
    BY <2>2, <2>3, <2>4, <2>5, SMTT(30) DEF Held
<1>5. buffer \in Seq(Pieces(k, 0)) /\ entries \in Seq(Pieces(k, 0)) /\ rleft \in Seq(1 .. k)
  OBVIOUS
<1>. QED
  BY <1>2, <1>3, <1>4, <1>5 DEF TypeInv, OpenFile, Visits, ReaderTypes

----------------------------------------------------------------------------
(* The steps keep the types                                                *)

\* What reaches the current file and what is left make up the same whole.
LEMMA TypesWritten ==
    ASSUME NEW N \in Nat, NEW U \in Nat, Held(files, N, U),
           NEW t \in Seq(Pieces(N, U)), NEW n \in 0 .. Len(t),
           current_file \in DOMAIN files,
           Begun(files[current_file] \o t, current_file),
           files' = [files EXCEPT ![current_file] = files[current_file] \o SubSeq(t, 1, n)],
           buffer' = SubSeq(t, n + 1, Len(t))
    PROVE  /\ Held(files', N, U) /\ buffer' \in Seq(Pieces(N, U))
           /\ DOMAIN files' = DOMAIN files
           /\ Begun(files'[current_file] \o buffer', current_file)
<1>1. PICK f \in 1 .. N : f = current_file /\ f \in DOMAIN files
  BY DEF Held
<1>2. PICK Q : Q = Pieces(N, U) /\ Q \subseteq P
  <2>1. N <= N /\ U <= U
    OBVIOUS
  <2>2. Pieces(N, U) \subseteq P
    BY <2>1, PiecesGrow
  <2>. QED
    BY <2>2
<1>3. PICK a \in Seq(Q) : a = files[f]
  BY <1>1, <1>2 DEF Held
<1>4. t \in Seq(Q) /\ t \in Seq(P) /\ a \in Seq(P)
  BY <1>2, SeqGrows
<1> DEFINE b == SubSeq(t, 1, n)
           r == SubSeq(t, n + 1, Len(t))
<1>5. (a \o b) \o r = a \o t /\ \A i \in 1 .. Len(a \o b) : (a \o b)[i] = (a \o t)[i]
  BY <1>4, SplitWhole
<1>6. b \in Seq(Q) /\ r \in Seq(Q) /\ a \o b \in Seq(Q)
  <2>1. Len(t) \in Nat /\ \A i \in 1 .. Len(t) : t[i] \in Q
    BY <1>4
  <2>2. b \in Seq(Q)
    <3>1. 1 \in Int /\ n \in Int /\ \A i \in 1 .. n : t[i] \in Q
      BY <2>1
    <3>. QED
      BY <3>1, SubSeqProperties, Zenon
  <2>3. r \in Seq(Q)
    <3>1. \A i \in n + 1 .. Len(t) : t[i] \in Q
      BY <2>1
    <3>. QED
      BY <2>1, <3>1, SubSeqProperties
  <2>. HIDE DEF b, r
  <2>. QED
    BY <2>2, <2>3, ConcatProperties
<1>7. buffer' = r
  OBVIOUS
<1>. HIDE DEF b, r
<1>8. PICK s \in Seq(Q) : s = a \o b
  BY <1>6
<1>9. files' = [files EXCEPT ![f] = s]
  BY <1>1, <1>3, <1>8 DEF b
<1>10. /\ DOMAIN files' = DOMAIN files /\ files'[f] = s
       /\ \A g \in DOMAIN files \ {f} : files'[g] = files[g]
  BY <1>1, <1>9 DEF Held
<1>11. Begun(s \o r, f)
  BY <1>1, <1>3, <1>5, <1>8
<1>12. s # <<>> => s[1] = FileHeader(f)
  <2>1. s # <<>> => 1 \in 1 .. Len(s)
    OBVIOUS
  <2>. QED
    BY <1>1, <1>3, <1>5, <1>8, <2>1 DEF Begun
<1>13. Held(files', N, U)
  <2>1. files' \in [DOMAIN files -> Seq(Q)]
    BY <1>2, <1>9 DEF Held
  <2>2. \A g \in DOMAIN files : files'[g] # <<>> => files'[g][1] = FileHeader(g)
    BY <1>10, <1>12 DEF Held
  <2>3. DOMAIN files' \subseteq 1 .. N
    BY <1>10 DEF Held
  <2>. QED
    BY <1>2, <1>10, <2>1, <2>2, <2>3 DEF Held
<1>. QED
  BY <1>1, <1>2, <1>6, <1>7, <1>10, <1>11, <1>13

\* Steps that leave the numbers and the pieces alone.
LEMMA SameTop ==
    ASSUME UNCHANGED <<uid, sessions, scanning>>
    PROVE  Top' = Top
  BY DEF Top

\* The steps of the writer. A session takes its number only when its file
\* is opened, so beginning the scan leaves the largest number as it is.
LEMMA ScanBeginTypes ==
    ASSUME TypeInv, ScanBegin
    PROVE  TypeInv'
<1>1. /\ ~opened /\ ~scanning /\ tleft = {} /\ sessions < MaxSessions
      /\ scanning' = TRUE /\ sleft' = DOMAIN files /\ sessions' = sessions + 1
      /\ UNCHANGED <<files, opened, current_file, current_seq, entry_count, buffer, max_seq,
                     tleft, tseq, rpc, rleft, rafter, rmax, entries, uid>>
  BY DEF ScanBegin, truncate, reader
<1>2. PICK n \in Nat : n = Top
  BY DEF TypeInv, Counted
<1>3. uid \in Nat /\ sessions \in Nat /\ MaxSessions \in Nat /\ FirstSeq \in Nat
  BY ConstantsAssumption DEF TypeInv, Counted
<1>4. Top' = n
  BY <1>1, <1>2, <1>3 DEF Top
<1>5. Counted(n)'
  <2>1. sessions' \in 0 .. MaxSessions
    BY <1>1, <1>3
  <2>2. opened' \in BOOLEAN /\ scanning' \in BOOLEAN
    BY <1>1, <1>2 DEF TypeInv, Counted
  <2>. QED
    BY <1>1, <1>2, <2>1, <2>2 DEF TypeInv, Counted
<1>6. OpenFile(n)' /\ Held(files', n, uid') /\ buffer' \in Seq(Pieces(n, uid')) /\ ReaderTypes(n, uid)'
  BY <1>1, <1>2 DEF TypeInv, OpenFile, ReaderTypes
<1>7. Visits(n)'
  <2>1. sessions' > 0
    BY <1>1, <1>3
  <2>. QED
    BY <1>1, <1>2, <2>1 DEF TypeInv, Visits
<1>. QED
  BY <1>4, <1>5, <1>6, <1>7 DEF TypeInv

\* The last number in a file, or in its name, is one of those given.
LEMMA LastNumber ==
    ASSUME NEW n \in Nat, NEW u \in Nat, Held(files, n, u), NEW f \in DOMAIN files
    PROVE  GetLastSeqInFile(f) \in 0 .. n
<1>1. PICK s \in Seq(Pieces(n, u)) : s = files[f]
  BY DEF Held
<1>2. CASE s = <<>>
  BY <1>1, <1>2 DEF GetLastSeqInFile
<1>3. CASE s # <<>>
  <2>1. Len(s) \in 1 .. Len(s)
    BY <1>3
  <2>2. s[Len(s)] \in Pieces(n, u)
    BY <2>1
  <2>3. s[Len(s)].seq \in 1 .. n
    BY <2>2 DEF Pieces
  <2>. QED
    BY <1>1, <1>3, <2>3 DEF GetLastSeqInFile, Last
<1>. QED
  BY <1>2, <1>3

\* Init looks at the last number of a file or at its name.
LEMMA ScanVisitTypes ==
    ASSUME TypeInv, NEW f \in sleft, ScanVisit(f)
    PROVE  TypeInv'
<1>1. /\ sleft' = sleft \ {f}
      /\ max_seq' = IF f > max_seq THEN GetLastSeqInFile(f) ELSE max_seq
      /\ UNCHANGED <<files, opened, current_file, current_seq, entry_count, buffer, scanning,
                     tleft, tseq, rpc, rleft, rafter, rmax, entries, uid, sessions>>
  BY DEF ScanVisit, truncate, reader
<1>2. PICK n \in Nat : n = Top
  BY DEF TypeInv, Counted
<1>3. Top' = n
  BY <1>1, <1>2, SameTop
<1>4. f \in DOMAIN files
  <2>1. scanning \in BOOLEAN
    BY DEF TypeInv, Counted
  <2>. QED
    BY <2>1 DEF TypeInv, Visits
<1>5. GetLastSeqInFile(f) \in 0 .. n
  <2>1. uid \in Nat
    BY DEF TypeInv, Counted
  <2>. QED
    BY <1>2, <1>4, <2>1, LastNumber DEF TypeInv
<1>6. Counted(n)'
  BY <1>1, <1>2, <1>5 DEF TypeInv, Counted
<1>7. Visits(n)'
  BY <1>1, <1>2 DEF TypeInv, Visits
<1>8. OpenFile(n)' /\ Held(files', n, uid') /\ buffer' \in Seq(Pieces(n, uid')) /\ ReaderTypes(n, uid)'
  BY <1>1, <1>2 DEF TypeInv, OpenFile, ReaderTypes
<1>. QED
  BY <1>3, <1>6, <1>7, <1>8 DEF TypeInv

\* The new file takes the number of the session.
LEMMA OpenWriterTypes ==
    ASSUME TypeInv, OpenWriter
    PROVE  TypeInv'
<1>1. PICK c \in Nat : c = max_seq
  BY DEF TypeInv, Counted
<1>2. /\ scanning /\ sleft = {} /\ current_seq' = c /\ current_file' = c + 1
      /\ buffer' = <<FileHeader(c + 1)>> /\ opened' = TRUE /\ entry_count' = 0
      /\ scanning' = FALSE /\ max_seq' = 0 /\ sleft' = {}
      /\ UNCHANGED <<tleft, tseq, rpc, rleft, rafter, rmax, entries, uid, sessions>>
      /\ files' = [f \in DOMAIN files \cup {c + 1} |-> IF f = c + 1 THEN <<>> ELSE files[f]]
  BY <1>1 DEF OpenWriter, CreateNewFile, truncate, reader
<1>3. PICK n \in Nat : n = Top
  BY DEF TypeInv, Counted
<1>4. uid \in Nat /\ sessions \in Nat /\ FirstSeq \in Nat /\ c <= n
  BY <1>1, <1>3, ConstantsAssumption DEF TypeInv, Counted
<1>5. Top' = n + 1
  BY <1>2, <1>3, <1>4 DEF Top
<1>6. Counted(n + 1)'
  <2>1. opened' \in BOOLEAN /\ scanning' \in BOOLEAN
    BY <1>2
  <2>2. n + 1 \in Nat /\ c \in 0 .. n + 1 /\ c + 1 \in 0 .. n + 1 /\ 0 \in 0 .. n + 1 /\ 0 \in 0 .. uid
    BY <1>4
  <2>. QED
    BY <1>2, <2>1, <2>2 DEF TypeInv, Counted
<1>7. FileHeader(c + 1) \in Pieces(n + 1, uid)
  BY <1>4 DEF Pieces, FileHeader
<1>8. PICK h \in Pieces(n + 1, uid) : h = FileHeader(c + 1)
  BY <1>7
<1>9. <<h>> \in Seq(Pieces(n + 1, uid)) /\ <<h>> # <<>> /\ <<h>>[1] = h
  OBVIOUS
<1>10. Held(files', n + 1, uid)
  <2>1. Held(files, n + 1, uid)
    BY <1>3, <1>4, HeldGrows DEF TypeInv
  <2>2. <<>> \in Seq(Pieces(n + 1, uid)) /\ c + 1 \in 1 .. n + 1
    BY <1>4
  <2>3. DOMAIN files' = DOMAIN files \cup {c + 1}
    BY <1>2
  <2>4. files' \in [DOMAIN files' -> Seq(Pieces(n + 1, uid))]
    BY <1>2, <2>1, <2>2 DEF Held
  <2>5. \A f \in DOMAIN files' : files'[f] # <<>> => files'[f][1] = FileHeader(f)
    BY <1>2, <2>1 DEF Held
  <2>. QED
    BY <2>1, <2>2, <2>3, <2>4, <2>5 DEF Held
<1>11. OpenFile(n + 1)'
  <2>1. files'[c + 1] = <<>> /\ c + 1 \in DOMAIN files'
    BY <1>2
  <2>2. <<>> \o <<h>> = <<h>>
    BY <1>9, ConcatEmptySeq
  <2>3. files'[c + 1] \o buffer' = <<h>>
    BY <1>2, <1>8, <2>1, <2>2
  <2>4. Begun(files'[c + 1] \o buffer', c + 1)
    BY <1>8, <1>9, <2>3 DEF Begun
  <2>5. c < n + 1 /\ c + 1 = c + 1 + 0
    BY <1>4
  <2>. QED
    BY <1>2, <2>1, <2>4, <2>5 DEF OpenFile
<1>12. Visits(n + 1)'
  <2>1. tleft = {}
    BY <1>2 DEF TypeInv, Visits
  <2>. QED
    BY <1>2, <2>1 DEF TypeInv, Visits
<1>13. ReaderTypes(n + 1, uid)'
  BY <1>2, <1>3, <1>4, ReaderTypesGrow DEF TypeInv
<1>. QED
  BY <1>2, <1>5, <1>6, <1>8, <1>9, <1>10, <1>11, <1>12, <1>13 DEF TypeInv

\* Pieces added to the buffer do not change how the file begins.
LEMMA BegunExtended ==
    ASSUME NEW a \in Seq(P), NEW b \in Seq(P), NEW x \in Seq(P), NEW f, Begun(a \o b, f)
    PROVE  Begun(a \o (b \o x), f)
<1>1. PICK w \in Seq(P) : w = a \o b
  BY ConcatProperties
<1>2. PICK v \in Seq(P) : v = w \o x
  BY ConcatProperties
<1>3. v = a \o (b \o x)
  <2>1. (a \o b) \o x = a \o (b \o x)
    BY Regrouped, SMTT(60)
  <2>. QED
    BY <1>1, <1>2, <2>1
<1>4. w # <<>> /\ w[1] = FileHeader(f)
  BY <1>1 DEF Begun
<1>5. v # <<>> /\ v[1] = w[1]
  BY <1>2, <1>4
<1>. QED
  BY <1>3, <1>4, <1>5 DEF Begun

\* An entry takes a number, and so does its uid.
LEMMA AppendTypes ==
    ASSUME TypeInv, NEW hasData \in BOOLEAN, Append_(hasData)
    PROVE  TypeInv'
<1>1. PICK n \in Nat : n = Top
  BY DEF TypeInv, Counted
<1>2. PICK c \in Nat, u \in Nat : c = current_seq /\ u = uid
  BY DEF TypeInv, Counted
<1>3. /\ opened /\ u < MaxAppends
      /\ current_seq' = c + 1 /\ entry_count' = entry_count + 1 /\ uid' = u + 1
      /\ UNCHANGED <<opened, current_file, scanning, sleft, max_seq, tleft, tseq,
                     rpc, rleft, rafter, rmax, entries, sessions>>
  BY <1>2 DEF Append_, scan, truncate, reader
<1>4. /\ sessions \in Nat /\ FirstSeq \in Nat /\ MaxAppends \in Nat
      /\ scanning \in BOOLEAN /\ ~scanning /\ current_file \in DOMAIN files /\ c < n
  BY <1>1, <1>2, <1>3, ConstantsAssumption DEF TypeInv, Counted, Visits, OpenFile
<1>5. Top' = n + 1
  BY <1>1, <1>2, <1>3, <1>4 DEF Top
<1>6. Counted(n + 1)'
  <2>1. opened' \in BOOLEAN /\ scanning' \in BOOLEAN
    BY <1>3 DEF TypeInv, Counted
  <2>2. /\ uid' \in 0 .. MaxAppends /\ sessions' \in 0 .. MaxSessions
        /\ entry_count' \in 0 .. uid' /\ current_seq' \in 0 .. n + 1
        /\ current_file' \in 0 .. n + 1 /\ max_seq' \in 0 .. n + 1
    BY <1>1, <1>2, <1>3, <1>4 DEF TypeInv, Counted
  <2>. QED
    BY <2>1, <2>2 DEF Counted
<1> DEFINE Q == Pieces(n + 1, u + 1)
<1>7. Held(files, n + 1, u + 1) /\ Q \subseteq P /\ Pieces(n, u) \subseteq Q
  <2>1. n <= n + 1 /\ u <= u + 1 /\ n + 1 \in Nat /\ u + 1 \in Nat
    BY <1>4
  <2>. QED
    BY <1>1, <1>2, <2>1, HeldGrows, PiecesGrow DEF TypeInv
<1>8. PICK b \in Seq(Q) : b = buffer
  BY <1>1, <1>2, <1>7, SeqGrows DEF TypeInv
<1>9. PICK h \in Q, g \in Q : h = EntryHeader(c + 1, u + 1) /\ g = EntryData(c + 1, u + 1)
  <2>1. c + 1 \in 1 .. n + 1 /\ u + 1 \in 0 .. u + 1
    BY <1>4
  <2>. QED
    BY <2>1 DEF Pieces, EntryHeader, EntryData
<1>. HIDE DEF Q
<1>10. PICK y \in Seq(Q) : y = IF hasData THEN <<g>> ELSE <<>>
  <2>1. <<g>> \in Seq(Q) /\ <<>> \in Seq(Q)
    OBVIOUS
  <2>. QED
    BY <2>1, Zenon
<1>11. <<h>> \in Seq(Q) /\ Append(b, h) = b \o <<h>> /\ <<h>> \o y \in Seq(Q)
  <2>1. <<h>> \in Seq(Q) /\ Append(b, h) = b \o <<h>>
    OBVIOUS
  <2>. QED
    BY <2>1, ConcatProperties
<1>12. PICK x \in Seq(Q) : x = <<h>> \o y
  BY <1>11
<1>13. Append(b, h) \o y = b \o x
  BY <1>11, <1>12, ConcatAssociative
<1>14. PICK t \in Seq(Q) : t = b \o x
  BY ConcatProperties
<1>15. Len(x) >= 1
  <2>1. Len(x) = Len(<<h>>) + Len(y)
    BY <1>11, <1>12, ConcatProperties
  <2>2. Len(<<h>>) = 1 /\ Len(y) \in Nat
    OBVIOUS
  <2>. QED
    BY <2>1, <2>2
<1>16. PICK k \in 0 .. Len(t) : WriteOut(t, k)
  <2>1. \E k \in {0, Len(b) + 1, Len(t)} : WriteOut(t, k)
    <3>1. \E k \in IF (entry_count + 1) % SyncInterval = 0 THEN {Len(t)}
                    ELSE {0, Len(b) + 1, Len(t)} : WriteOut(t, k)
      BY <1>2, <1>8, <1>9, <1>10, <1>13, <1>14 DEF Append_
    <3>. QED
      BY <3>1
  <2>2. Len(t) = Len(b) + Len(x)
    BY <1>14, ConcatProperties
  <2>3. Len(b) \in Nat /\ Len(t) \in Nat /\ Len(x) \in Nat /\ Len(b) + 1 \in 0 .. Len(t)
    BY <1>15, <2>2, LenProperties
  <2>. QED
    BY <2>1, <2>3
<1>17. Begun(files[current_file] \o t, current_file)
  <2>1. PICK a \in Seq(Q) : a = files[current_file]
    BY <1>4, <1>7 DEF Held, Q
  <2>2. Begun(a \o b, current_file)
    BY <1>3, <1>8, <2>1 DEF TypeInv, OpenFile
  <2>3. a \in Seq(P) /\ b \in Seq(P) /\ x \in Seq(P)
    BY <1>7, SeqGrows
  <2>. QED
    BY <1>14, <2>1, <2>2, <2>3, BegunExtended
<1>18. /\ Held(files', n + 1, u + 1) /\ buffer' \in Seq(Q)
       /\ DOMAIN files' = DOMAIN files
       /\ Begun(files'[current_file] \o buffer', current_file)
  <2>1. n + 1 \in Nat /\ u + 1 \in Nat
    OBVIOUS
  <2>2. /\ files' = [files EXCEPT ![current_file] = files[current_file] \o SubSeq(t, 1, k)]
        /\ buffer' = SubSeq(t, k + 1, Len(t))
    BY <1>16 DEF WriteOut
  <2>. QED
    BY <1>4, <1>7, <1>17, <2>1, <2>2, TypesWritten DEF Q
<1>19. OpenFile(n + 1)'
  <2>1. current_seq' < n + 1 /\ current_seq' + 1 = current_file' + entry_count'
    BY <1>1, <1>2, <1>3, <1>4 DEF TypeInv, Counted, OpenFile
  <2>. QED
    BY <1>3, <1>4, <1>18, <2>1 DEF OpenFile
<1>20. Visits(n + 1)'
  <2>1. tleft \subseteq 1 .. n + 1
    BY <1>1 DEF TypeInv, Visits
  <2>. QED
    BY <1>3, <1>4, <2>1 DEF TypeInv, Visits
<1>21. ReaderTypes(n + 1, u + 1)'
  <2>1. n + 1 \in Nat /\ u + 1 \in Nat /\ n <= n + 1 /\ u <= u + 1
    OBVIOUS
  <2>. QED
    BY <1>1, <1>2, <1>3, <2>1, ReaderTypesGrow DEF TypeInv
<1>. QED
  BY <1>3, <1>5, <1>6, <1>18, <1>19, <1>20, <1>21 DEF TypeInv, Q

\* Sync writes out all of the buffer.
LEMMA SyncTypes ==
    ASSUME TypeInv, Sync
    PROVE  TypeInv'
<1>1. PICK n \in Nat, t \in Seq(Pieces(Top, uid)) : n = Top /\ t = buffer
  BY DEF TypeInv, Counted
<1>2. /\ opened /\ WriteOut(t, Len(t))
      /\ UNCHANGED <<opened, current_file, current_seq, entry_count, scanning, sleft, max_seq,
                     tleft, tseq, rpc, rleft, rafter, rmax, entries, uid, sessions>>
  BY <1>1 DEF Sync, scan, truncate, reader
<1>3. Top' = n
  BY <1>1, <1>2, SameTop
<1>4. /\ Held(files', n, uid) /\ buffer' \in Seq(Pieces(n, uid))
      /\ DOMAIN files' = DOMAIN files
      /\ Begun(files'[current_file] \o buffer', current_file)
  <2>1. Len(t) \in 0 .. Len(t) /\ uid \in Nat /\ t \in Seq(Pieces(n, uid))
    BY <1>1, LenProperties DEF TypeInv, Counted
  <2>2. /\ Held(files, n, uid) /\ current_file \in DOMAIN files
        /\ Begun(files[current_file] \o t, current_file)
    BY <1>1, <1>2 DEF TypeInv, OpenFile
  <2>3. /\ files' = [files EXCEPT ![current_file] = files[current_file] \o SubSeq(t, 1, Len(t))]
        /\ buffer' = SubSeq(t, Len(t) + 1, Len(t))
    BY <1>2 DEF WriteOut
  <2>. QED
    BY <2>1, <2>2, <2>3, TypesWritten
<1>5. Counted(n)' /\ ReaderTypes(n, uid)'
  BY <1>1, <1>2 DEF TypeInv, Counted, ReaderTypes
<1>6. OpenFile(n)' /\ Visits(n)'
  BY <1>1, <1>2, <1>4 DEF TypeInv, OpenFile, Visits
<1>. QED
  BY <1>2, <1>3, <1>4, <1>5, <1>6 DEF TypeInv

\* Close writes a header over the one the file begins with.
LEMMA CloseTypes ==
    ASSUME TypeInv, Close
    PROVE  TypeInv'
<1>1. PICK n \in Nat, t \in Seq(Pieces(Top, uid)), f \in Nat :
          n = Top /\ t = buffer /\ f = current_file /\ f \in DOMAIN files
  BY DEF Close, TypeInv, Counted, OpenFile
<1>2. /\ opened /\ opened' = FALSE /\ buffer' = <<>>
      /\ files' = [files EXCEPT ![f] = UpdateFileHeader(files[f] \o t)]
      /\ UNCHANGED <<current_file, current_seq, entry_count, scanning, sleft, max_seq,
                     tleft, tseq, rpc, rleft, rafter, rmax, entries, uid, sessions>>
  BY <1>1 DEF Close, scan, truncate, reader
<1>3. Top' = n
  BY <1>1, <1>2, SameTop
<1>4. /\ Held(files, n, uid) /\ uid \in Nat /\ current_seq - entry_count + 1 = f
      /\ Begun(files[f] \o t, f)
  BY <1>1, <1>2 DEF TypeInv, Counted, OpenFile
<1>5. PICK w \in Seq(Pieces(n, uid)) : w = files[f] \o t
  <2>1. files[f] \in Seq(Pieces(n, uid)) /\ t \in Seq(Pieces(n, uid))
    BY <1>1, <1>4 DEF Held
  <2>. QED
    BY <2>1, ConcatProperties
<1>6. UpdateFileHeader(files[f] \o t) = w
  <2>1. w # <<>> /\ w[1] = FileHeader(f)
    BY <1>4, <1>5 DEF Begun
  <2>2. FileHeader(f) \in P /\ w \in Seq(P)
    <3>1. n <= n /\ uid <= uid
      BY <1>4
    <3>2. Pieces(n, uid) \subseteq P
      BY <1>4, <3>1, PiecesGrow
    <3>. QED
      BY <3>2, SeqGrows DEF P, FileHeader
  <2>3. <<FileHeader(f)>> \o Tail(w) = w
    BY <2>1, <2>2, SameHead
  <2>. QED
    BY <1>4, <1>5, <2>3 DEF UpdateFileHeader
<1>7. Held(files', n, uid) /\ DOMAIN files' = DOMAIN files
  <2>1. files' = [files EXCEPT ![f] = w]
    BY <1>2, <1>6
  <2>2. w[1] = FileHeader(f)
    BY <1>4, <1>5 DEF Begun
  <2>3. DOMAIN files' = DOMAIN files /\ files' \in [DOMAIN files -> Seq(Pieces(n, uid))]
    BY <1>4, <2>1 DEF Held
  <2>4. \A g \in DOMAIN files' : files'[g] = IF g = f THEN w ELSE files[g]
    BY <1>4, <2>1 DEF Held
  <2>. QED
    BY <1>4, <2>2, <2>3, <2>4 DEF Held
<1>8. Counted(n)' /\ ReaderTypes(n, uid)'
  <2>1. opened' \in BOOLEAN
    BY <1>2
  <2>. QED
    BY <1>1, <1>2, <2>1 DEF TypeInv, Counted, ReaderTypes
<1>9. OpenFile(n)' /\ Visits(n)'
  BY <1>1, <1>2, <1>7 DEF TypeInv, OpenFile, Visits
<1>10. buffer' \in Seq(Pieces(n, uid))
  BY <1>2
<1>. QED
  BY <1>2, <1>3, <1>7, <1>8, <1>9, <1>10 DEF TypeInv

\* A crash leaves the files as they are and forgets the rest.
LEMMA CrashTypes ==
    ASSUME TypeInv, Crash
    PROVE  TypeInv'
<1>1. /\ opened' = FALSE /\ scanning' = FALSE /\ sleft' = {} /\ max_seq' = 0
      /\ current_file' = 0 /\ current_seq' = 0 /\ entry_count' = 0 /\ buffer' = <<>>
      /\ tleft' = {} /\ tseq' = 0
      /\ UNCHANGED <<files, rpc, rleft, rafter, rmax, entries, uid, sessions>>
  BY DEF Crash, reader
<1>2. PICK n \in Nat : n = Top
  BY DEF TypeInv, Counted
<1>3. uid \in Nat /\ sessions \in Nat /\ FirstSeq \in Nat
  BY ConstantsAssumption DEF TypeInv, Counted
<1>4. PICK m \in Nat : m = Top' /\ n <= m
  <2>1. Top' = FirstSeq - 1 + uid + sessions
    BY <1>1, <1>3 DEF Top
  <2>2. Top = FirstSeq - 1 + uid + sessions \/ Top = FirstSeq - 1 + uid + sessions - 1
    BY <1>3 DEF Top
  <2>. QED
    BY <1>2, <1>3, <2>1, <2>2
<1>5. uid <= uid
  BY <1>3
<1>6. Held(files', m, uid) /\ ReaderTypes(m, uid)'
  BY <1>1, <1>2, <1>3, <1>4, <1>5, HeldGrows, ReaderTypesGrow DEF TypeInv
<1>7. Counted(m)'
  <2>1. opened' \in BOOLEAN /\ scanning' \in BOOLEAN
    BY <1>1
  <2>2. 0 \in 0 .. m /\ 0 \in 0 .. uid
    BY <1>3
  <2>. QED
    BY <1>1, <2>1, <2>2 DEF TypeInv, Counted
<1>8. OpenFile(m)' /\ Visits(m)' /\ buffer' \in Seq(Pieces(m, uid))
  BY <1>1 DEF OpenFile, Visits
<1>. QED
  BY <1>1, <1>4, <1>6, <1>7, <1>8 DEF TypeInv

\* TruncateBefore takes the names of the files there are.
LEMMA TruncateBeforeTypes ==
    ASSUME TypeInv, NEW k \in Cutoffs, TruncateBefore(k)
    PROVE  TypeInv'
<1>1. /\ opened /\ tleft' = DOMAIN files /\ tseq' = k
      /\ UNCHANGED <<files, opened, current_file, current_seq, entry_count, buffer, scanning,
                     sleft, max_seq, rpc, rleft, rafter, rmax, entries, uid, sessions>>
  BY DEF TruncateBefore, writer, scan, reader
<1>2. Top' = Top
  BY <1>1, SameTop
<1>3. Counted(Top)' /\ OpenFile(Top)' /\ ReaderTypes(Top, uid)'
  BY <1>1, <1>2 DEF TypeInv, Counted, OpenFile, ReaderTypes
<1>4. Visits(Top)'
  <2>1. scanning \in BOOLEAN /\ ~scanning
    BY <1>1 DEF TypeInv, Counted, Visits
  <2>. QED
    BY <1>1, <1>2, <2>1 DEF TypeInv, Visits, Held
<1>. QED
  BY <1>1, <1>2, <1>3, <1>4 DEF TypeInv

\* A file that goes was not the current one.
LEMMA TruncateVisitTypes ==
    ASSUME TypeInv, NEW f \in tleft, TruncateVisit(f)
    PROVE  TypeInv'
<1>1. /\ tleft' = tleft \ {f}
      /\ files' = IF GetLastSeqInFile(f) < tseq /\ f # current_file
                  THEN [g \in DOMAIN files \ {f} |-> files[g]]
                  ELSE files
      /\ UNCHANGED <<opened, current_file, current_seq, entry_count, buffer, scanning, sleft,
                     max_seq, tseq, rpc, rleft, rafter, rmax, entries, uid, sessions>>
  BY DEF TruncateVisit, writer, scan, reader
<1>2. Top' = Top
  BY <1>1, SameTop
<1>3. Counted(Top)' /\ ReaderTypes(Top, uid)'
  BY <1>1, <1>2 DEF TypeInv, Counted, ReaderTypes
<1>4. Visits(Top)'
  <2>1. scanning \in BOOLEAN /\ ~scanning
    BY DEF TypeInv, Counted, Visits
  <2>. QED
    BY <1>1, <1>2, <2>1 DEF TypeInv, Visits
<1>5. CASE files' = files
  BY <1>1, <1>2, <1>3, <1>4, <1>5 DEF TypeInv, OpenFile
<1>6. CASE files' = [g \in DOMAIN files \ {f} |-> files[g]] /\ f # current_file
  <2>1. DOMAIN files' \subseteq DOMAIN files /\ \A g \in DOMAIN files' : files'[g] = files[g]
    BY <1>6
  <2>2. Held(files', Top, uid)
    BY <1>6, <2>1 DEF TypeInv, Held
  <2>3. OpenFile(Top)'
    <3>1. current_file \in DOMAIN files => files'[current_file] = files[current_file]
      BY <1>6
    <3>. QED
      BY <1>1, <1>2, <1>6, <3>1 DEF TypeInv, OpenFile
  <2>. QED
    BY <1>1, <1>2, <1>3, <1>4, <2>2, <2>3 DEF TypeInv
<1>. QED
  BY <1>1, <1>5, <1>6

\* The names of the files of a directory, in some order.
LEMMA NamesListed ==
    ASSUME NEW S, IsFiniteSet(S), NEW names \in SetToSeqs(S)
    PROVE  /\ names \in Seq(S) /\ DOMAIN names = 1 .. Len(names)
           /\ \A x \in S : \E i \in 1 .. Len(names) : names[i] = x
<1>1. PICK n \in Nat : n = Cardinality(S)
  BY FS_CardinalityType
<1>2. names \in [1 .. n -> S] /\ \A i, j \in 1 .. n : i # j => names[i] # names[j]
  BY <1>1 DEF SetToSeqs
<1>3. names \in Seq(S) /\ Len(names) = n /\ DOMAIN names = 1 .. n
  BY <1>2
<1>4. \A x \in S : \E i \in 1 .. n : names[i] = x
  <2>1. names \in Injection(1 .. n, S)
    BY <1>2 DEF Injection, IsInjective
  <2>2. Cardinality(1 .. n) = n
    BY FS_Interval
  <2>3. names \in Surjection(1 .. n, S)
    BY <1>1, <2>1, <2>2, FS_Injection
  <2>. QED
    BY <2>3 DEF Surjection
<1>. QED
  BY <1>3, <1>4

\* There are only so many files.
LEMMA FilesFinite ==
    ASSUME TypeInv
    PROVE  IsFiniteSet(DOMAIN files)
<1>1. PICK n \in Nat : n = Top /\ DOMAIN files \subseteq 1 .. n
  BY DEF TypeInv, Counted, Held
<1>2. DOMAIN files \in SUBSET Nat /\ \A f \in DOMAIN files : f <= n
  BY <1>1
<1>. QED
  BY <1>2, FS_BoundedSetOfNaturals

\* The reader sorts the names it found.
LEMMA ReadCallTypes ==
    ASSUME TypeInv, NEW after \in Afters, NEW max_count \in BatchSizes,
           ReadCall(after, max_count)
    PROVE  TypeInv'
<1>1. /\ rpc' = "read" /\ rafter' = after /\ rmax' = max_count /\ entries' = <<>>
      /\ UNCHANGED <<files, opened, current_file, current_seq, entry_count, buffer, scanning,
                     sleft, max_seq, tleft, tseq, uid, sessions>>
  BY DEF ReadCall, writer, scan, truncate
<1>2. Top' = Top
  BY <1>1, SameTop
<1>3. rleft' \in SetToSeqs(DOMAIN files)
  BY DEF ReadCall
<1>4. rleft' \in Seq(1 .. Top)
  <2>1. rleft' \in Seq(DOMAIN files)
    BY <1>3, FilesFinite, NamesListed
  <2>2. DOMAIN files \subseteq 1 .. Top
    BY DEF TypeInv, Held
  <2>. QED
    BY <2>1, <2>2, SeqGrows
<1>5. ReaderTypes(Top, uid)'
  <2>1. rpc' \in {"idle", "read"} /\ entries' \in Seq(Pieces(Top, uid))
    BY <1>1
  <2>. QED
    BY <1>1, <1>2, <1>4, <2>1 DEF ReaderTypes
<1>6. Counted(Top)' /\ OpenFile(Top)' /\ Visits(Top)'
  BY <1>1, <1>2 DEF TypeInv, Counted, OpenFile, Visits
<1>. QED
  BY <1>1, <1>2, <1>5, <1>6 DEF TypeInv

\* What ReadFile makes of the entries all that it has then.
LEMMA Cut ==
    ASSUME NEW S, NEW all \in Seq(S), NEW m \in Nat, m > 0, Len(all) >= m
    PROVE  SubSeq(all, 1, m) \in Seq(S) /\ Len(SubSeq(all, 1, m)) = m
           /\ \A i \in 1 .. m : SubSeq(all, 1, m)[i] = all[i]
<1>1. 1 \in Int /\ m \in Int /\ \A i \in 1 .. m : all[i] \in S
  OBVIOUS
<1>2. /\ SubSeq(all, 1, m) \in Seq(S)
      /\ Len(SubSeq(all, 1, m)) = IF 1 <= m THEN m - 1 + 1 ELSE 0
      /\ \A i \in 1 .. m - 1 + 1 : SubSeq(all, 1, m)[i] = all[1 + i - 1]
  BY <1>1, SubSeqProperties
<1>3. \A i \in 1 .. m : i \in 1 .. m - 1 + 1 /\ 1 + i - 1 = i
  OBVIOUS
<1>4. \A i \in 1 .. m : SubSeq(all, 1, m)[i] = all[i]
  BY <1>2, <1>3
<1>5. (IF 1 <= m THEN m - 1 + 1 ELSE 0) = m
  OBVIOUS
<1>. QED
  BY <1>2, <1>4, <1>5

\* What is found in a file are pieces of it.
LEMMA ReadFileTypes ==
    ASSUME TypeInv, ReadFile
    PROVE  TypeInv'
<1>1. /\ rpc = "read" /\ rleft # <<>>
      /\ UNCHANGED <<files, opened, current_file, current_seq, entry_count, buffer, scanning,
                     sleft, max_seq, tleft, tseq, uid, sessions, rpc, rafter, rmax>>
  BY DEF ReadFile, writer, scan, truncate
<1>2. PICK n \in Nat : n = Top
  BY DEF TypeInv, Counted
<1>3. Top' = n
  BY <1>1, <1>2, SameTop
<1>4. PICK Q : Q = Pieces(n, uid) /\ Q \in SUBSET P
  <2>1. uid \in Nat /\ uid <= uid /\ n <= n
    BY DEF TypeInv, Counted
  <2>2. Pieces(n, uid) \subseteq P
    BY <2>1, PiecesGrow
  <2>. QED
    BY <2>2
<1>5. PICK found \in Seq(Q) :
        found = IF Head(rleft) \in DOMAIN files THEN Found(files[Head(rleft)], rafter) ELSE <<>>
  <2>1. CASE Head(rleft) \in DOMAIN files
    <3>1. files[Head(rleft)] \in Seq(Q)
      BY <1>2, <1>4, <2>1 DEF TypeInv, Held
    <3>. QED
      BY <1>4, <2>1, <3>1, FoundIs
  <2>2. CASE Head(rleft) \notin DOMAIN files
    <3>1. <<>> \in Seq(Q)
      OBVIOUS
    <3>. QED
      BY <2>2, <3>1
  <2>. QED
    BY <2>1, <2>2
<1>6. PICK all \in Seq(Q) : all = entries \o found
  <2>1. entries \in Seq(Q)
    BY <1>2, <1>4 DEF TypeInv, ReaderTypes
  <2>. QED
    BY <2>1, ConcatProperties
<1>7. LET full == rmax > 0 /\ Len(all) >= rmax
      IN  /\ entries' = IF full THEN SubSeq(all, 1, rmax) ELSE all
          /\ rleft' = IF full THEN <<>> ELSE Tail(rleft)
  BY <1>5, <1>6 DEF ReadFile
<1>8. rmax \in Nat /\ rleft \in Seq(1 .. n)
  BY <1>2, ConstantsAssumption DEF TypeInv, ReaderTypes
<1>9. entries' \in Seq(Q)
  <2>1. CASE rmax > 0 /\ Len(all) >= rmax
    BY <1>7, <1>8, <2>1, Cut
  <2>2. CASE ~(rmax > 0 /\ Len(all) >= rmax)
    BY <1>7, <2>2
  <2>. QED
    BY <2>1, <2>2
<1>10. rleft' \in Seq(1 .. n)
  <2>1. Tail(rleft) \in Seq(1 .. n) /\ <<>> \in Seq(1 .. n)
    BY <1>1, <1>8
  <2>. QED
    BY <1>7, <2>1
<1>11. ReaderTypes(n, uid)'
  BY <1>1, <1>2, <1>4, <1>9, <1>10 DEF TypeInv, ReaderTypes
<1>12. Counted(n)' /\ OpenFile(n)' /\ Visits(n)'
  BY <1>1, <1>2 DEF TypeInv, Counted, OpenFile, Visits
<1>. QED
  BY <1>1, <1>2, <1>3, <1>11, <1>12 DEF TypeInv

\* The reader is idle again.
LEMMA ReadReturnTypes ==
    ASSUME TypeInv, ReadReturn
    PROVE  TypeInv'
<1>1. /\ rpc' = "idle" /\ rafter' = 0 /\ rmax' = 0 /\ entries' = <<>>
      /\ UNCHANGED <<files, opened, current_file, current_seq, entry_count, buffer, scanning,
                     sleft, max_seq, tleft, tseq, uid, sessions, rleft>>
  BY DEF ReadReturn, writer, scan, truncate
<1>2. Top' = Top
  BY <1>1, SameTop
<1>3. ReaderTypes(Top, uid)'
  <2>1. rpc' \in {"idle", "read"} /\ entries' \in Seq(Pieces(Top, uid))
    BY <1>1
  <2>. QED
    BY <1>1, <1>2, <2>1 DEF TypeInv, ReaderTypes
<1>4. Counted(Top)' /\ OpenFile(Top)' /\ Visits(Top)'
  BY <1>1, <1>2 DEF TypeInv, Counted, OpenFile, Visits
<1>. QED
  BY <1>1, <1>2, <1>3, <1>4 DEF TypeInv

\* Every step keeps the types.
LEMMA NextTypes ==
    ASSUME TypeInv, [Next]_vars
    PROVE  TypeInv'
<1>1. CASE UNCHANGED vars
  <2>1. Top' = Top
    BY <1>1, SameTop DEF vars, writer, scan
  <2>. QED
    BY <1>1, <2>1 DEF vars, writer, scan, truncate, reader, TypeInv, Counted, OpenFile, Visits,
                      ReaderTypes
<1>2. CASE ScanBegin \/ OpenWriter \/ Sync \/ Close \/ Crash
  BY <1>2, ScanBeginTypes, OpenWriterTypes, SyncTypes, CloseTypes, CrashTypes
<1>3. ASSUME NEW f \in sleft, ScanVisit(f)
      PROVE  TypeInv'
  BY <1>3, ScanVisitTypes
<1>4. ASSUME NEW hasData \in BOOLEAN, Append_(hasData)
      PROVE  TypeInv'
  BY <1>4, AppendTypes
<1>5. ASSUME NEW k \in Cutoffs, TruncateBefore(k)
      PROVE  TypeInv'
  BY <1>5, TruncateBeforeTypes
<1>6. ASSUME NEW f \in tleft, TruncateVisit(f)
      PROVE  TypeInv'
  BY <1>6, TruncateVisitTypes
<1>7. ASSUME NEW after \in Afters, NEW max_count \in BatchSizes, ReadCall(after, max_count)
      PROVE  TypeInv'
  BY <1>7, ReadCallTypes
<1>8. CASE ReadFile \/ ReadReturn
  BY <1>8, ReadFileTypes, ReadReturnTypes
<1>. QED
  BY <1>1, <1>2, <1>3, <1>4, <1>5, <1>6, <1>7, <1>8 DEF Next

\* The types with the largest number so far are an invariant.
LEMMA TypeInvHolds == Spec => []TypeInv
<1>1. TypeInv /\ [Next]_vars => TypeInv'
  BY NextTypes
<1>. QED
  BY <1>1, InitTypes, PTL DEF Spec

\* The variables keep their types, with numbers up to one for each entry and
\* one for each session, and every file begins with its header: what Append,
\* Sync and Close (zrt_wal_file.h) write to it does, also after any crash.
THEOREM TypesKept == Spec => []TypeOK
<1>1. TypeInv => TypeOK
  <2> SUFFICES ASSUME TypeInv
               PROVE  TypeOK
    OBVIOUS
  <2>1. PICK n \in Nat : n = Top
    BY DEF TypeInv, Counted
  <2>2. /\ uid \in 0 .. MaxAppends /\ sessions \in 0 .. MaxSessions
        /\ FirstSeq \in Nat \ {0} /\ MaxAppends \in Nat /\ MaxSessions \in Nat
        /\ scanning \in BOOLEAN
    BY ConstantsAssumption DEF TypeInv, Counted
  <2>3. n <= FirstSeq + MaxAppends + MaxSessions
    BY <2>1, <2>2 DEF Top
  <2>4. 1 .. n \subseteq Numbers /\ 0 .. n \subseteq Numbers \cup {0}
    BY <2>2, <2>3 DEF Numbers
  <2>5. Pieces(n, uid) \subseteq Piece
    BY <2>4 DEF Pieces, Piece
  <2>6. \A s \in Seq(Pieces(n, uid)) : s \in Seq(Piece)
    BY <2>5, SeqGrows
  <2>7. \A f \in DOMAIN files :
           /\ f \in Numbers
           /\ files[f] \in Seq(Piece)
           /\ files[f] # <<>> => files[f][1] = FileHeader(f)
    BY <2>1, <2>4, <2>6 DEF TypeInv, Held
  <2>8. /\ current_file \in Numbers \cup {0} /\ current_seq \in Numbers \cup {0}
        /\ max_seq \in Numbers \cup {0}
    BY <2>1, <2>4 DEF TypeInv, Counted
  <2>9. entry_count \in 0 .. MaxAppends
    BY <2>2 DEF TypeInv, Counted
  <2>10. opened \in BOOLEAN /\ scanning \in BOOLEAN
    BY DEF TypeInv, Counted
  <2>11. /\ opened => current_file \in DOMAIN files
         /\ scanning => ~opened
         /\ ~opened => buffer = <<>>
         /\ sleft \subseteq DOMAIN files
    BY <2>10 DEF TypeInv, OpenFile, Visits
  <2>12. buffer \in Seq(Piece) /\ entries \in Seq(Piece)
    BY <2>1, <2>6 DEF TypeInv, ReaderTypes
  <2>13. tleft \subseteq Numbers /\ tseq \in Cutoffs \cup {0}
    BY <2>1, <2>4 DEF TypeInv, Visits
  <2>14. /\ rpc \in {"idle", "read"} /\ rleft \in Seq(Numbers)
         /\ rafter \in Afters \cup {0} /\ rmax \in BatchSizes \cup {0}
    BY <2>1, <2>4, SeqGrows DEF TypeInv, ReaderTypes
  <2>. QED
    BY <2>7, <2>8, <2>9, <2>10, <2>11, <2>12, <2>13, <2>14 DEF TypeOK
<1>. QED
  BY <1>1, TypeInvHolds, PTL

----------------------------------------------------------------------------
(* Decimal digits: that names of equally many digits are in the order of   *)
(* their numbers.                                                          *)

\* Quotient and remainder.
LEMMA DivMod ==
    ASSUME NEW n \in Int, NEW d \in Nat \ {0}
    PROVE  /\ n \div d \in Int /\ n % d \in Int
           /\ 0 <= n % d /\ n % d < d
           /\ n = (n \div d) * d + (n % d)
  OBVIOUS

\* Those of a number by ten: the quotient is smaller unless it is zero.
LEMMA DivTen ==
    ASSUME NEW n \in Nat
    PROVE  /\ n \div 10 \in Nat /\ n % 10 \in 0 .. 9 /\ n = (n \div 10) * 10 + (n % 10)
           /\ n >= 10 => n \div 10 < n /\ n \div 10 >= 1
<1>1. 10 \in Nat \ {0} /\ n \in Int
  OBVIOUS
<1>2. PICK q \in Int, r \in Int : q = n \div 10 /\ r = n % 10 /\ 0 <= r /\ r < 10 /\ n = q * 10 + r
  BY <1>1, DivMod
<1>3. q \in Nat /\ r \in 0 .. 9 /\ (n >= 10 => q < n /\ q >= 1)
  BY <1>2
<1>. QED
  BY <1>2, <1>3

\* f gives the digits of the numbers up to k.
IsDigits(f, k) ==
    \A n \in 0 .. k : f[n] = IF n < 10 THEN <<n>> ELSE Append(f[n \div 10], n % 10)

\* The recursive definition of digits up to k has a solution, which is the
\* only one.
LEMMA DigitsExist ==
    ASSUME NEW k \in Nat
    PROVE  \E f \in [0 .. k -> Seq(0 .. 9)] : IsDigits(f, k)
<1> DEFINE T == {m \in Nat : \E f \in [0 .. m -> Seq(0 .. 9)] : IsDigits(f, m)}
<1>1. 0 \in T
  <2>1. <<0>> \in Seq(0 .. 9)
    OBVIOUS
  <2>2. [i \in 0 .. 0 |-> <<0>>] \in [0 .. 0 -> Seq(0 .. 9)]
    BY <2>1
  <2>3. IsDigits([i \in 0 .. 0 |-> <<0>>], 0)
    BY DEF IsDigits
  <2>. QED
    BY <2>2, <2>3
<1>2. ASSUME NEW m \in Nat, m \in T
      PROVE  m + 1 \in T
  <2>1. PICK f \in [0 .. m -> Seq(0 .. 9)] : IsDigits(f, m)
    BY <1>2
  <2>2. PICK e \in Seq(0 .. 9) :
          e = IF m + 1 < 10 THEN <<m + 1>> ELSE Append(f[(m + 1) \div 10], (m + 1) % 10)
    <3>1. CASE m + 1 < 10
      <4>1. m + 1 \in 0 .. 9
        BY <3>1
      <4>2. <<m + 1>> \in Seq(0 .. 9)
        BY <4>1
      <4>. QED
        BY <3>1, <4>2
    <3>2. CASE ~(m + 1 < 10)
      <4>1. PICK q \in 0 .. m, r \in 0 .. 9 : q = (m + 1) \div 10 /\ r = (m + 1) % 10
        <5>1. m + 1 \in Nat
          OBVIOUS
        <5>2. (m + 1) \div 10 \in Nat /\ (m + 1) % 10 \in 0 .. 9 /\ (m + 1) \div 10 < m + 1
          BY <3>2, <5>1, DivTen
        <5>. QED
          BY <5>2
      <4>2. Append(f[q], r) \in Seq(0 .. 9)
        OBVIOUS
      <4>. QED
        BY <3>2, <4>1, <4>2
    <3>. QED
      BY <3>1, <3>2
  <2> DEFINE g == [i \in 0 .. m + 1 |-> IF i = m + 1 THEN e ELSE f[i]]
  <2>3. g \in [0 .. m + 1 -> Seq(0 .. 9)]
    OBVIOUS
  <2>4. \A i \in 0 .. m : g[i] = f[i]
    OBVIOUS
  <2>5. g[m + 1] = e
    OBVIOUS
  <2>. HIDE DEF g
  <2>6. IsDigits(g, m + 1)
    <3>1. ASSUME NEW n \in 0 .. m + 1
          PROVE  g[n] = IF n < 10 THEN <<n>> ELSE Append(g[n \div 10], n % 10)
      <4>1. n >= 10 => n \div 10 \in 0 .. m
        <5>1. n >= 10 => n \div 10 \in Nat /\ n \div 10 < n
          BY DivTen
        <5>. QED
          BY <5>1
      <4>2. n >= 10 => g[n \div 10] = f[n \div 10]
        BY <2>4, <4>1
      <4>3. g[n] = IF n < 10 THEN <<n>> ELSE Append(f[n \div 10], n % 10)
        <5>1. CASE n = m + 1
          BY <2>2, <2>5, <5>1
        <5>2. CASE n # m + 1
          <6>1. n \in 0 .. m
            BY <5>2
          <6>. QED
            BY <2>1, <2>4, <6>1 DEF IsDigits
        <5>. QED
          BY <5>1, <5>2
      <4>. QED
        BY <4>2, <4>3
    <3>. QED
      BY <3>1 DEF IsDigits
  <2>. QED
    BY <2>3, <2>6
<1>. HIDE DEF T
<1>3. k \in T
  BY <1>1, <1>2, NatSetInduction
<1>. QED
  BY <1>3 DEF T

\* Two solutions agree as far as both go.
LEMMA DigitsUnique ==
    ASSUME NEW k \in Nat, NEW l \in Nat, NEW f, NEW g, IsDigits(f, k), IsDigits(g, l),
           NEW n \in Nat, n <= k, n <= l
    PROVE  f[n] = g[n]
<1> DEFINE T == {m \in Nat : \A i \in 0 .. m : i <= k /\ i <= l => f[i] = g[i]}
<1>1. ASSUME NEW i \in Nat, i <= k, i <= l,
             \A j \in Nat : j < i => f[j] = g[j]
      PROVE  f[i] = g[i]
  <2>1. i \in 0 .. k /\ i \in 0 .. l
    BY <1>1
  <2>2. /\ f[i] = IF i < 10 THEN <<i>> ELSE Append(f[i \div 10], i % 10)
        /\ g[i] = IF i < 10 THEN <<i>> ELSE Append(g[i \div 10], i % 10)
    BY <2>1 DEF IsDigits
  <2>3. i >= 10 => f[i \div 10] = g[i \div 10]
    BY <1>1, DivTen
  <2>. QED
    BY <2>2, <2>3
<1>2. 0 \in T
  <2>1. \A j \in Nat : j < 0 => f[j] = g[j]
    OBVIOUS
  <2>2. f[0] = g[0]
    BY <1>1, <2>1
  <2>. QED
    BY <2>2
<1>3. ASSUME NEW m \in Nat, m \in T
      PROVE  m + 1 \in T
  <2>1. SUFFICES ASSUME NEW i \in 0 .. m + 1, i <= k, i <= l
                 PROVE  f[i] = g[i]
    OBVIOUS
  <2>2. \A j \in Nat : j < i => f[j] = g[j]
    BY <1>3, <2>1
  <2>. QED
    BY <1>1, <2>1, <2>2
<1>. HIDE DEF T
<1>4. n \in T
  BY <1>2, <1>3, NatSetInduction
<1>. QED
  BY <1>4 DEF T

\* The definition of digits defines it.
LEMMA DigitsOf ==
    ASSUME NEW n \in Nat
    PROVE  digits[n] = IF n < 10 THEN <<n>> ELSE Append(digits[n \div 10], n % 10)
<1> DEFINE D(h) == [i \in Nat |-> IF i < 10 THEN <<i>> ELSE Append(h[i \div 10], i % 10)]
           A(i) == CHOOSE f \in [0 .. i -> Seq(0 .. 9)] : IsDigits(f, i)
           G == [i \in Nat |-> A(i)[i]]
           F == CHOOSE h : h = D(h)
<1>1. \A i \in Nat : A(i) \in [0 .. i -> Seq(0 .. 9)] /\ IsDigits(A(i), i)
  BY DigitsExist
<1>. HIDE DEF A
<1>2. G = D(G)
  <2>1. ASSUME NEW i \in Nat
        PROVE  A(i)[i] = IF i < 10 THEN <<i>> ELSE Append(A(i \div 10)[i \div 10], i % 10)
    <3>1. i \in 0 .. i
      OBVIOUS
    <3>2. A(i)[i] = IF i < 10 THEN <<i>> ELSE Append(A(i)[i \div 10], i % 10)
      BY <1>1, <3>1 DEF IsDigits
    <3>3. ASSUME i >= 10
          PROVE  A(i)[i \div 10] = A(i \div 10)[i \div 10]
      <4>1. PICK q \in Nat : q = i \div 10 /\ q <= i /\ q <= q
        BY <3>3, DivTen
      <4>2. IsDigits(A(i), i) /\ IsDigits(A(q), q)
        BY <1>1
      <4>3. A(i)[q] = A(q)[q]
        BY <4>1, <4>2, DigitsUnique
      <4>. QED
        BY <4>1, <4>3
    <3>4. ~(i < 10) => i >= 10
      OBVIOUS
    <3>. QED
      BY <3>2, <3>3, <3>4
  <2>2. \A i \in Nat : i >= 10 => G[i \div 10] = A(i \div 10)[i \div 10]
    BY DivTen
  <2>3. ASSUME NEW i \in Nat
        PROVE  G[i] = IF i < 10 THEN <<i>> ELSE Append(G[i \div 10], i % 10)
    <3>1. G[i] = A(i)[i]
      OBVIOUS
    <3>2. i < 10 \/ i >= 10
      OBVIOUS
    <3>. HIDE DEF G
    <3>. QED
      BY <2>1, <2>2, <3>1, <3>2
  <2>4. G \in [Nat -> {A(i)[i] : i \in Nat}]
    OBVIOUS
  <2>. HIDE DEF G
  <2>. QED
    BY <2>3, <2>4
<1>3. F = D(F)
  BY <1>2, Zenon
<1>4. digits = F
  BY DEF digits
<1>. HIDE DEF F, G
<1>. QED
  BY <1>3, <1>4

\* A set that holds a number when it holds all smaller ones.
LEMMA NatSetCourse ==
    ASSUME NEW T, \A n \in Nat : (\A m \in Nat : m < n => m \in T) => n \in T
    PROVE  \A n \in Nat : n \in T
<1> DEFINE U == {n \in Nat : \A m \in Nat : m <= n => m \in T}
<1>1. 0 \in U
  OBVIOUS
<1>2. ASSUME NEW n \in Nat, n \in U
      PROVE  n + 1 \in U
  <2>1. \A m \in Nat : m < n + 1 => m \in T
    BY <1>2
  <2>2. n + 1 \in T
    BY <2>1
  <2>3. \A m \in Nat : m <= n + 1 => m < n + 1 \/ m = n + 1
    OBVIOUS
  <2>. QED
    BY <2>1, <2>2, <2>3
<1>. HIDE DEF U
<1>3. \A n \in Nat : n \in U
  BY <1>1, <1>2, NatSetInduction
<1>. QED
  BY <1>3 DEF U

\* Digits are digits, and a number has at least one.
LEMMA DigitsType ==
    ASSUME NEW n \in Nat
    PROVE  digits[n] \in Seq(0 .. 9) /\ digits[n] # <<>>
<1> DEFINE T == {k \in Nat : digits[k] \in Seq(0 .. 9) /\ digits[k] # <<>>}
<1>1. ASSUME NEW k \in Nat, \A m \in Nat : m < k => m \in T
      PROVE  k \in T
  <2>1. CASE k < 10
    <3>1. digits[k] = <<k>>
      BY <2>1, DigitsOf, Zenon
    <3>2. <<k>> \in Seq(0 .. 9) /\ <<k>> # <<>>
      BY <2>1
    <3>. QED
      BY <3>1, <3>2
  <2>2. CASE ~(k < 10)
    <3>1. PICK q \in Nat, r \in 0 .. 9 : q = k \div 10 /\ r = k % 10 /\ q < k
      BY <2>2, DivTen
    <3>2. digits[q] \in Seq(0 .. 9)
      BY <1>1, <3>1
    <3>3. digits[k] = Append(digits[q], r)
      BY <2>2, <3>1, DigitsOf
    <3>4. Append(digits[q], r) \in Seq(0 .. 9) /\ Append(digits[q], r) # <<>>
      BY <3>2
    <3>. QED
      BY <3>3, <3>4
  <2>. QED
    BY <2>1, <2>2
<1>. HIDE DEF T
<1>2. n \in T
  BY <1>1, NatSetCourse
<1>. QED
  BY <1>2 DEF T

\* The digits of a number from 10 on are those of its tenth and one more.
LEMMA LastDigit ==
    ASSUME NEW n \in Nat, n >= 10
    PROVE  \E q \in Nat, r \in 0 .. 9 :
              /\ n = 10 * q + r /\ q < n /\ q >= 1
              /\ digits[n] = Append(digits[q], r)
              /\ Len(digits[n]) = Len(digits[q]) + 1
<1>1. PICK q \in Nat, r \in 0 .. 9 :
         q = n \div 10 /\ r = n % 10 /\ n = q * 10 + r /\ q < n /\ q >= 1
  BY DivTen
<1>2. ~(n < 10)
  OBVIOUS
<1>3. digits[n] = Append(digits[q], r)
  BY <1>1, <1>2, DigitsOf
<1>4. digits[q] \in Seq(0 .. 9)
  BY DigitsType
<1>5. Len(digits[n]) = Len(digits[q]) + 1
  BY <1>3, <1>4
<1>6. n = 10 * q + r
  BY <1>1
<1>. QED
  BY <1>1, <1>3, <1>5, <1>6

\* A number less than ten is its own digit.
LEMMA OneDigit ==
    ASSUME NEW n \in Nat, n < 10
    PROVE  digits[n] = <<n>> /\ Len(digits[n]) = 1
<1>1. digits[n] = <<n>>
  BY DigitsOf, Zenon
<1>. QED
  BY <1>1

\* The number of digits.
LEMMA LenDigits ==
    ASSUME NEW n \in Nat
    PROVE  Len(digits[n]) \in Nat \ {0}
  BY DigitsType

\* A larger number has no fewer digits.
LEMMA DigitsMonotone ==
    ASSUME NEW n \in Nat, NEW m \in Nat, m <= n
    PROVE  Len(digits[m]) <= Len(digits[n])
<1> DEFINE T == {k \in Nat : \A l \in Nat : l <= k => Len(digits[l]) <= Len(digits[k])}
<1>1. ASSUME NEW k \in Nat, \A i \in Nat : i < k => i \in T
      PROVE  k \in T
  <2>. SUFFICES ASSUME NEW l \in Nat, l <= k
                PROVE  Len(digits[l]) <= Len(digits[k])
    OBVIOUS
  <2>1. CASE l < 10
    <3>1. Len(digits[l]) = 1 /\ Len(digits[k]) \in Nat \ {0}
      BY <2>1, OneDigit, LenDigits
    <3>. QED
      BY <3>1
  <2>2. CASE l >= 10
    <3>1. PICK q \in Nat, r \in 0 .. 9 :
            l = 10 * q + r /\ Len(digits[l]) = Len(digits[q]) + 1
      BY <2>2, LastDigit
    <3>2. PICK p \in Nat, s \in 0 .. 9 :
            k = 10 * p + s /\ p < k /\ Len(digits[k]) = Len(digits[p]) + 1
      <4>1. k >= 10
        BY <2>2
      <4>. QED
        BY <4>1, LastDigit
    <3>3. q <= p
      BY <3>1, <3>2
    <3>4. Len(digits[q]) <= Len(digits[p])
      BY <1>1, <3>2, <3>3
    <3>5. Len(digits[q]) \in Nat /\ Len(digits[p]) \in Nat
      BY LenDigits
    <3>. QED
      BY <3>1, <3>2, <3>4, <3>5
  <2>. QED
    BY <2>1, <2>2
<1>. HIDE DEF T
<1>2. n \in T
  BY <1>1, NatSetCourse
<1>. QED
  BY <1>2 DEF T

\* The first digit in which a and b differ decides.
Before(a, b) ==
    \E i \in 1 .. Len(a) :
        /\ i <= Len(b) /\ a[i] < b[i]
        /\ \A j \in 1 .. i - 1 : a[j] = b[j]

\* With equally many digits, equal digits make equal numbers, and the first
\* digit that differs decides which number is smaller.
LEMMA DigitsDecide ==
    ASSUME NEW n \in Nat, NEW m \in Nat, Len(digits[m]) = Len(digits[n])
    PROVE  /\ digits[m] = digits[n] => m = n
           /\ Before(digits[m], digits[n]) => m < n
<1> DEFINE T == {k \in Nat : \A l \in Nat : Len(digits[k]) = Len(digits[l]) =>
                     /\ digits[k] = digits[l] => k = l
                     /\ Before(digits[k], digits[l]) => k < l}
<1>1. ASSUME NEW k \in Nat, \A i \in Nat : i < k => i \in T
      PROVE  k \in T
  <2>. SUFFICES ASSUME NEW l \in Nat, Len(digits[k]) = Len(digits[l])
                PROVE  /\ digits[k] = digits[l] => k = l
                       /\ Before(digits[k], digits[l]) => k < l
    OBVIOUS
  <2>1. CASE k < 10
    <3>1. digits[k] = <<k>> /\ Len(digits[k]) = 1
      BY <2>1, OneDigit
    <3>2. l < 10
      <4>1. SUFFICES ASSUME l >= 10
                     PROVE  FALSE
        OBVIOUS
      <4>2. PICK q \in Nat : Len(digits[l]) = Len(digits[q]) + 1
        BY <4>1, LastDigit
      <4>3. Len(digits[q]) \in Nat \ {0}
        BY LenDigits
      <4>. QED
        BY <3>1, <4>2, <4>3
    <3>3. digits[l] = <<l>> /\ Len(digits[l]) = 1
      BY <3>2, OneDigit
    <3>4. PICK a, b : a = <<k>> /\ b = <<l>>
      OBVIOUS
    <3>5. Len(a) = 1 /\ Len(b) = 1 /\ a[1] = k /\ b[1] = l
      BY <3>4
    <3>6. Before(a, b) => k < l
      BY <3>5 DEF Before
    <3>7. a = b => k = l
      BY <3>5
    <3>. QED
      BY <3>1, <3>3, <3>4, <3>6, <3>7
  <2>2. CASE k >= 10
    <3>1. PICK q \in Nat, r \in 0 .. 9 :
            /\ k = 10 * q + r /\ q < k
            /\ digits[k] = Append(digits[q], r) /\ Len(digits[k]) = Len(digits[q]) + 1
      BY <2>2, LastDigit
    <3>2. l >= 10
      <4>1. SUFFICES ASSUME l < 10
                     PROVE  FALSE
        OBVIOUS
      <4>2. Len(digits[l]) = 1 /\ Len(digits[q]) \in Nat \ {0}
        BY <4>1, OneDigit, LenDigits
      <4>. QED
        BY <3>1, <4>2
    <3>3. PICK p \in Nat, s \in 0 .. 9 :
            /\ l = 10 * p + s
            /\ digits[l] = Append(digits[p], s) /\ Len(digits[l]) = Len(digits[p]) + 1
      BY <3>2, LastDigit
    <3>4. PICK a \in Seq(0 .. 9), b \in Seq(0 .. 9) : a = digits[q] /\ b = digits[p]
      BY DigitsType
    <3>5. PICK z \in Nat : z = Len(a) /\ z = Len(b)
      BY <3>1, <3>3, <3>4, LenDigits
    <3>6. (a = b => q = p) /\ (Before(a, b) => q < p)
      BY <1>1, <3>1, <3>4, <3>5
    <3>7. PICK c \in Seq(0 .. 9), d \in Seq(0 .. 9) :
            /\ c = digits[k] /\ d = digits[l]
            /\ Len(c) = z + 1 /\ Len(d) = z + 1 /\ c[z + 1] = r /\ d[z + 1] = s
            /\ \A i \in 1 .. z : c[i] = a[i] /\ d[i] = b[i]
      <4>1. PICK c \in Seq(0 .. 9), d \in Seq(0 .. 9) : c = digits[k] /\ d = digits[l]
        BY DigitsType
      <4>2. c = Append(a, r) /\ d = Append(b, s)
        BY <3>1, <3>3, <3>4, <4>1
      <4>3. /\ Len(c) = z + 1 /\ c[z + 1] = r
            /\ \A i \in 1 .. z : c[i] = a[i]
        <5>1. c = Append(a, r) /\ z = Len(a)
          BY <3>5, <4>2
        <5>2. Len(c) = z + 1 /\ c[z + 1] = r
          BY <5>1
        <5>3. \A i \in 1 .. z : c[i] = a[i]
          BY <5>1
        <5>. QED
          BY <5>2, <5>3
      <4>4. /\ Len(d) = z + 1 /\ d[z + 1] = s
            /\ \A i \in 1 .. z : d[i] = b[i]
        BY <3>5, <4>2
      <4>. QED
        BY <4>1, <4>3, <4>4
    <3>8. (\A i \in 1 .. z : c[i] = d[i]) => q = p
      <4>1. (\A i \in 1 .. z : a[i] = b[i]) => a = b
        BY <3>5, SeqEqual
      <4>. QED
        BY <3>6, <3>7, <4>1
    <3>9. ASSUME c = d
          PROVE  k = l
      <4>1. q = p /\ r = s
        BY <3>7, <3>8, <3>9
      <4>. QED
        BY <3>1, <3>3, <4>1
    <3>10. ASSUME Before(c, d)
           PROVE  k < l
      <4>1. PICK i \in 1 .. z + 1 : c[i] < d[i] /\ \A j \in 1 .. i - 1 : c[j] = d[j]
        BY <3>7, <3>10 DEF Before
      <4>2. CASE i = z + 1
        <5>1. q = p
          BY <3>8, <4>1, <4>2
        <5>2. r < s
          BY <3>7, <4>1, <4>2
        <5>. QED
          BY <3>1, <3>3, <5>1, <5>2
      <4>3. CASE i # z + 1
        <5>1. i \in 1 .. z /\ \A j \in 1 .. i - 1 : j \in 1 .. z
          BY <4>3
        <5>2. a[i] < b[i] /\ \A j \in 1 .. i - 1 : a[j] = b[j]
          BY <3>7, <4>1, <5>1
        <5>3. Before(a, b)
          BY <3>5, <5>1, <5>2, SMTT(30) DEF Before
        <5>. QED
          BY <3>1, <3>3, <3>6, <5>3
      <4>. QED
        BY <4>2, <4>3
    <3>. QED
      BY <3>7, <3>9, <3>10
  <2>. QED
    BY <2>1, <2>2
<1>. HIDE DEF T
<1>2. m \in T
  BY <1>1, NatSetCourse
<1>. QED
  BY <1>2 DEF T

\* Names with equally many digits are ordered like their numbers.
LEMMA NamesInOrder ==
    ASSUME NEW m \in Nat, NEW n \in Nat, Len(digits[m]) = Len(digits[n]), NameLess(m, n)
    PROVE  m < n
<1>1. Len(digits[m]) \in Nat
  BY LenDigits
<1>2. Before(digits[m], digits[n])
  BY <1>1 DEF NameLess, Before
<1>. QED
  BY <1>2, DigitsDecide

\* A number between two with equally many digits has as many.
LEMMA DigitsBetween ==
    ASSUME NEW x \in Nat, NEW y \in Nat, NEW z \in Nat, x <= y, y <= z,
           Len(digits[x]) = Len(digits[z])
    PROVE  Len(digits[y]) = Len(digits[x])
<1>1. Len(digits[x]) <= Len(digits[y]) /\ Len(digits[y]) <= Len(digits[z])
  BY DigitsMonotone
<1>2. Len(digits[x]) \in Nat /\ Len(digits[y]) \in Nat
  BY LenDigits
<1>. QED
  BY <1>1, <1>2

----------------------------------------------------------------------------
(* The reader. K are the names it found, and src says from which file each *)
(* of its entries is. A file that is not the newest is complete, ends      *)
(* before the next one, and what it holds was there when the call began;   *)
(* so the entries of different files are as far apart as their names.      *)

\* The names that are left are names of K, in the order of strings.
Listed(K, left) ==
    /\ K \subseteq Nat \ {0} /\ left \in Seq(K)
    /\ \A i, j \in 1 .. Len(left) : i < j => NameLess(left[i], left[j])

\* The newest name found is not newer than the directory's; a file before
\* one of the names found ends before it and held all it holds.
Newer(K, fs, must) ==
    /\ \A g \in K : \E h \in DOMAIN fs : g <= h
    /\ \A f \in DOMAIN fs, g \in K :
          f < g => EndOf(fs[f], f) < g /\ EntrySet(fs[f]) \subseteq must

\* An entry of the file f, beside the names K.
From(e, f, K, must, after) ==
    /\ f <= e.seq /\ e.seq > after
    /\ \A g \in K : f < g => e.seq < g /\ \E d \in must : d.seq = f

\* The batch es with the files src its entries are from: in the order of
\* names, within a file in the order of numbers, and before what is left.
Sourced(K, src, es, left, must, after) ==
    /\ es \in Seq(P) /\ src \in Seq(K) /\ Len(src) = Len(es)
    /\ \A i \in 1 .. Len(es) : From(es[i], src[i], K, must, after)
    /\ \A i, j \in 1 .. Len(es) :
          i < j => \/ src[i] = src[j] /\ es[i].seq < es[j].seq
                   \/ NameLess(src[i], src[j])
    /\ \A i \in 1 .. Len(es), j \in 1 .. Len(left) : NameLess(src[i], left[j])

\* All numbers in question have equally many digits.
SameDigits(es, must) ==
    \A d, e \in must \cup ToSet(es) : Len(digits[d.seq]) = Len(digits[e.seq])

\* Nothing is left out but what the files still to be read hold.
Whole(fs, left, es, must, after, cut) ==
    \A d \in must :
        d.seq > after /\ d.seq >= cut =>
            \/ d \in ToSet(es)
            \/ \E j \in 1 .. Len(left) : left[j] \in DOMAIN fs /\ d \in EntrySet(fs[left[j]])

\* Nothing is left out up to the last entry.
Prefix(es, must, after, cut) ==
    SameDigits(es, must) =>
        \A d \in must : d.seq > after /\ d.seq >= cut /\ d.seq <= Last(es).seq => d \in ToSet(es)

\* The batch is as large as max_count allows, and then up to its last entry
\* complete, or not full yet, and then nothing is skipped so far.
Progress(fs, left, es, must, after, max, cut) ==
    /\ max > 0 => Len(es) <= max
    /\ IF max > 0 /\ Len(es) = max
       THEN left = <<>> /\ Prefix(es, must, after, cut)
       ELSE Whole(fs, left, es, must, after, cut)

\* The state of a ReadAfter that found the names K.
Reading(K, src) ==
    /\ rmust \subseteq P /\ rafter \in Nat /\ rmax \in Nat
    /\ Listed(K, rleft) /\ Newer(K, files, rmust)
    /\ Sourced(K, src, entries, rleft, rmust, rafter)
    /\ Progress(files, rleft, entries, rmust, rafter, rmax, cutoff)

ReaderInv == rpc = "read" => \E K, src : Reading(K, src)

\* What a good file holds lies between its name and its end, and the entry
\* with the number in the name is there when any is.
LEMMA FileFacts ==
    ASSUME NEW s \in Seq(P), NEW f \in Nat \ {0}, Good(s, f), NEW e \in EntrySet(s)
    PROVE  /\ e \in P /\ f <= e.seq /\ e.seq <= EndOf(s, f) /\ EndOf(s, f) \in Nat
           /\ \E d \in EntrySet(s) : d.seq = f
<1>1. PICK i \in 1 .. Len(s) : e = s[i] /\ e.kind = "entry"
  BY EntryInSet
<1>2. PICK n \in Nat : n = Len(s)
  OBVIOUS
<1>3. s # <<>> /\ 1 \in 1 .. n /\ s[1] = FileHeader(f)
  BY <1>1, <1>2 DEF Good
<1>4. s[1].seq = f /\ s[1].kind # "entry"
  BY <1>3 DEF FileHeader
<1>5. e \in P /\ e.seq \in Nat
  <2>1. s[i] \in P
    OBVIOUS
  <2>. QED
    BY <1>1, <2>1 DEF P
<1>6. f <= e.seq
  BY <1>1, <1>2, <1>3, <1>4 DEF Good, Rising
<1>7. e.seq <= EndOf(s, f) /\ EndOf(s, f) \in Nat
  BY <1>1, EndBounds
<1>8. i # 1 /\ n >= 2 /\ 2 \in 1 .. n
  BY <1>1, <1>2, <1>4
<1>9. s[2].kind = "entry" /\ s[2].seq = f
  BY <1>2, <1>8 DEF Good, Opening
<1>10. s[2] \in EntrySet(s)
  BY <1>2, <1>8, <1>9, EntryInSet
<1>. QED
  BY <1>5, <1>6, <1>7, <1>9, <1>10

\* The name f is before g and p is a number in the file f: with equally many
\* digits f is the smaller number.
LEMMA NameOrder ==
    ASSUME NEW f \in Nat, NEW g \in Nat, NEW p \in Nat, f <= p, NameLess(f, g),
           g < f => Len(digits[p]) = Len(digits[g])
    PROVE  f < g
<1>1. CASE g < f
  <2>1. Len(digits[g]) = Len(digits[p]) /\ g <= f
    BY <1>1
  <2>2. Len(digits[f]) = Len(digits[g])
    BY <2>1, DigitsBetween
  <2>. QED
    BY <2>2, NamesInOrder
<1>2. CASE f = g
  <2>1. NameLess(f, f) /\ Len(digits[f]) = Len(digits[f])
    BY <1>2
  <2>2. f < f
    BY <2>1, NamesInOrder, Zenon
  <2>. QED
    BY <2>2
<1>. QED
  BY <1>1, <1>2

\* Then the entries of a batch are in the order of their numbers.
LEMMA BatchInOrder ==
    ASSUME NEW K \in SUBSET (Nat \ {0}), NEW src, NEW es, NEW left, NEW must \in SUBSET P, NEW after,
           Sourced(K, src, es, left, must, after), SameDigits(es, must),
           NEW i \in 1 .. Len(es), NEW j \in 1 .. Len(es), i < j
    PROVE  es[i].seq < es[j].seq
<1>1. /\ es \in Seq(P) /\ src \in Seq(K) /\ Len(src) = Len(es)
      /\ From(es[i], src[i], K, must, after) /\ From(es[j], src[j], K, must, after)
      /\ \/ src[i] = src[j] /\ es[i].seq < es[j].seq
         \/ NameLess(src[i], src[j])
  BY DEF Sourced
<1>2. PICK f \in K, g \in K : f = src[i] /\ g = src[j]
  <2>1. i \in 1 .. Len(src) /\ j \in 1 .. Len(src) /\ src \in Seq(K)
    BY <1>1
  <2>2. src[i] \in K /\ src[j] \in K
    BY <2>1
  <2>. QED
    BY <2>2
<1>3. PICK d \in P, e \in P : d = es[i] /\ e = es[j] /\ d \in ToSet(es) /\ e \in ToSet(es)
  <2>1. DOMAIN es = 1 .. Len(es) /\ es[i] \in P /\ es[j] \in P
    BY <1>1
  <2>. QED
    BY <2>1 DEF ToSet
<1>4. f \in Nat /\ g \in Nat /\ d.seq \in Nat /\ e.seq \in Nat
  BY DEF P
<1>5. From(d, f, K, must, after) /\ From(e, g, K, must, after)
  BY <1>1, <1>2, <1>3
<1>6. CASE NameLess(f, g)
  <2>1. ASSUME g < f
        PROVE  Len(digits[d.seq]) = Len(digits[g])
    <3>1. PICK x \in must : x.seq = g
      BY <1>5, <2>1 DEF From
    <3>2. Len(digits[d.seq]) = Len(digits[x.seq])
      BY <1>3 DEF SameDigits
    <3>. QED
      BY <3>1, <3>2
  <2>2. f <= d.seq
    BY <1>5 DEF From
  <2>3. f < g
    BY <1>4, <1>6, <2>1, <2>2, NameOrder
  <2>4. d.seq < g /\ g <= e.seq
    BY <1>5, <2>3 DEF From
  <2>. QED
    BY <1>3, <1>4, <2>4
<1>. QED
  BY <1>1, <1>2, <1>6

----------------------------------------------------------------------------
(* One file more is read                                                   *)

\* A directory of good files.
Directory(fs) ==
    DOMAIN fs \subseteq Nat \ {0} /\ \A f \in DOMAIN fs : fs[f] \in Seq(P) /\ Good(fs[f], f)

\* What ReadFile finds in the file f of the directory fs.
FromFile(found, f, fs, after) ==
    /\ found \in Seq(P)
    /\ found # <<>> => f \in DOMAIN fs
    /\ \A i \in 1 .. Len(found) : found[i] \in EntrySet(fs[f]) /\ found[i].seq > after
    /\ f \in DOMAIN fs =>
          \A d \in EntrySet(fs[f]) : d.seq > after => \E i \in 1 .. Len(found) : found[i] = d
    /\ \A i, j \in 1 .. Len(found) : i < j => found[i].seq < found[j].seq

\* The loop over a file of a good directory, or one that is gone.
LEMMA FoundInFile ==
    ASSUME NEW fs, Directory(fs), NEW f \in Nat \ {0}, NEW after \in Nat
    PROVE  FromFile(IF f \in DOMAIN fs THEN Found(fs[f], after) ELSE <<>>, f, fs, after)
<1>1. CASE f \notin DOMAIN fs
  <2>1. <<>> \in Seq(P) /\ Len(<<>>) = 0 /\ 1 .. 0 = {}
    OBVIOUS
  <2>2. FromFile(<<>>, f, fs, after)
    BY <1>1, <2>1 DEF FromFile
  <2>. QED
    BY <1>1, <2>2
<1>2. CASE f \in DOMAIN fs
  <2>1. PICK s \in Seq(P) : s = fs[f] /\ Apart(s)
    BY <1>2 DEF Directory, Good
  <2>2. PICK t : t = Found(s, after)
    OBVIOUS
  <2>3. t \in Seq(P) /\ Collected(t, s, after, Len(s))
    BY <2>2, FoundIs
  <2>4. ASSUME NEW i \in 1 .. Len(t)
        PROVE  t[i] \in EntrySet(s) /\ t[i].seq > after
    <3>1. PICK k \in 1 .. Len(s) : t[i] = s[k] /\ Kept(s[k], after)
      BY <2>3 DEF Collected
    <3>. QED
      BY <3>1, EntryInSet DEF Kept
  <2>5. ASSUME NEW d \in EntrySet(s), d.seq > after
        PROVE  \E i \in 1 .. Len(t) : t[i] = d
    <3>1. PICK k \in 1 .. Len(s) : d = s[k] /\ d.kind = "entry"
      BY EntryInSet
    <3>2. Kept(s[k], after)
      BY <2>5, <3>1 DEF Kept
    <3>3. PICK i \in 1 .. Len(t) : t[i] = s[k]
      BY <2>3, <3>2 DEF Collected
    <3>. QED
      BY <3>1, <3>3
  <2>6. \A i, j \in 1 .. Len(t) : i < j => t[i].seq < t[j].seq
    BY <2>1, <2>3 DEF Collected
  <2>7. FromFile(t, f, fs, after)
    BY <1>2, <2>1, <2>3, <2>4, <2>5, <2>6 DEF FromFile
  <2>. QED
    BY <1>2, <2>1, <2>2, <2>7
<1>. QED
  BY <1>1, <1>2

\* The entry e of the file f that is read now.
LEMMA FromThisFile ==
    ASSUME NEW K \in SUBSET (Nat \ {0}), NEW fs, NEW must, Directory(fs), Newer(K, fs, must),
           NEW f \in DOMAIN fs, NEW e \in EntrySet(fs[f]), NEW after, e.seq > after
    PROVE  From(e, f, K, must, after)
<1>1. PICK s \in Seq(P) : s = fs[f] /\ Good(s, f) /\ f \in Nat \ {0}
  BY DEF Directory
<1>2. /\ e \in P /\ f <= e.seq /\ e.seq <= EndOf(s, f) /\ EndOf(s, f) \in Nat
      /\ \E d \in EntrySet(s) : d.seq = f
  BY <1>1, FileFacts
<1>3. e.seq \in Nat
  BY <1>2 DEF P
<1>4. ASSUME NEW g \in K, f < g
      PROVE  e.seq < g /\ \E d \in must : d.seq = f
  <2>1. EndOf(s, f) < g /\ EntrySet(s) \subseteq must
    BY <1>1, <1>4 DEF Newer
  <2>. QED
    BY <1>2, <1>3, <2>1
<1>. QED
  BY <1>2, <1>4 DEF From

\* A reader that found the names K reads the next file f.
Reads(K, fs, must, after, src, es, left, f, found) ==
    /\ K \subseteq Nat \ {0} /\ must \subseteq P
    /\ Directory(fs) /\ Newer(K, fs, must) /\ Listed(K, left) /\ left # <<>> /\ f = left[1]
    /\ Sourced(K, src, es, left, must, after) /\ FromFile(found, f, fs, after)

\* The sequence u is s and then the first of the elements of t, n in all.
Continued(s, m, t, k, n, u) ==
    /\ s \in Seq(P) /\ t \in Seq(P) /\ u \in Seq(P)
    /\ m \in Nat /\ m = Len(s) /\ k \in Nat /\ k = Len(t) /\ n \in Nat /\ n = Len(u)
    /\ m <= n /\ n <= m + k
    /\ \A i \in 1 .. n : u[i] = IF i <= m THEN s[i] ELSE t[i - m]

\* What is left of the names when the first is done with, all of it or less.
Within(l, left) == \A j \in 1 .. Len(l) : \E i \in 2 .. Len(left) : l[j] = left[i]
Without(l, left) == \A j \in 2 .. Len(left) : \E i \in 1 .. Len(l) : l[i] = left[j]

Sources(src, m, n, f) == [i \in 1 .. n |-> IF i <= m THEN src[i] ELSE f]

\* One file more, of which the first n - m entries are taken.
LEMMA SourcedMore ==
    ASSUME NEW K, NEW fs, NEW must, NEW after, NEW src, NEW es, NEW left, NEW f, NEW found,
           Reads(K, fs, must, after, src, es, left, f, found),
           NEW m, NEW k, NEW n, NEW u, Continued(es, m, found, k, n, u),
           NEW l, Within(l, left)
    PROVE  Sourced(K, Sources(src, m, n, f), u, l, must, after)
<1>. USE DEF Reads, Continued, Within
<1>0. PICK w : w = Sources(src, m, n, f) /\ w = [i \in 1 .. n |-> IF i <= m THEN src[i] ELSE f]
  BY DEF Sources
<1>1. m \in Nat /\ m = Len(es) /\ m <= n /\ n \in Nat
  OBVIOUS
<1>2. /\ src \in Seq(K) /\ Len(src) = m /\ f \in K
      /\ 1 \in 1 .. Len(left)
  <2>1. left \in Seq(K)
    BY DEF Listed
  <2>2. 1 \in 1 .. Len(left) /\ left[1] \in K
    BY <2>1
  <2>. QED
    BY <1>1, <2>2 DEF Sourced
<1>3. w \in Seq(K) /\ Len(w) = n
  <2>1. \A i \in 1 .. n : (IF i <= m THEN src[i] ELSE f) \in K
    BY <1>1, <1>2
  <2>. QED
    BY <1>0, <1>1, <2>1
<1>4. \A i \in 1 .. m : i \in 1 .. n /\ w[i] = src[i] /\ u[i] = es[i]
  BY <1>0, <1>1
<1>5. \A i \in 1 .. n : i \notin 1 .. m => w[i] = f /\ i - m \in 1 .. Len(found) /\ u[i] = found[i - m]
  <2>1. Len(found) \in Nat
    BY DEF FromFile
  <2>. QED
    BY <1>0, <1>1, <2>1
<1>6. ASSUME NEW i \in 1 .. n
      PROVE  From(u[i], w[i], K, must, after)
  <2>1. CASE i \in 1 .. m
    BY <1>1, <1>4, <2>1 DEF Sourced
  <2>2. CASE i \notin 1 .. m
    <3>1. PICK h \in 1 .. Len(found) : u[i] = found[h] /\ w[i] = f
      BY <1>5, <2>2
    <3>2. f \in DOMAIN fs /\ found[h] \in EntrySet(fs[f]) /\ found[h].seq > after
      BY <3>1 DEF FromFile
    <3>3. From(found[h], f, K, must, after)
      BY <3>2, FromThisFile
    <3>. QED
      BY <3>1, <3>3
  <2>. QED
    BY <2>1, <2>2
<1>7. ASSUME NEW i \in 1 .. n, NEW j \in 1 .. n, i < j
      PROVE  (w[i] = w[j] /\ u[i].seq < u[j].seq) \/ NameLess(w[i], w[j])
  <2>1. CASE j \in 1 .. m
    <3>1. i \in 1 .. m
      BY <1>7, <2>1
    <3>. QED
      BY <1>1, <1>4, <1>7, <2>1, <3>1 DEF Sourced
  <2>2. CASE i \in 1 .. m /\ j \notin 1 .. m
    <3>1. NameLess(src[i], left[1])
      BY <1>1, <1>2, <2>2 DEF Sourced
    <3>. QED
      BY <1>4, <1>5, <2>2, <3>1
  <2>3. CASE i \notin 1 .. m /\ j \notin 1 .. m
    <3>1. i - m \in 1 .. Len(found) /\ j - m \in 1 .. Len(found) /\ i - m < j - m
      BY <1>1, <1>5, <1>7, <2>3
    <3>2. found[i - m].seq < found[j - m].seq
      BY <3>1 DEF FromFile
    <3>. QED
      BY <1>5, <2>3, <3>2
  <2>. QED
    BY <2>1, <2>2, <2>3
<1>8. ASSUME NEW i \in 1 .. n, NEW j \in 1 .. Len(l)
      PROVE  NameLess(w[i], l[j])
  <2>1. PICK h \in 2 .. Len(left) : l[j] = left[h]
    OBVIOUS
  <2>2. h \in 1 .. Len(left) /\ 1 < h
    OBVIOUS
  <2>3. CASE i \in 1 .. m
    <3>1. NameLess(src[i], left[h])
      BY <1>1, <2>2, <2>3 DEF Sourced
    <3>. QED
      BY <1>4, <2>1, <2>3, <3>1
  <2>4. CASE i \notin 1 .. m
    <3>1. NameLess(left[1], left[h])
      BY <1>2, <2>2 DEF Listed
    <3>. QED
      BY <1>5, <2>1, <2>4, <3>1
  <2>. QED
    BY <2>3, <2>4
<1>. QED
  BY <1>0, <1>3, <1>6, <1>7, <1>8 DEF Sourced

\* All that was found is taken, and the file is done with.
LEMMA WholeMore ==
    ASSUME NEW K, NEW fs, NEW must, NEW after, NEW src, NEW es, NEW left, NEW f, NEW found,
           Reads(K, fs, must, after, src, es, left, f, found),
           NEW m, NEW k, NEW n, NEW u, Continued(es, m, found, k, n, u), n = m + k,
           NEW l, Without(l, left),
           NEW cut, Whole(fs, left, es, must, after, cut)
    PROVE  Whole(fs, l, u, must, after, cut)
<1>. USE DEF Reads, Continued, Without
<1>1. DOMAIN u = 1 .. m + k /\ DOMAIN es = 1 .. m
  <2>1. u \in Seq(P) /\ es \in Seq(P) /\ Len(u) = m + k /\ Len(es) = m
    OBVIOUS
  <2>2. DOMAIN u = 1 .. Len(u) /\ DOMAIN es = 1 .. Len(es)
    BY <2>1, LenProperties, Zenon
  <2>. QED
    BY <2>1, <2>2
<1>2. ASSUME NEW d \in must, d.seq > after, d.seq >= cut
      PROVE  \/ d \in ToSet(u)
             \/ \E j \in 1 .. Len(l) : l[j] \in DOMAIN fs /\ d \in EntrySet(fs[l[j]])
  <2>1. CASE d \in ToSet(es)
    <3>1. PICK i \in 1 .. m : es[i] = d
      BY <1>1, <2>1 DEF ToSet
    <3>2. i \in 1 .. m + k /\ i <= m
      OBVIOUS
    <3>3. u[i] = d
      BY <3>1, <3>2
    <3>. QED
      BY <1>1, <3>2, <3>3 DEF ToSet
  <2>2. ASSUME NEW j \in 1 .. Len(left), left[j] \in DOMAIN fs, d \in EntrySet(fs[left[j]])
        PROVE  \/ d \in ToSet(u)
               \/ \E i \in 1 .. Len(l) : l[i] \in DOMAIN fs /\ d \in EntrySet(fs[l[i]])
    <3>1. CASE j = 1
      <4>1. PICK i \in 1 .. k : found[i] = d
        BY <1>2, <2>2, <3>1 DEF FromFile
      <4>2. m + i \in 1 .. m + k /\ ~(m + i <= m) /\ m + i - m = i
        OBVIOUS
      <4>3. PICK h \in 1 .. m + k : h = m + i
        BY <4>2
      <4>4. u[h] = d
        <5>1. ~(h <= m) /\ h - m = i
          BY <4>3
        <5>2. u[h] = found[h - m]
          BY <5>1
        <5>. QED
          BY <4>1, <5>1, <5>2
      <4>5. h \in DOMAIN u /\ u[h] = d
        BY <1>1, <4>4
      <4>6. d \in ToSet(u)
        BY <4>5, Zenon DEF ToSet
      <4>. QED
        BY <4>6
    <3>2. CASE j # 1
      <4>1. j \in 2 .. Len(left)
        BY <3>2
      <4>. QED
        BY <2>2, <4>1
    <3>. QED
      BY <3>1, <3>2
  <2>3. d \in ToSet(es) \/ \E j \in 1 .. Len(left) : left[j] \in DOMAIN fs /\ d \in EntrySet(fs[left[j]])
    BY <1>2 DEF Whole
  <2>. QED
    BY <2>1, <2>2, <2>3
<1>. QED
  BY <1>2 DEF Whole

\* max_count ends the batch inside the file f, and its last entry is of f.
\* What a later file g holds is after it: either g is a later name and a
\* later number, or f is the larger number, and then numbers in f have more
\* digits than g or equally many, which the order of the names excludes.
LEMMA PrefixCut ==
    ASSUME NEW K, NEW fs, NEW must, NEW after, NEW src, NEW es, NEW left, NEW f, NEW found,
           Reads(K, fs, must, after, src, es, left, f, found),
           NEW m, NEW k, NEW n, NEW u, Continued(es, m, found, k, n, u), m < n,
           NEW cut, Whole(fs, left, es, must, after, cut)
    PROVE  Prefix(u, must, after, cut)
<1>. USE DEF Reads, Continued
<1>1. DOMAIN u = 1 .. n /\ DOMAIN es = 1 .. m
  OBVIOUS
<1>2. k \in Nat /\ k = Len(found) /\ found \in Seq(P)
  BY DEF FromFile
<1>3. n - m \in 1 .. k /\ n \in 1 .. n /\ ~(n <= m)
  BY <1>2
<1>4. PICK e \in P : e = found[n - m] /\ e = u[n] /\ e = Last(u) /\ e \in ToSet(u)
  <2>0. u[n] \in P /\ u[n] = Last(u)
    BY <1>3 DEF Last
  <2>1. u[n] = found[n - m]
    BY <1>3
  <2>2. u[n] \in ToSet(u)
    BY <1>1, <1>3 DEF ToSet
  <2>. QED
    BY <2>0, <2>1, <2>2
<1>5. f \in DOMAIN fs /\ e \in EntrySet(fs[f])
  <2>1. found # <<>>
    BY <1>2, <1>3
  <2>2. n - m \in 1 .. Len(found)
    BY <1>2, <1>3
  <2>. QED
    BY <1>4, <2>1, <2>2 DEF FromFile
<1>6. PICK a \in Nat : /\ a = EndOf(fs[f], f) /\ f <= e.seq /\ e.seq <= a
                       /\ f \in Nat \ {0} /\ e.seq \in Nat
  <2>1. f \in Nat \ {0} /\ fs[f] \in Seq(P) /\ Good(fs[f], f)
    BY <1>5 DEF Directory
  <2>2. e.seq \in Nat
    BY DEF P
  <2>. QED
    BY <1>5, <2>1, <2>2, FileFacts
<1>7. f \in K /\ \A j \in 1 .. Len(left) : left[j] \in K
  BY DEF Listed
<1>8. ASSUME SameDigits(u, must),
             NEW d \in must, d.seq > after, d.seq >= cut, d.seq <= e.seq
      PROVE  d \in ToSet(u)
  <2>0. d.seq \in Nat
    BY DEF P
  <2>1. CASE d \in ToSet(es)
    <3>1. PICK i \in 1 .. m : es[i] = d
      BY <1>1, <2>1 DEF ToSet
    <3>2. i \in 1 .. n /\ i <= m
      OBVIOUS
    <3>3. u[i] = d
      BY <3>1, <3>2
    <3>. QED
      BY <1>1, <3>2, <3>3 DEF ToSet
  <2>2. ASSUME NEW j \in 1 .. Len(left), left[j] \in DOMAIN fs, d \in EntrySet(fs[left[j]])
        PROVE  d \in ToSet(u)
    <3>1. CASE j = 1
      <4>1. PICK i \in 1 .. k : found[i] = d
        BY <1>2, <1>8, <2>2, <3>1 DEF FromFile
      <4>2. i <= n - m
        <5>1. ASSUME n - m < i
              PROVE  FALSE
          <6>1. e.seq < d.seq
            BY <1>2, <1>3, <1>4, <4>1, <5>1 DEF FromFile
          <6>. QED
            BY <1>6, <1>8, <2>0, <6>1
        <5>. QED
          BY <5>1
      <4>3. m + i \in 1 .. n /\ ~(m + i <= m) /\ m + i - m = i
        BY <4>2
      <4>4. u[m + i] = d
        BY <4>1, <4>3, SMTT(30)
      <4>. QED
        BY <1>1, <4>3, <4>4 DEF ToSet
    <3>2. CASE j # 1
      <4>1. PICK g \in DOMAIN fs : g = left[j] /\ d \in EntrySet(fs[g]) /\ g \in Nat \ {0}
        BY <2>2 DEF Directory
      <4>2. NameLess(f, g)
        <5>1. 1 \in 1 .. Len(left) /\ 1 < j
          BY <3>2
        <5>. QED
          BY <4>1, <5>1 DEF Listed
      <4>3. g <= d.seq /\ \E x \in EntrySet(fs[g]) : x.seq = g
        <5>1. fs[g] \in Seq(P) /\ Good(fs[g], g)
          BY DEF Directory
        <5>. QED
          BY <4>1, <5>1, FileFacts
      <4>4. ASSUME g < f
            PROVE  Len(digits[e.seq]) = Len(digits[g])
        <5>1. EntrySet(fs[g]) \subseteq must
          BY <1>7, <4>4 DEF Newer
        <5>2. PICK x \in must : x.seq = g
          BY <4>3, <5>1
        <5>3. Len(digits[e.seq]) = Len(digits[x.seq])
          BY <1>4, <1>8 DEF SameDigits
        <5>. QED
          BY <5>2, <5>3
      <4>5. f < g
        BY <1>6, <4>1, <4>2, <4>4, NameOrder
      <4>6. a < g
        <5>1. g \in K
          BY <1>7, <4>1
        <5>. QED
          BY <1>5, <1>6, <4>5, <5>1 DEF Newer
      <4>. QED
        BY <1>6, <1>8, <2>0, <4>1, <4>3, <4>6
    <3>. QED
      BY <3>1, <3>2
  <2>3. d \in ToSet(es) \/ \E j \in 1 .. Len(left) : left[j] \in DOMAIN fs /\ d \in EntrySet(fs[left[j]])
    BY <1>8 DEF Whole
  <2>. QED
    BY <2>1, <2>2, <2>3
<1>. QED
  BY <1>4, <1>8 DEF Prefix

----------------------------------------------------------------------------
(* The directory changes while a reader is between two files               *)

\* What a step of the writer or of TruncateBefore may do to the directory: a
\* file that goes holds nothing at or after the cutoff, one that changes or
\* comes is the newest.
Grows(fs, gs, cut) ==
    /\ \A f \in DOMAIN fs : \E g \in DOMAIN gs : f <= g
    /\ \A f \in DOMAIN gs :
          \/ f \in DOMAIN fs /\ gs[f] = fs[f]
          \/ \A g \in DOMAIN fs : g <= f
    /\ \A f \in DOMAIN fs :
          \/ f \in DOMAIN gs /\ EntrySet(fs[f]) \subseteq EntrySet(gs[f])
          \/ \A e \in EntrySet(fs[f]) : e.seq \in Nat /\ e.seq < cut

\* The reader's view of names survives such a step.
LEMMA NewerKept ==
    ASSUME NEW K \in SUBSET (Nat \ {0}), NEW fs, NEW gs, NEW must, NEW cut, Newer(K, fs, must),
           DOMAIN fs \subseteq Nat \ {0}, DOMAIN gs \subseteq Nat \ {0}, Grows(fs, gs, cut)
    PROVE  Newer(K, gs, must)
<1>1. ASSUME NEW g \in K
      PROVE  \E h \in DOMAIN gs : g <= h
  <2>1. PICK h \in DOMAIN fs : g <= h
    BY DEF Newer
  <2>2. PICK i \in DOMAIN gs : h <= i
    BY DEF Grows
  <2>3. g \in Nat /\ h \in Nat /\ i \in Nat
    OBVIOUS
  <2>. QED
    BY <2>1, <2>2, <2>3
<1>2. ASSUME NEW f \in DOMAIN gs, NEW g \in K, f < g
      PROVE  EndOf(gs[f], f) < g /\ EntrySet(gs[f]) \subseteq must
  <2>1. PICK h \in DOMAIN fs : g <= h
    BY DEF Newer
  <2>2. f \in Nat /\ g \in Nat /\ h \in Nat
    OBVIOUS
  <2>3. ~(h <= f)
    BY <1>2, <2>1, <2>2
  <2>4. f \in DOMAIN fs /\ gs[f] = fs[f]
    BY <2>3 DEF Grows
  <2>. QED
    BY <1>2, <2>4 DEF Newer
<1>. QED
  BY <1>1, <1>2 DEF Newer

\* So does what it has still to find; an entry that goes was below the new
\* cutoff.
LEMMA WholeKept ==
    ASSUME NEW fs, NEW gs, NEW left, NEW es, NEW must \in SUBSET P, NEW after,
           NEW cut \in Nat, NEW low \in Nat, cut <= low, Grows(fs, gs, low),
           Whole(fs, left, es, must, after, cut)
    PROVE  Whole(gs, left, es, must, after, low)
<1>1. ASSUME NEW d \in must, d.seq > after, d.seq >= low
      PROVE  \/ d \in ToSet(es)
             \/ \E j \in 1 .. Len(left) : left[j] \in DOMAIN gs /\ d \in EntrySet(gs[left[j]])
  <2>1. d.seq \in Nat
    BY DEF P
  <2>2. d.seq >= cut /\ ~(d.seq < low)
    BY <1>1, <2>1
  <2>3. \/ d \in ToSet(es)
        \/ \E j \in 1 .. Len(left) : left[j] \in DOMAIN fs /\ d \in EntrySet(fs[left[j]])
    BY <1>1, <2>2 DEF Whole
  <2>4. ASSUME NEW f \in DOMAIN fs, d \in EntrySet(fs[f])
        PROVE  f \in DOMAIN gs /\ d \in EntrySet(gs[f])
    BY <2>2, <2>4 DEF Grows
  <2>. QED
    BY <2>3, <2>4
<1>. QED
  BY <1>1 DEF Whole

\* And so does what it has found, where a larger cutoff asks for less.
LEMMA PrefixKept ==
    ASSUME NEW es, NEW must \in SUBSET P, NEW after,
           NEW cut \in Nat, NEW low \in Nat, cut <= low, Prefix(es, must, after, cut)
    PROVE  Prefix(es, must, after, low)
<1>1. \A d \in must : d.seq \in Nat
  BY DEF P
<1>2. \A d \in must : d.seq >= low => d.seq >= cut
  BY <1>1
<1>. QED
  BY <1>2 DEF Prefix

\* Then a reader that is in ReadAfter meanwhile is not disturbed.
LEMMA ReaderKept ==
    ASSUME ReaderInv, DOMAIN files \subseteq Nat \ {0}, DOMAIN files' \subseteq Nat \ {0},
           cutoff \in Nat, cutoff' \in Nat, cutoff <= cutoff', Grows(files, files', cutoff'),
           UNCHANGED <<rpc, rleft, rafter, rmax, entries, rmust>>
    PROVE  ReaderInv'
<1> SUFFICES ASSUME rpc = "read"
             PROVE  \E K, src : Reading(K, src)'
  BY DEF ReaderInv
<1>1. PICK K, src : Reading(K, src)
  BY DEF ReaderInv
<1>2. K \in SUBSET (Nat \ {0}) /\ rmust \in SUBSET P
  BY <1>1 DEF Reading, Listed
<1>3. PICK gs : gs = files'
  OBVIOUS
<1>0. PICK low \in Nat : low = cutoff'
  OBVIOUS
<1>4. Newer(K, gs, rmust)
  <2>1. Newer(K, files, rmust)
    BY <1>1 DEF Reading
  <2>. QED
    BY <1>0, <1>2, <1>3, <2>1, NewerKept
<1>5. Progress(gs, rleft, entries, rmust, rafter, rmax, low)
  <2>1. Progress(files, rleft, entries, rmust, rafter, rmax, cutoff)
    BY <1>1 DEF Reading
  <2>2. CASE rmax > 0 /\ Len(entries) = rmax
    <3>1. rleft = <<>> /\ Prefix(entries, rmust, rafter, cutoff)
      BY <2>1, <2>2 DEF Progress
    <3>2. Prefix(entries, rmust, rafter, low)
      BY <1>0, <1>2, <3>1, PrefixKept
    <3>. QED
      BY <2>1, <2>2, <3>1, <3>2 DEF Progress
  <2>3. CASE ~(rmax > 0 /\ Len(entries) = rmax)
    <3>1. Whole(files, rleft, entries, rmust, rafter, cutoff)
      BY <2>1, <2>3 DEF Progress
    <3>2. Whole(gs, rleft, entries, rmust, rafter, low)
      BY <1>0, <1>2, <1>3, <3>1, WholeKept
    <3>. QED
      BY <2>1, <2>3, <3>2 DEF Progress
  <2>. QED
    BY <2>2, <2>3
<1>6. Reading(K, src)'
  BY <1>0, <1>1, <1>3, <1>4, <1>5 DEF Reading
<1>. QED
  BY <1>6

\* Nothing happens to the directory.
LEMMA ReaderSame ==
    ASSUME ReaderInv, UNCHANGED <<files, cutoff, rpc, rleft, rafter, rmax, entries, rmust>>
    PROVE  ReaderInv'
  BY DEF ReaderInv, Reading

\* Entries of a file have numbers.
LEMMA EntrySeqs ==
    ASSUME Inv, NEW f \in DOMAIN files, NEW e \in EntrySet(files[f])
    PROVE  e \in P /\ e.seq \in Nat
<1>1. files[f] \in Seq(P)
  BY DEF Inv, Types
<1>2. e \in P
  BY <1>1, EntriesArePieces
<1>. QED
  BY <1>2 DEF P

\* A step that leaves the directory alone is one of these.
LEMMA SameDirectory ==
    ASSUME Inv, NEW cut
    PROVE  Grows(files, files, cut)
<1>1. \A f \in DOMAIN files : f <= f
  BY DEF Inv, Types
<1>. QED
  BY <1>1 DEF Grows

\* A new session adds an empty file after all others.
LEMMA ReaderOpen ==
    ASSUME Inv, Inv', ReaderInv, OpenWriter
    PROVE  ReaderInv'
<1>1. PICK c \in Nat : c = max_seq
  BY DEF Inv, Types
<1>2. /\ scanning /\ sleft = {} /\ UNCHANGED <<cutoff, rpc, rleft, rafter, rmax, entries, rmust>>
      /\ files' = [f \in DOMAIN files \cup {c + 1} |-> IF f = c + 1 THEN <<>> ELSE files[f]]
  BY <1>1 DEF OpenWriter, CreateNewFile, reader
<1>3. ~opened
  BY <1>2 DEF Inv, Writing
<1>4. \A g \in DOMAIN files : g \in Nat \ {0} /\ files[g] \in Seq(P) /\ files[g] # <<>> /\ Good(files[g], g)
  BY <1>3 DEF Inv, Types, Filed
<1>5. \A g \in DOMAIN files : End(g) \in Nat /\ g <= End(g) /\ End(g) <= c
  BY <1>1, <1>2, <1>4, EndBounds DEF End, Inv, Scanned
<1>6. \A g \in DOMAIN files : g \in Nat /\ g < c + 1 /\ g <= g
  BY <1>4, <1>5
<1>7. /\ DOMAIN files' = DOMAIN files \cup {c + 1}
      /\ \A g \in DOMAIN files : g # c + 1 /\ files'[g] = files[g]
  BY <1>2, <1>6
<1>8. Grows(files, files', cutoff')
  <2>1. \A f \in DOMAIN files' : f \in DOMAIN files \/ f = c + 1
    BY <1>7
  <2>2. \A g \in DOMAIN files : g <= c + 1
    BY <1>6
  <2>. QED
    BY <1>6, <1>7, <2>1, <2>2 DEF Grows
<1>9. /\ DOMAIN files \subseteq Nat \ {0} /\ DOMAIN files' \subseteq Nat \ {0}
      /\ cutoff \in Nat /\ cutoff' \in Nat /\ cutoff <= cutoff'
  BY <1>2, SMTT(30) DEF Inv, Types
<1>. QED
  BY <1>2, <1>8, <1>9, ReaderKept

\* More pieces in the newest file.
LEMMA ReaderGrown ==
    ASSUME Inv, Inv', ReaderInv, opened, Grown,
           UNCHANGED <<cutoff, rpc, rleft, rafter, rmax, entries, rmust>>
    PROVE  ReaderInv'
<1>1. /\ DOMAIN files \subseteq Nat \ {0} /\ DOMAIN files' \subseteq Nat \ {0}
      /\ cutoff \in Nat /\ cutoff' \in Nat /\ cutoff <= cutoff'
  BY DEF Inv, Types
<1>2. \A g \in DOMAIN files : g <= current_file /\ g <= g
  BY <1>1 DEF Inv, Newest
<1>3. Grows(files, files', cutoff')
  BY <1>2 DEF Grown, Grows
<1>. QED
  BY <1>1, <1>3, ReaderKept

\* TruncateBefore moves the cutoff before it removes anything.
LEMMA ReaderTruncateBefore ==
    ASSUME Inv, Inv', ReaderInv, NEW k \in Cutoffs, TruncateBefore(k)
    PROVE  ReaderInv'
<1>1. UNCHANGED <<files, rpc, rleft, rafter, rmax, entries, rmust>> /\ k > cutoff /\ cutoff' = k
  BY DEF TruncateBefore, reader
<1>2. /\ DOMAIN files \subseteq Nat \ {0} /\ DOMAIN files' \subseteq Nat \ {0}
      /\ cutoff \in Nat /\ cutoff' \in Nat
  BY DEF Inv, Types
<1>3. cutoff <= cutoff'
  BY <1>1, <1>2
<1>4. Grows(files, files', cutoff')
  BY <1>1, SameDirectory
<1>. QED
  BY <1>1, <1>2, <1>3, <1>4, ReaderKept

\* What it removes ends before the cutoff.
LEMMA ReaderTruncateVisit ==
    ASSUME Inv, Inv', ReaderInv, NEW f \in tleft, TruncateVisit(f)
    PROVE  ReaderInv'
<1>1. /\ UNCHANGED <<cutoff, rpc, rleft, rafter, rmax, entries, rmust>>
      /\ files' = IF GetLastSeqInFile(f) < tseq /\ f # current_file
                  THEN [g \in DOMAIN files \ {f} |-> files[g]]
                  ELSE files
  BY DEF TruncateVisit, reader
<1>2. /\ f \in DOMAIN files /\ current_file \in DOMAIN files /\ tseq = cutoff
      /\ \A g \in DOMAIN files : g <= current_file
  BY DEF Inv, Types, Newest
<1>3. /\ DOMAIN files \subseteq Nat \ {0} /\ DOMAIN files' \subseteq Nat \ {0}
      /\ cutoff \in Nat /\ cutoff' \in Nat /\ cutoff <= cutoff'
  BY <1>1 DEF Inv, Types
<1>4. Grows(files, files', cutoff')
  <2>1. CASE files' = files
    BY <2>1, SameDirectory
  <2>2. CASE GetLastSeqInFile(f) < tseq /\ f # current_file
    <3>1. /\ DOMAIN files' = DOMAIN files \ {f} /\ \A g \in DOMAIN files' : files'[g] = files[g]
          /\ current_file \in DOMAIN files'
      BY <1>1, <1>2, <2>2
    <3>2. PICK s \in Seq(P) : s = files[f] /\ Good(s, f) /\ f \in Nat \ {0}
      BY <1>2, <1>3 DEF Inv, Types, Filed
    <3>3. EndOf(s, f) < cutoff /\ EndOf(s, f) \in Nat
      <4>1. s # <<>>
        BY <1>2, <2>2, <3>2 DEF Inv, Filed
      <4>2. GetLastSeqInFile(f) = EndOf(s, f)
        BY <3>2, <4>1 DEF GetLastSeqInFile, EndOf
      <4>. QED
        BY <1>2, <2>2, <3>2, <4>2, EndBounds
    <3>4. ASSUME NEW e \in EntrySet(files[f])
          PROVE  e.seq \in Nat /\ e.seq < cutoff'
      <4>1. e.seq <= EndOf(s, f) /\ e.seq \in Nat
        BY <1>2, <3>2, EntrySeqs, FileFacts
      <4>. QED
        BY <1>1, <1>3, <3>3, <4>1
    <3>5. \A g \in DOMAIN files' : g \in DOMAIN files
      BY <3>1
    <3>6. \A g \in DOMAIN files : g \in DOMAIN files' \/ g = f
      BY <3>1
    <3>. QED
      BY <1>2, <3>1, <3>4, <3>5, <3>6 DEF Grows
  <2>. QED
    BY <1>1, <2>1, <2>2
<1>. QED
  BY <1>1, <1>3, <1>4, ReaderKept

\* The reader begins with everything before it.
LEMMA ReaderBegins ==
    ASSUME Inv, TypeInv, NEW after \in Afters, NEW max_count \in BatchSizes, ReadCall(after, max_count)
    PROVE  ReaderInv'
<1>1. PICK K : K = DOMAIN files
  OBVIOUS
<1>2. K \subseteq Nat \ {0} /\ \A f \in K : files[f] \in Seq(P)
  BY <1>1 DEF Inv, Types
<1>3. PICK l \in Seq(K) : /\ rleft' = l
                          /\ \A x \in K : \E i \in 1 .. Len(l) : l[i] = x
                          /\ \A i, j \in 1 .. Len(l) : i < j => NameLess(l[i], l[j])
  <2>1. PICK names \in SetToSeqs(DOMAIN files) : Sorted(names) /\ rleft' = names
    BY DEF ReadCall
  <2>2. /\ names \in Seq(K) /\ DOMAIN names = 1 .. Len(names)
        /\ \A x \in K : \E i \in 1 .. Len(names) : names[i] = x
    BY <1>1, FilesFinite, NamesListed
  <2>. QED
    BY <2>1, <2>2 DEF Sorted
<1>4. /\ rafter' = after /\ rmax' = max_count /\ entries' = <<>> /\ rmust' = OnDisk(files)
      /\ files' = files /\ cutoff' = cutoff
  BY DEF ReadCall
<1>5. PICK must : must = OnDisk(files)
  OBVIOUS
<1>6. must \subseteq P
  BY <1>5, EntrySeqs, OnDiskDef
<1>7. Newer(K, files, must)
  <2>1. ASSUME NEW f \in DOMAIN files, NEW g \in K, f < g
        PROVE  EndOf(files[f], f) < g /\ EntrySet(files[f]) \subseteq must
    BY <1>1, <1>5, <2>1, OnDiskDef DEF Inv, Filed, End
  <2>2. \A g \in K : g \in DOMAIN files /\ g <= g
    BY <1>1, <1>2
  <2>. QED
    BY <2>1, <2>2 DEF Newer
<1>8. Len(<<>>) = 0 /\ 1 .. 0 = {} /\ <<>> \in Seq(P) /\ <<>> \in Seq(K)
  OBVIOUS
<1>9. Sourced(K, <<>>, <<>>, l, must, after)
  BY <1>8 DEF Sourced
<1>10. after \in Nat /\ max_count \in Nat
  BY ConstantsAssumption
<1>11. Progress(files, l, <<>>, must, after, max_count, cutoff)
  <2>1. Whole(files, l, <<>>, must, after, cutoff)
    <3>1. ASSUME NEW d \in must
          PROVE  \E j \in 1 .. Len(l) : l[j] \in DOMAIN files /\ d \in EntrySet(files[l[j]])
      <4>1. PICK f \in DOMAIN files : d \in EntrySet(files[f])
        BY <1>5, OnDiskDef
      <4>2. PICK j \in 1 .. Len(l) : l[j] = f
        BY <1>1, <1>3
      <4>. QED
        BY <4>1, <4>2
    <3>. QED
      BY <3>1 DEF Whole
  <2>. QED
    BY <1>8, <1>10, <2>1 DEF Progress
<1>12. Reading(K, <<>>)'
  <2>1. Listed(K, l)
    BY <1>2, <1>3 DEF Listed
  <2>. QED
    BY <1>3, <1>4, <1>5, <1>6, <1>7, <1>9, <1>10, <1>11, <2>1 DEF Reading
<1>. QED
  BY <1>12 DEF ReaderInv

----------------------------------------------------------------------------
(* The steps of the reader                                                 *)

\* The names that are left after the first.
LEMMA TailOf ==
    ASSUME NEW S, NEW s \in Seq(S), s # <<>>
    PROVE  /\ Tail(s) \in Seq(S) /\ Head(s) = s[1]
           /\ \A j \in 1 .. Len(Tail(s)) : j + 1 \in 2 .. Len(s) /\ Tail(s)[j] = s[j + 1]
           /\ \A j \in 2 .. Len(s) : j - 1 \in 1 .. Len(Tail(s)) /\ Tail(s)[j - 1] = s[j]
<1>1. PICK n \in Nat, t \in Seq(S) : n = Len(s) /\ t = Tail(s)
  <2>1. Tail(s) \in Seq(S) /\ Len(s) \in Nat
    BY HeadTailProperties
  <2>. QED
    BY <2>1
<1>2. Len(t) = n - 1 /\ \A i \in 1 .. n - 1 : t[i] = s[i + 1]
  BY <1>1, HeadTailProperties
<1>3. \A j \in 1 .. n - 1 : j + 1 \in 2 .. n
  OBVIOUS
<1>4. ASSUME NEW j \in 2 .. n
      PROVE  j - 1 \in 1 .. n - 1 /\ t[j - 1] = s[j]
  <2>1. j - 1 \in 1 .. n - 1 /\ j - 1 + 1 = j
    OBVIOUS
  <2>. QED
    BY <1>2, <2>1
<1>. QED
  BY <1>1, <1>2, <1>3, <1>4

\* A sequence that goes on with another one.
LEMMA JoinAt ==
    ASSUME NEW S, NEW s \in Seq(S), NEW t \in Seq(S)
    PROVE  /\ s \o t \in Seq(S) /\ Len(s \o t) = Len(s) + Len(t)
           /\ \A i \in 1 .. Len(s) + Len(t) : (s \o t)[i] = IF i <= Len(s) THEN s[i] ELSE t[i - Len(s)]
  BY ConcatProperties

\* One file more is read: either all of what it holds is taken, or max_count
\* ends the call.
LEMMA ReaderReads ==
    ASSUME Inv, ReaderInv, ReadFile
    PROVE  ReaderInv'
<1>1. /\ rpc = "read" /\ rleft # <<>>
      /\ UNCHANGED <<files, cutoff, rpc, rafter, rmax, rmust>>
  BY DEF ReadFile
<1>2. PICK K, src : Reading(K, src)
  BY <1>1 DEF ReaderInv
<1>3. /\ K \in SUBSET (Nat \ {0}) /\ rmust \in SUBSET P /\ rafter \in Nat /\ rmax \in Nat
      /\ Listed(K, rleft) /\ Newer(K, files, rmust)
      /\ Sourced(K, src, entries, rleft, rmust, rafter)
      /\ Progress(files, rleft, entries, rmust, rafter, rmax, cutoff)
  BY <1>2 DEF Reading, Listed
<1>4. PICK m \in Nat : m = Len(entries) /\ entries \in Seq(P) /\ src \in Seq(K) /\ Len(src) = m
  BY <1>3 DEF Sourced
<1>5. /\ rmax > 0 => m < rmax
      /\ Whole(files, rleft, entries, rmust, rafter, cutoff)
  BY <1>1, <1>3, <1>4 DEF Progress
<1>6. PICK f \in Nat \ {0} : f = Head(rleft) /\ f = rleft[1] /\ f \in K
  <2>1. rleft \in Seq(K)
    BY <1>3 DEF Listed
  <2>2. Head(rleft) = rleft[1] /\ 1 \in 1 .. Len(rleft)
    BY <1>1, <2>1
  <2>3. rleft[1] \in K
    BY <2>1, <2>2
  <2>. QED
    BY <1>3, <2>2, <2>3
<1>7. Directory(files)
  BY DEF Inv, Types, Filed, Directory
<1>8. PICK found : /\ found = IF f \in DOMAIN files THEN Found(files[f], rafter) ELSE <<>>
                   /\ FromFile(found, f, files, rafter)
  BY <1>3, <1>7, FoundInFile
<1>9. PICK k \in Nat : k = Len(found) /\ found \in Seq(P)
  BY <1>8 DEF FromFile
<1>10. PICK all \in Seq(P) :
          /\ all = entries \o found /\ Len(all) = m + k
          /\ \A i \in 1 .. m + k : all[i] = IF i <= m THEN entries[i] ELSE found[i - m]
  <2>1. /\ entries \o found \in Seq(P) /\ Len(entries \o found) = Len(entries) + Len(found)
        /\ \A i \in 1 .. Len(entries) + Len(found) :
              (entries \o found)[i] = IF i <= Len(entries) THEN entries[i] ELSE found[i - Len(entries)]
    BY <1>4, <1>9, JoinAt
  <2>2. PICK x : x = entries \o found
    OBVIOUS
  <2>. QED
    BY <1>4, <1>9, <2>1, <2>2
<1>11. LET full == rmax > 0 /\ Len(all) >= rmax
       IN  /\ entries' = IF full THEN SubSeq(all, 1, rmax) ELSE all
           /\ rleft' = IF full THEN <<>> ELSE Tail(rleft)
  BY <1>6, <1>8, <1>10 DEF ReadFile
<1>12. rleft \in Seq(K)
  BY <1>3 DEF Listed
<1>13. Reads(K, files, rmust, rafter, src, entries, rleft, f, found)
  BY <1>1, <1>3, <1>6, <1>7, <1>8 DEF Reads
<1>14. CASE ~(rmax > 0 /\ m + k >= rmax)
  <2>1. PICK u, l : u = entries' /\ l = rleft' /\ u = all /\ l = Tail(rleft)
    BY <1>10, <1>11, <1>14
  <2>2. l \in Seq(K) /\ Within(l, rleft) /\ Without(l, rleft)
    BY <1>1, <1>12, <2>1, TailOf DEF Within, Without
  <2>3. PICK n \in Nat : n = m + k /\ m <= n /\ n <= m + k
    OBVIOUS
  <2>4. Continued(entries, m, found, k, n, u)
    <3>1. u \in Seq(P) /\ Len(u) = n
      BY <1>10, <2>1, <2>3
    <3>2. \A i \in 1 .. n : u[i] = IF i <= m THEN entries[i] ELSE found[i - m]
      BY <1>10, <2>1, <2>3
    <3>. QED
      BY <1>4, <1>9, <2>3, <3>1, <3>2 DEF Continued
  <2>5. PICK w : w = Sources(src, m, n, f) /\ Sourced(K, w, u, l, rmust, rafter)
    BY <1>13, <2>2, <2>4, SourcedMore
  <2>6. Whole(files, l, u, rmust, rafter, cutoff)
    BY <1>5, <1>13, <2>2, <2>3, <2>4, WholeMore
  <2>7. Progress(files, l, u, rmust, rafter, rmax, cutoff)
    <3>1. Len(u) = m + k /\ (rmax > 0 => m + k < rmax)
      BY <1>3, <1>10, <1>14, <2>1
    <3>2. (rmax > 0 => Len(u) <= rmax) /\ ~(rmax > 0 /\ Len(u) = rmax)
      BY <1>3, <3>1
    <3>. QED
      BY <2>6, <3>2 DEF Progress
  <2>8. Listed(K, l)
    <3>1. ASSUME NEW i \in 1 .. Len(l), NEW j \in 1 .. Len(l), i < j
          PROVE  NameLess(l[i], l[j])
      <4>1. /\ i + 1 \in 2 .. Len(rleft) /\ l[i] = rleft[i + 1]
            /\ j + 1 \in 2 .. Len(rleft) /\ l[j] = rleft[j + 1]
        BY <1>1, <1>12, <2>1, TailOf
      <4>2. i + 1 \in 1 .. Len(rleft) /\ j + 1 \in 1 .. Len(rleft) /\ i + 1 < j + 1
        BY <3>1, <4>1
      <4>3. NameLess(rleft[i + 1], rleft[j + 1])
        BY <1>3, <4>2 DEF Listed
      <4>. QED
        BY <4>1, <4>3
    <3>. QED
      BY <1>3, <2>2, <3>1 DEF Listed
  <2>9. Reading(K, w)'
    BY <1>1, <1>3, <2>1, <2>5, <2>7, <2>8 DEF Reading
  <2>. QED
    BY <2>9 DEF ReaderInv
<1>15. CASE rmax > 0 /\ m + k >= rmax
  <2>1. PICK u : u = entries' /\ u = SubSeq(all, 1, rmax)
    BY <1>10, <1>11, <1>15
  <2>2. rleft' = <<>>
    BY <1>10, <1>11, <1>15
  <2>3. /\ u \in Seq(P) /\ Len(u) = rmax
        /\ \A i \in 1 .. rmax : u[i] = all[i]
    BY <1>3, <1>10, <1>15, <2>1, Cut
  <2>4. PICK n \in Nat : n = rmax /\ m < n /\ m <= n /\ n <= m + k
    BY <1>3, <1>5, <1>15
  <2>5. Continued(entries, m, found, k, n, u)
    <3>1. \A i \in 1 .. n : i \in 1 .. m + k /\ i \in 1 .. rmax
      BY <2>4
    <3>2. \A i \in 1 .. n : u[i] = IF i <= m THEN entries[i] ELSE found[i - m]
      BY <1>10, <2>3, <3>1
    <3>. QED
      BY <1>4, <1>9, <2>3, <2>4, <3>2 DEF Continued
  <2>6. PICK l : l = <<>>
    OBVIOUS
  <2>7. l \in Seq(K) /\ Len(l) = 0 /\ 1 .. Len(l) = {}
    BY <2>6
  <2>8. PICK w : Sourced(K, w, u, l, rmust, rafter)
    <3>1. Within(l, rleft)
      BY <2>7 DEF Within
    <3>. QED
      BY <1>13, <2>5, <3>1, SourcedMore
  <2>9. Prefix(u, rmust, rafter, cutoff)
    BY <1>5, <1>13, <2>4, <2>5, PrefixCut
  <2>10. Progress(files, l, u, rmust, rafter, rmax, cutoff)
    BY <1>3, <1>15, <2>3, <2>6, <2>9 DEF Progress
  <2>11. Listed(K, l)
    BY <1>3, <2>7 DEF Listed
  <2>12. Reading(K, w)'
    BY <1>1, <1>3, <2>1, <2>2, <2>6, <2>8, <2>10, <2>11 DEF Reading
  <2>. QED
    BY <2>12 DEF ReaderInv
<1>. QED
  BY <1>14, <1>15

\* Both invariants, promised while no crash has left an empty file.
ReadInv == ~headless => Inv /\ ReaderInv

\* No step of the writer disturbs a reader, and the reader's own steps go on.
LEMMA NextRead ==
    ASSUME TypeInv, ReadInv, [Next]_vars
    PROVE  ReadInv'
<1> SUFFICES ASSUME ~headless'
             PROVE  Inv' /\ ReaderInv'
  BY DEF ReadInv
<1>1. Inv /\ ReaderInv
  <2>1. ~headless
    BY DEF Next, ScanBegin, ScanVisit, OpenWriter, Append_, Sync, Close, Crash, TruncateBefore,
           TruncateVisit, ReadCall, ReadFile, ReadReturn, vars
  <2>. QED
    BY <2>1 DEF ReadInv
<1>2. Inv'
  <2>1. LogInv
    BY <1>1 DEF LogInv
  <2>. QED
    BY <2>1, NextLog DEF LogInv
<1>. SUFFICES ReaderInv'
  BY <1>2
<1>3. CASE UNCHANGED vars
  BY <1>1, <1>3, ReaderSame DEF vars, reader
<1>4. CASE ScanBegin \/ Crash
  <2>1. UNCHANGED <<files, cutoff, rpc, rleft, rafter, rmax, entries, rmust>>
    BY <1>4 DEF ScanBegin, Crash, reader
  <2>. QED
    BY <1>1, <2>1, ReaderSame
<1>5. CASE OpenWriter
  BY <1>1, <1>2, <1>5, ReaderOpen
<1>6. CASE Sync \/ Close
  <2>1. Grown
    BY <1>1, <1>6, SyncKeeps, CloseKeeps
  <2>2. opened /\ UNCHANGED <<cutoff, rpc, rleft, rafter, rmax, entries, rmust>>
    BY <1>6 DEF Sync, Close, reader
  <2>. QED
    BY <1>1, <1>2, <2>1, <2>2, ReaderGrown
<1>7. ASSUME NEW f \in sleft, ScanVisit(f)
      PROVE  ReaderInv'
  <2>1. UNCHANGED <<files, cutoff, rpc, rleft, rafter, rmax, entries, rmust>>
    BY <1>7 DEF ScanVisit, reader
  <2>. QED
    BY <1>1, <2>1, ReaderSame
<1>8. ASSUME NEW hasData \in BOOLEAN, Append_(hasData)
      PROVE  ReaderInv'
  <2>1. Grown
    BY <1>1, <1>8, AppendKeeps
  <2>2. opened /\ UNCHANGED <<cutoff, rpc, rleft, rafter, rmax, entries, rmust>>
    BY <1>8 DEF Append_, reader
  <2>. QED
    BY <1>1, <1>2, <2>1, <2>2, ReaderGrown
<1>9. ASSUME NEW k \in Cutoffs, TruncateBefore(k)
      PROVE  ReaderInv'
  BY <1>1, <1>2, <1>9, ReaderTruncateBefore
<1>10. ASSUME NEW f \in tleft, TruncateVisit(f)
       PROVE  ReaderInv'
  BY <1>1, <1>2, <1>10, ReaderTruncateVisit
<1>11. ASSUME NEW after \in Afters, NEW max_count \in BatchSizes, ReadCall(after, max_count)
       PROVE  ReaderInv'
  BY <1>1, <1>11, ReaderBegins
<1>12. CASE ReadFile
  BY <1>1, <1>12, ReaderReads
<1>13. CASE ReadReturn
  BY <1>13 DEF ReadReturn, ReaderInv
<1>. QED
  BY <1>3, <1>4, <1>5, <1>6, <1>7, <1>8, <1>9, <1>10, <1>11, <1>12, <1>13 DEF Next

\* The invariant of the log and of its reader.
LEMMA ReadInvHolds == Spec => []ReadInv
<1>1. Init => ReadInv
  <2>1. Init => ReaderInv
    BY DEF Init, ReaderInv
  <2>. QED
    BY <2>1, InitLog DEF ReadInv
<1>2. TypeInv /\ ReadInv /\ [Next]_vars => ReadInv'
  BY NextRead
<1>. QED
  BY <1>1, <1>2, TypeInvHolds, PTL DEF Spec

\* ReadAfter (zrt_wal_file.h) leaves no entry out, whatever the writer, its
\* crashes and restarts and TruncateBefore do between the files it reads. That
\* names of equally many digits order the files by number is proved from the
\* digits themselves.
THEOREM NothingSkipped == Spec => []ReadAfterNoGap
<1>1. ReadInv => ReadAfterNoGap
  <2> SUFFICES ASSUME ReadInv, rpc = "read", rleft = <<>>, ~headless
               PROVE  ReadAfterNoGap
    BY DEF ReadAfterNoGap
  <2>1. PICK K, src : Reading(K, src)
    BY DEF ReadInv, ReaderInv
  <2>2. /\ Sourced(K, src, entries, rleft, rmust, rafter)
        /\ Progress(files, rleft, entries, rmust, rafter, rmax, cutoff)
        /\ K \in SUBSET (Nat \ {0}) /\ rmust \in SUBSET P /\ rafter \in Nat
    BY <2>1 DEF Reading, Listed
  <2>3. entries \in Seq(P) /\ DOMAIN entries = 1 .. Len(entries) /\ Len(entries) \in Nat
    BY <2>2 DEF Sourced
  <2>4. ASSUME NEW e \in ToSet(entries)
        PROVE  e.seq > rafter
    <3>1. PICK i \in 1 .. Len(entries) : entries[i] = e
      BY <2>3 DEF ToSet
    <3>. QED
      BY <2>2, <3>1 DEF Sourced, From
  <2>5. ASSUME ~(rmax > 0 /\ Len(entries) = rmax),
               NEW d \in rmust, d.seq > rafter, d.seq >= cutoff
        PROVE  d \in ToSet(entries)
    <3>1. Whole(files, rleft, entries, rmust, rafter, cutoff)
      BY <2>2, <2>5 DEF Progress
    <3>2. 1 .. Len(rleft) = {}
      OBVIOUS
    <3>. QED
      BY <2>5, <3>1, <3>2 DEF Whole
  <2>6. ASSUME SameDigits(entries, rmust)
        PROVE  InOrder
    <3>1. ASSUME NEW i \in 2 .. Len(entries)
          PROVE  entries[i - 1].seq < entries[i].seq
      <4>1. PICK h \in 1 .. Len(entries), j \in 1 .. Len(entries) : h = i - 1 /\ j = i /\ h < j
        BY <2>3
      <4>2. entries[h].seq < entries[j].seq
        BY <2>2, <2>6, <4>1, BatchInOrder
      <4>. QED
        BY <4>1, <4>2
    <3>. QED
      BY <3>1 DEF InOrder
  <2>7. ASSUME SameDigits(entries, rmust), rmax > 0, Len(entries) = rmax,
               NEW d \in rmust, d.seq > rafter, d.seq >= cutoff, d.seq <= Last(entries).seq
        PROVE  d \in ToSet(entries)
    <3>1. Prefix(entries, rmust, rafter, cutoff)
      BY <2>2, <2>7 DEF Progress
    <3>. QED
      BY <2>7, <3>1 DEF Prefix
  <2>8. SameDigits(entries, rmust) <=>
           \A d, e \in rmust \cup ToSet(entries) : Len(digits[d.seq]) = Len(digits[e.seq])
    BY DEF SameDigits
  <2>. QED
    BY <2>4, <2>5, <2>6, <2>7, <2>8 DEF ReadAfterNoGap
<1>. QED
  BY <1>1, ReadInvHolds, PTL

=============================================================================
