------------------------- MODULE AuditReader_proofs -------------------------
(***************************************************************************)
(* Proofs about AuditReader, for every set of snapshots and filters, every *)
(* record size and chunk size.  The inductive invariant compares what the  *)
(* scan holds with the file read at once, cut after the bytes seen so far: *)
(* the buffer is the open line, the counters and the window are those of   *)
(* the lines that ended.                                                   *)
(***************************************************************************)
EXTENDS AuditReader, FiniteSetTheorems, WellFoundedInduction, SequenceTheorems, TLAPS

\* A set of naturals that is not empty has a least element: strict inclusion is
\* well-founded on the finite sets 0..k.
LEMMA LeastNatural ==
  ASSUME NEW S, S \subseteq Nat, S # {}
  PROVE  \E k \in S : \A j \in S : k <= j
<1> DEFINE F == {0..k : k \in S}
<1>1. F \subseteq FiniteSubsetsOf(Nat) /\ F # {}
  <2>1. \A k \in S : 0..k \subseteq Nat /\ IsFiniteSet(0..k)
    BY FS_Interval
  <2>2. QED
    BY <2>1 DEF FiniteSubsetsOf
<1>2. \E M \in F : \A D \in F : ~(<<D, M>> \in StrictSubsetOrdering(Nat))
  <2> HIDE DEF F
  <2>1. QED
    BY <1>1, FS_StrictSubsetOrderingWellFounded, WFMin
<1>3. PICK k \in S : \A D \in F : ~(<<D, 0..k>> \in StrictSubsetOrdering(Nat))
  BY <1>2
<1>4. ASSUME NEW j \in S, j < k PROVE FALSE
  <2>1. 0..j \in F /\ 0..j \subseteq 0..k /\ k \in 0..k /\ k \notin 0..j
    BY <1>4
  <2>2. 0..j # 0..k /\ 0..j \in SUBSET Nat /\ 0..k \in SUBSET Nat
    BY <2>1
  <2>3. <<0..j, 0..k>> \in StrictSubsetOrdering(Nat)
    BY <2>1, <2>2 DEF StrictSubsetOrdering
  <2>4. QED
    BY <1>3, <2>1, <2>3
<1>5. QED
  BY <1>4

\* The file read at once, for a file s.
NewlinesOf(s) == {i \in DOMAIN s : s[i] = NL}
Earlier(s, n) == {j \in NewlinesOf(s) : j < n} \cup {0}
StartOf(s, n) == (CHOOSE j \in Earlier(s, n) : \A k \in Earlier(s, n) : k <= j) + 1
LineOf(s, n) == SubSeq(s, StartOf(s, n), n - 1)
LongOf(s) == {e \in NewlinesOf(s) : TooLong(LineOf(s, e))}
LinesOf(s, Kinds) ==
  {e \in NewlinesOf(s) : ~TooLong(LineOf(s, e)) /\ ~IsBlank(LineOf(s, e))
                         /\ classify(LineOf(s, e)) \in Kinds}

\* How many of the positions S are among the first n.
Upto(S, n) == {e \in S : e <= n}
Count(S, n) == Cardinality(Upto(S, n))

\* The counters of the lines that end in the first n bytes of s.
Numbers(lines, valid, matching, invalid, unsupported) ==
  [lines_read |-> lines, valid_records |-> valid, matched |-> matching,
   skipped_invalid |-> invalid, skipped_unsupported_schema |-> unsupported,
   incomplete_tail |-> FALSE]
Tally(s, f, n) ==
  Numbers(Count(NewlinesOf(s), n), Count(LinesOf(s, {"a", "b"}), n),
          Count(LinesOf(s, f), n),
          Count(LinesOf(s, {"invalid"}), n) + Count(LongOf(s), n),
          Count(LinesOf(s, {"u"}), n))

\* The counters of the whole of s.
ExpectedOf(s, f) ==
  LET tail == LineOf(s, Len(s) + 1) IN
  [lines_read |-> Cardinality(NewlinesOf(s)) + Bit(TooLong(tail)),
   valid_records |-> Cardinality(LinesOf(s, {"a", "b"})),
   matched |-> Cardinality(LinesOf(s, f)),
   skipped_invalid |-> Cardinality(LinesOf(s, {"invalid"})) + Cardinality(LongOf(s))
                       + Bit(TooLong(tail)),
   skipped_unsupported_schema |-> Cardinality(LinesOf(s, {"u"})),
   incomplete_tail |-> tail # <<>>]

\* One more line, and what it adds to the other counters.
OneMore(c) == [c EXCEPT !.lines_read = @ + 1]
Taken(c, line) ==
  IF TooLong(line) THEN [c EXCEPT !.skipped_invalid = @ + 1]
  ELSE IF IsBlank(line) THEN c ELSE Applied(c, line)

\* xs are the newest l records among the lines that end at the positions E.
Window(s, E, l, xs) ==
  /\ l # 0 => Len(xs) <= l
  /\ \E at \in [DOMAIN xs -> E] :
       /\ \A i, j \in DOMAIN xs : i < j => at[i] < at[j]
       /\ \A i \in DOMAIN xs : xs[i] = classify(LineOf(s, at[i]))
       /\ \A e \in E : (\A i \in DOMAIN xs : at[i] # e) =>
            l # 0 /\ Len(xs) = l /\ \A i \in DOMAIN xs : e < at[i]

Counters == [lines_read : Nat, valid_records : Nat, matched : Nat,
             skipped_invalid : Nat, skipped_unsupported_schema : Nat,
             incomplete_tail : BOOLEAN]

\* The bytes the scan has taken.
Seen == pos - Len(rest)

ScanInv ==
  /\ snapshot \in Snapshots /\ filter \in Filters /\ limit \in Limits
  /\ pos \in 0..Len(snapshot) /\ Len(rest) \in 0..pos
  /\ rest = SubSeq(snapshot, Seen + 1, pos)
  /\ rpc \in {"scan", "done", "error"}

LineInv ==
  /\ oversized \in BOOLEAN
  /\ ~oversized => buf = LineOf(snapshot, Seen + 1) /\ ~TooLong(buf)
  /\ oversized => buf = <<>> /\ TooLong(LineOf(snapshot, Seen + 1))

CountInv ==
  /\ rpc # "done" => counters = Tally(snapshot, filter, Seen)
  /\ rpc = "done" => counters = ExpectedOf(snapshot, filter) /\ Seen = Len(snapshot)

WindowInv ==
  /\ items \in Seq({"a", "b"})
  /\ Window(snapshot, Upto(LinesOf(snapshot, filter), Seen), limit, items)

IInv == ScanInv /\ LineInv /\ CountInv /\ WindowInv

-----------------------------------------------------------------------------
\* The model's reading of the whole file is this one.
LEMMA SameReading ==
  /\ Ends = NewlinesOf(snapshot)
  /\ \A n : LineAt(n) = LineOf(snapshot, n)
  /\ \A K : EndsOf(K) = LinesOf(snapshot, K)
  /\ {e \in Ends : TooLong(LineAt(e))} = LongOf(snapshot)
<1>1. Ends = NewlinesOf(snapshot)
  BY DEF Ends, NewlinesOf
<1>2. ASSUME NEW n PROVE LineAt(n) = LineOf(snapshot, n)
  BY <1>1 DEF LineAt, LineOf, LineStart, StartOf, Before, Earlier
<1>3. ASSUME NEW K PROVE EndsOf(K) = LinesOf(snapshot, K)
  BY <1>1, <1>2 DEF EndsOf, LinesOf
<1>4. QED
  BY <1>1, <1>2, <1>3 DEF LongOf

\* The lines' ends are positions of the file.
LEMMA Positions ==
  ASSUME NEW s \in Seq(Bytes)
  PROVE  /\ NewlinesOf(s) \subseteq 1..Len(s)
         /\ LongOf(s) \subseteq NewlinesOf(s)
         /\ \A K : LinesOf(s, K) \subseteq NewlinesOf(s)
BY LenProperties DEF NewlinesOf, LongOf, LinesOf

\* The open line starts after the last newline.
LEMMA OpenLine ==
  ASSUME NEW s \in Seq(Bytes), NEW n \in 0..Len(s)
  PROVE  /\ StartOf(s, n + 1) \in 1..(n + 1)
         /\ \A i \in StartOf(s, n + 1)..n : s[i] # NL
         /\ LineOf(s, n + 1) \in Seq(Bytes \ {NL})
         /\ Len(LineOf(s, n + 1)) = n + 1 - StartOf(s, n + 1)
<1> DEFINE E == Earlier(s, n + 1)
           m == CHOOSE j \in E : \A k \in E : k <= j
<1>0. Len(s) \in Nat /\ DOMAIN s = 1..Len(s) /\ \A i \in 1..Len(s) : s[i] \in Bytes
  BY LenProperties
<1>1. E \subseteq 0..n /\ 0 \in E
  BY <1>0 DEF Earlier, NewlinesOf
<1>2. \E j \in E : \A k \in E : k <= j
  <2> DEFINE F == {n - k : k \in E}
  <2>1. F \subseteq Nat /\ F # {}
    BY <1>0, <1>1
  <2>2. PICK i \in F : \A j \in F : i <= j
    <3> HIDE DEF F
    <3>1. QED
      BY <2>1, LeastNatural
  <2>3. PICK j \in E : i = n - j
    BY <2>2
  <2>4. ASSUME NEW k \in E PROVE k <= j
    <3>1. n - k \in F
      OBVIOUS
    <3>2. n - j <= n - k
      BY <2>2, <2>3, <3>1
    <3>3. QED
      BY <3>2, <1>1
  <2>5. QED
    BY <2>4
<1>3. m \in E /\ \A k \in E : k <= m
  BY <1>2
<1>4. StartOf(s, n + 1) = m + 1
  BY DEF StartOf
<1>5. ASSUME NEW i \in (m + 1)..n, s[i] = NL PROVE FALSE
  <2>1. i \in E
    BY <1>0, <1>1, <1>3, <1>5 DEF Earlier, NewlinesOf
  <2>2. QED
    BY <2>1, <1>1, <1>3
<1>6. \A i \in (m + 1)..n : s[i] \in Bytes \ {NL}
  BY <1>0, <1>1, <1>3, <1>5
<1>7. m \in 0..n
  BY <1>1, <1>3
<1>8. \A i \in (m + 1)..n : s[i] # NL
  BY <1>5
<1> HIDE DEF m, E
<1>9. LineOf(s, n + 1) = SubSeq(s, m + 1, n)
  <2>1. (n + 1) - 1 = n
    BY <1>0
  <2>2. QED
    BY <1>4, <2>1 DEF LineOf
<1>10. /\ SubSeq(s, m + 1, n) \in Seq(Bytes \ {NL})
       /\ Len(SubSeq(s, m + 1, n)) = IF m + 1 <= n THEN n - (m + 1) + 1 ELSE 0
  <2>1. m + 1 \in Int /\ n \in Int
    BY <1>0, <1>7
  <2>2. QED
    BY <2>1, <1>6, SubSeqProperties
<1>11. n + 1 - (m + 1) = IF m + 1 <= n THEN n - (m + 1) + 1 ELSE 0
  BY <1>0, <1>7
<1>12. m + 1 \in 1..(n + 1)
  BY <1>0, <1>7
<1>13. QED
  BY <1>4, <1>8, <1>9, <1>10, <1>11, <1>12

\* The start of the open line is determined by these two facts.
LEMMA StartIs ==
  ASSUME NEW s \in Seq(Bytes), NEW n \in 0..Len(s), NEW m \in 0..n,
         m = 0 \/ s[m] = NL, \A i \in (m + 1)..n : s[i] # NL
  PROVE  StartOf(s, n + 1) = m + 1
<1> DEFINE E == Earlier(s, n + 1)
<1>0. Len(s) \in Nat /\ DOMAIN s = 1..Len(s)
  BY LenProperties
<1>1. m \in E
  BY <1>0 DEF Earlier, NewlinesOf
<1>2. ASSUME NEW k \in E PROVE k \in Int /\ k <= m
  BY <1>0 DEF Earlier, NewlinesOf
<1>3. (CHOOSE j \in E : \A k \in E : k <= j) = m
  <2>1. \A j \in E : (\A k \in E : k <= j) => j = m
    BY <1>1, <1>2
  <2>2. QED
    BY <1>1, <1>2, <2>1
<1>4. QED
  BY <1>3 DEF StartOf

\* A piece of a chunk is a piece of the file.
LEMMA Piece ==
  ASSUME NEW s \in Seq(Bytes), NEW p \in 0..Len(s), NEW n \in 0..p,
         NEW i \in 1..(p - n + 1), NEW j \in (i - 1)..(p - n)
  PROVE  /\ SubSeq(SubSeq(s, n + 1, p), i, j) = SubSeq(s, n + i, n + j)
         /\ Len(SubSeq(s, n + i, n + j)) = j - i + 1
<1> DEFINE r == SubSeq(s, n + 1, p)
           x == SubSeq(r, i, j)
           y == SubSeq(s, n + i, n + j)
<1>0. Len(s) \in Nat /\ \A k \in 1..Len(s) : s[k] \in Bytes
  BY LenProperties
<1>1. /\ r \in Seq(Bytes) /\ Len(r) = p - n
      /\ \A k \in 1..(p - n) : r[k] = s[n + k]
  <2>1. \A k \in (n + 1)..p : s[k] \in Bytes
    BY <1>0
  <2>2. n + 1 \in Int /\ p \in Int
    BY <1>0
  <2>3. /\ r \in Seq(Bytes)
        /\ Len(r) = IF n + 1 <= p THEN p - (n + 1) + 1 ELSE 0
        /\ \A k \in 1..(p - (n + 1) + 1) : r[k] = s[n + 1 + k - 1]
    BY <2>1, <2>2, SubSeqProperties
  <2> HIDE DEF r
  <2>4. p - (n + 1) + 1 = p - n
    BY <1>0
  <2>5. \A k \in 1..(p - n) : n + 1 + k - 1 = n + k
    BY <1>0
  <2>6. QED
    BY <1>0, <2>3, <2>4, <2>5
<1> HIDE DEF r
<1>2. /\ x \in Seq(Bytes) /\ Len(x) = j - i + 1
      /\ \A k \in 1..(j - i + 1) : x[k] = s[n + i + k - 1]
  <2>1. \A k \in i..j : r[k] \in Bytes /\ r[k] = s[n + k]
    BY <1>0, <1>1
  <2>2. i \in Int /\ j \in Int
    BY <1>0
  <2>3. /\ x \in Seq(Bytes)
        /\ Len(x) = IF i <= j THEN j - i + 1 ELSE 0
        /\ \A k \in 1..(j - i + 1) : x[k] = r[i + k - 1]
    BY <2>1, <2>2, SubSeqProperties
  <2> HIDE DEF x
  <2>4. \A k \in 1..(j - i + 1) : i + k - 1 \in i..j /\ n + (i + k - 1) = n + i + k - 1
    BY <1>0
  <2>5. \A k \in 1..(j - i + 1) : x[k] = s[n + i + k - 1]
    BY <2>1, <2>3, <2>4
  <2>6. (IF i <= j THEN j - i + 1 ELSE 0) = j - i + 1
    BY <1>0
  <2>7. QED
    BY <2>3, <2>5, <2>6
<1>3. /\ y \in Seq(Bytes) /\ Len(y) = j - i + 1
      /\ \A k \in 1..(j - i + 1) : y[k] = s[n + i + k - 1]
  <2>1. \A k \in (n + i)..(n + j) : s[k] \in Bytes
    BY <1>0
  <2>2. n + i \in Int /\ n + j \in Int
    BY <1>0
  <2>3. /\ y \in Seq(Bytes)
        /\ Len(y) = IF n + i <= n + j THEN (n + j) - (n + i) + 1 ELSE 0
        /\ \A k \in 1..((n + j) - (n + i) + 1) : y[k] = s[n + i + k - 1]
    BY <2>1, <2>2, SubSeqProperties
  <2> HIDE DEF y
  <2>4. (n + j) - (n + i) + 1 = j - i + 1
    BY <1>0
  <2>5. (IF n + i <= n + j THEN j - i + 1 ELSE 0) = j - i + 1
    BY <1>0
  <2>6. QED
    BY <2>3, <2>4, <2>5
<1> HIDE DEF x, y
<1>4. x = y
  BY <1>2, <1>3, SeqEqual
<1>5. QED
  BY <1>3, <1>4 DEF x, y, r

\* Bytes without a newline make the open line longer and end none.
LEMMA Longer ==
  ASSUME NEW s \in Seq(Bytes), NEW n \in 0..Len(s), NEW e \in n..Len(s),
         \A i \in (n + 1)..e : s[i] # NL
  PROVE  /\ StartOf(s, e + 1) = StartOf(s, n + 1)
         /\ LineOf(s, e + 1) = LineOf(s, n + 1) \o SubSeq(s, n + 1, e)
         /\ \A S : S \subseteq NewlinesOf(s) => Upto(S, e) = Upto(S, n)
<1>0. Len(s) \in Nat /\ DOMAIN s = 1..Len(s)
  BY LenProperties
<1>1. Earlier(s, e + 1) = Earlier(s, n + 1)
  BY <1>0 DEF Earlier, NewlinesOf
<1>2. StartOf(s, e + 1) = StartOf(s, n + 1)
  BY <1>1 DEF StartOf
<1>3. StartOf(s, n + 1) \in 1..(n + 1)
  BY OpenLine
<1> DEFINE b == StartOf(s, n + 1)
<1> HIDE DEF b
<1>4. SubSeq(s, b, n) \o SubSeq(s, n + 1, e) = SubSeq(s, b, e)
  <2>1. b \in 1..(Len(s) + 1) /\ n \in (b - 1)..Len(s) /\ e \in n..Len(s)
    BY <1>0, <1>3 DEF b
  <2>2. QED
    BY <2>1, ConcatAdjacentSubSeq
<1>5. (e + 1) - 1 = e /\ (n + 1) - 1 = n
  BY <1>0
<1>6. LineOf(s, e + 1) = SubSeq(s, b, e) /\ LineOf(s, n + 1) = SubSeq(s, b, n)
  BY <1>2, <1>5 DEF LineOf, b
<1>7. ASSUME NEW S, S \subseteq NewlinesOf(s) PROVE Upto(S, e) = Upto(S, n)
  BY <1>0, <1>7 DEF Upto, NewlinesOf
<1>8. QED
  BY <1>2, <1>4, <1>6, <1>7

\* A newline ends the open line and no other, and the next one is empty.
LEMMA Ended ==
  ASSUME NEW s \in Seq(Bytes), NEW n \in 0..Len(s), NEW e \in (n + 1)..Len(s),
         s[e] = NL, \A i \in (n + 1)..(e - 1) : s[i] # NL
  PROVE  /\ e \in NewlinesOf(s)
         /\ LineOf(s, e) = LineOf(s, n + 1) \o SubSeq(s, n + 1, e - 1)
         /\ StartOf(s, e) = StartOf(s, n + 1)
         /\ LineOf(s, e + 1) = <<>>
         /\ \A x \in NewlinesOf(s) : n < x /\ x <= e => x = e
<1>0. Len(s) \in Nat /\ DOMAIN s = 1..Len(s)
  BY LenProperties
<1>1. e - 1 \in n..Len(s) /\ (e - 1) + 1 = e
  BY <1>0
<1>2. /\ StartOf(s, e) = StartOf(s, n + 1)
      /\ LineOf(s, e) = LineOf(s, n + 1) \o SubSeq(s, n + 1, e - 1)
  BY <1>1, Longer
<1>3. StartOf(s, e + 1) = e + 1
  <2>1. e \in 0..Len(s) /\ e \in 0..e /\ \A i \in (e + 1)..e : s[i] # NL
    BY <1>0
  <2>2. QED
    BY <2>1, StartIs
<1>4. LineOf(s, e + 1) = <<>>
  <2>1. e + 1 \in Int /\ (e + 1) - 1 \in Int /\ (e + 1) - 1 < e + 1
    BY <1>0
  <2>2. QED
    BY <1>3, <2>1, SubSeqEmpty DEF LineOf
<1>5. QED
  BY <1>0, <1>2, <1>4 DEF NewlinesOf

\* One more line end among the first e positions.
LEMMA CountStep ==
  ASSUME NEW S, S \subseteq Nat, NEW n \in Nat, NEW e \in Nat, n < e,
         \A x \in S : n < x /\ x <= e => x = e
  PROVE  /\ Count(S, n) \in Nat
         /\ Count(S, e) = Count(S, n) + (IF e \in S THEN 1 ELSE 0)
         /\ Upto(S, e) = IF e \in S THEN Upto(S, n) \cup {e} ELSE Upto(S, n)
         /\ \A x \in Upto(S, n) : x \in Nat /\ x < e
<1>1. Upto(S, n) \in SUBSET Nat /\ n \in Nat /\ \A x \in Upto(S, n) : x <= n
  BY DEF Upto
<1>2. IsFiniteSet(Upto(S, n))
  BY <1>1, FS_BoundedSetOfNaturals
<1>3. Count(S, n) \in Nat
  BY <1>2, FS_CardinalityType DEF Count
<1>4. Upto(S, e) = IF e \in S THEN Upto(S, n) \cup {e} ELSE Upto(S, n)
  <2>1. \A x \in S : x <= e <=> x <= n \/ x = e
    <3>1. \A x \in S : x \in Int /\ (x <= n \/ n < x)
      OBVIOUS
    <3>2. QED
      BY <3>1
  <2>2. QED
    BY <2>1 DEF Upto
<1>5. e \notin Upto(S, n) /\ \A x \in Upto(S, n) : x \in Nat /\ x < e
  BY DEF Upto
<1>6. Cardinality(Upto(S, n) \cup {e}) = Cardinality(Upto(S, n)) + 1
  BY <1>2, <1>5, FS_AddElement
<1>7. CASE e \in S
  BY <1>3, <1>4, <1>5, <1>6, <1>7 DEF Count
<1>8. CASE e \notin S
  BY <1>3, <1>4, <1>5, <1>8 DEF Count
<1>9. QED
  BY <1>7, <1>8

\* What a line may be.
LEMMA Classes ==
  ASSUME NEW line \in Seq(Bytes \ {NL})
  PROVE  classify(line) \in {"invalid", "a", "b", "u"}
<1> DEFINE letters == {i \in DOMAIN line : line[i] # Space}
<1>1. CASE Cardinality(letters) = 1
  <2>1. letters # {}
    <3> HIDE DEF letters
    <3>1. Cardinality({}) = 0
      BY FS_EmptySet
    <3>2. Cardinality({}) # 1
      BY <3>1
    <3>3. QED
      BY <1>1, <3>2
  <2>2. (CHOOSE i \in letters : TRUE) \in letters
    BY <2>1
  <2>3. \A i \in letters : line[i] \in (Bytes \ {NL}) \ {Space}
    BY LenProperties
  <2>4. (Bytes \ {NL}) \ {Space} = {"a", "b", "u"}
    BY DEF Bytes, NL, Space
  <2>5. classify(line) = line[CHOOSE i \in letters : TRUE]
    BY <1>1 DEF classify
  <2>6. QED
    BY <2>2, <2>3, <2>4, <2>5
<1>2. CASE Cardinality(letters) # 1
  BY <1>2 DEF classify
<1>3. QED
  BY <1>1, <1>2

\* What adding one to a counter makes.
LEMMA NumbersStep ==
  ASSUME NEW R \in Counters, R.incomplete_tail = FALSE
  PROVE  /\ [R EXCEPT !.lines_read = @ + 1] =
             Numbers(R.lines_read + 1, R.valid_records, R.matched,
                     R.skipped_invalid, R.skipped_unsupported_schema)
        /\ [R EXCEPT !.skipped_invalid = @ + 1] =
             Numbers(R.lines_read, R.valid_records, R.matched,
                     R.skipped_invalid + 1, R.skipped_unsupported_schema)
        /\ [R EXCEPT !.skipped_unsupported_schema = @ + 1] =
             Numbers(R.lines_read, R.valid_records, R.matched,
                     R.skipped_invalid, R.skipped_unsupported_schema + 1)
        /\ [R EXCEPT !.valid_records = @ + 1, !.matched = @ + 1] =
             Numbers(R.lines_read, R.valid_records + 1, R.matched + 1,
                     R.skipped_invalid, R.skipped_unsupported_schema)
        /\ [R EXCEPT !.valid_records = @ + 1, !.matched = @] =
             Numbers(R.lines_read, R.valid_records + 1, R.matched,
                     R.skipped_invalid, R.skipped_unsupported_schema)
<1>1. /\ R.lines_read + 1 \in Nat /\ R.valid_records + 1 \in Nat
      /\ R.matched + 1 \in Nat /\ R.matched \in Nat
      /\ R.skipped_invalid + 1 \in Nat /\ R.skipped_unsupported_schema + 1 \in Nat
  BY DEF Counters
<1>2. [R EXCEPT !.lines_read = @ + 1] =
       Numbers(R.lines_read + 1, R.valid_records, R.matched,
               R.skipped_invalid, R.skipped_unsupported_schema)
  <2> DEFINE q == [R EXCEPT !.lines_read = @ + 1]
  <2>1. q \in Counters
    BY <1>1 DEF Counters
  <2>2. /\ q.lines_read = R.lines_read + 1 /\ q.valid_records = R.valid_records
        /\ q.matched = R.matched /\ q.skipped_invalid = R.skipped_invalid
        /\ q.skipped_unsupported_schema = R.skipped_unsupported_schema
        /\ q.incomplete_tail = FALSE
    BY <1>1 DEF Counters
  <2> HIDE DEF q
  <2>3. q = Numbers(R.lines_read + 1, R.valid_records, R.matched,
                    R.skipped_invalid, R.skipped_unsupported_schema)
    BY <1>1, <2>1, <2>2 DEF Counters, Numbers
  <2>4. QED
    BY <2>3 DEF q
<1>3. [R EXCEPT !.skipped_invalid = @ + 1] =
       Numbers(R.lines_read, R.valid_records, R.matched,
               R.skipped_invalid + 1, R.skipped_unsupported_schema)
  <2> DEFINE q == [R EXCEPT !.skipped_invalid = @ + 1]
  <2>1. q \in Counters
    BY <1>1 DEF Counters
  <2>2. /\ q.lines_read = R.lines_read /\ q.valid_records = R.valid_records
        /\ q.matched = R.matched /\ q.skipped_invalid = R.skipped_invalid + 1
        /\ q.skipped_unsupported_schema = R.skipped_unsupported_schema
        /\ q.incomplete_tail = FALSE
    BY <1>1 DEF Counters
  <2> HIDE DEF q
  <2>3. q = Numbers(R.lines_read, R.valid_records, R.matched,
                    R.skipped_invalid + 1, R.skipped_unsupported_schema)
    BY <1>1, <2>1, <2>2 DEF Counters, Numbers
  <2>4. QED
    BY <2>3 DEF q
<1>4. [R EXCEPT !.skipped_unsupported_schema = @ + 1] =
       Numbers(R.lines_read, R.valid_records, R.matched,
               R.skipped_invalid, R.skipped_unsupported_schema + 1)
  <2> DEFINE q == [R EXCEPT !.skipped_unsupported_schema = @ + 1]
  <2>1. q \in Counters
    BY <1>1 DEF Counters
  <2>2. /\ q.lines_read = R.lines_read /\ q.valid_records = R.valid_records
        /\ q.matched = R.matched /\ q.skipped_invalid = R.skipped_invalid
        /\ q.skipped_unsupported_schema = R.skipped_unsupported_schema + 1
        /\ q.incomplete_tail = FALSE
    BY <1>1 DEF Counters
  <2> HIDE DEF q
  <2>3. q = Numbers(R.lines_read, R.valid_records, R.matched,
                    R.skipped_invalid, R.skipped_unsupported_schema + 1)
    BY <1>1, <2>1, <2>2 DEF Counters, Numbers
  <2>4. QED
    BY <2>3 DEF q
<1>5. [R EXCEPT !.valid_records = @ + 1, !.matched = @ + 1] =
       Numbers(R.lines_read, R.valid_records + 1, R.matched + 1,
               R.skipped_invalid, R.skipped_unsupported_schema)
  <2> DEFINE q == [R EXCEPT !.valid_records = @ + 1, !.matched = @ + 1]
  <2>1. q \in Counters
    BY <1>1 DEF Counters
  <2>2. /\ q.lines_read = R.lines_read /\ q.valid_records = R.valid_records + 1
        /\ q.matched = R.matched + 1 /\ q.skipped_invalid = R.skipped_invalid
        /\ q.skipped_unsupported_schema = R.skipped_unsupported_schema
        /\ q.incomplete_tail = FALSE
    BY <1>1 DEF Counters
  <2> HIDE DEF q
  <2>3. q = Numbers(R.lines_read, R.valid_records + 1, R.matched + 1,
                    R.skipped_invalid, R.skipped_unsupported_schema)
    BY <1>1, <2>1, <2>2 DEF Counters, Numbers
  <2>4. QED
    BY <2>3 DEF q
<1>6. [R EXCEPT !.valid_records = @ + 1, !.matched = @] =
       Numbers(R.lines_read, R.valid_records + 1, R.matched,
               R.skipped_invalid, R.skipped_unsupported_schema)
  <2> DEFINE q == [R EXCEPT !.valid_records = @ + 1, !.matched = @]
  <2>1. q \in Counters
    BY <1>1 DEF Counters
  <2>2. /\ q.lines_read = R.lines_read /\ q.valid_records = R.valid_records + 1
        /\ q.matched = R.matched /\ q.skipped_invalid = R.skipped_invalid
        /\ q.skipped_unsupported_schema = R.skipped_unsupported_schema
        /\ q.incomplete_tail = FALSE
    BY <1>1 DEF Counters
  <2> HIDE DEF q
  <2>3. q = Numbers(R.lines_read, R.valid_records + 1, R.matched,
                    R.skipped_invalid, R.skipped_unsupported_schema)
    BY <1>1, <2>1, <2>2 DEF Counters, Numbers
  <2>4. QED
    BY <2>3 DEF q
<1>7. QED
  BY <1>2, <1>3, <1>4, <1>5, <1>6

\* The counters of one more line are those apply_line makes.
LEMMA TallyStep ==
  ASSUME NEW s \in Seq(Bytes), NEW n \in 0..Len(s), NEW e \in (n + 1)..Len(s),
         s[e] = NL, \A i \in (n + 1)..(e - 1) : s[i] # NL,
         filter \subseteq {"a", "b"},
         NEW line, line = LineOf(s, e),
         NEW c, c = OneMore(Tally(s, filter, n))
  PROVE  Tally(s, filter, e) = Taken(c, line)
<1> DEFINE one(S) == IF e \in S THEN 1 ELSE 0
           N == NewlinesOf(s)
           V == LinesOf(s, {"a", "b"})
           M == LinesOf(s, filter)
           I == LinesOf(s, {"invalid"})
           L == LongOf(s)
           U == LinesOf(s, {"u"})
<1>0. Len(s) \in Nat
  BY LenProperties
<1>1. e \in N /\ \A x \in N : n < x /\ x <= e => x = e
  BY Ended
<1>2. ASSUME NEW S, S \subseteq N
      PROVE  Count(S, n) \in Nat /\ Count(S, e) = Count(S, n) + one(S)
  <2>1. S \subseteq Nat /\ \A x \in S : n < x /\ x <= e => x = e
    BY <1>0, <1>1, <1>2, Positions
  <2>2. n \in Nat /\ e \in Nat /\ n < e
    BY <1>0
  <2> HIDE DEF one, N, V, M, I, L, U
  <2>3. /\ Count(S, n) \in Nat
        /\ Count(S, e) = Count(S, n) + (IF e \in S THEN 1 ELSE 0)
    BY <2>1, <2>2, CountStep
  <2>4. QED
    BY <2>3 DEF one
<1>3. /\ V \subseteq N /\ M \subseteq N /\ I \subseteq N /\ L \subseteq N /\ U \subseteq N
  BY Positions
<1>4. /\ Count(N, n) \in Nat /\ Count(N, e) = Count(N, n) + one(N)
      /\ Count(V, n) \in Nat /\ Count(V, e) = Count(V, n) + one(V)
      /\ Count(M, n) \in Nat /\ Count(M, e) = Count(M, n) + one(M)
      /\ Count(I, n) \in Nat /\ Count(I, e) = Count(I, n) + one(I)
      /\ Count(L, n) \in Nat /\ Count(L, e) = Count(L, n) + one(L)
      /\ Count(U, n) \in Nat /\ Count(U, e) = Count(U, n) + one(U)
  BY <1>2, <1>3
<1>5. classify(line) \in {"invalid", "a", "b", "u"}
  <2>1. e - 1 \in 0..Len(s) /\ (e - 1) + 1 = e
    BY <1>0
  <2>2. line \in Seq(Bytes \ {NL})
    BY <2>1, OpenLine
  <2>3. QED
    BY <2>2, Classes
<1>6. /\ e \in L <=> TooLong(line)
      /\ \A K : e \in LinesOf(s, K) <=>
                  ~TooLong(line) /\ ~IsBlank(line) /\ classify(line) \in K
  BY <1>1 DEF LongOf, LinesOf
<1>8. /\ one(N) = 1 /\ one(L) = Bit(TooLong(line))
      /\ \A K : one(LinesOf(s, K)) =
                  Bit(~TooLong(line) /\ ~IsBlank(line) /\ classify(line) \in K)
  BY <1>1, <1>6 DEF Bit
<1> HIDE DEF one, N, V, M, I, L, U
<1> DEFINE n1 == Count(N, n)
           n2 == Count(V, n)
           n3 == Count(M, n)
           n4 == Count(I, n) + Count(L, n)
           n5 == Count(U, n)
<1>9. /\ n1 \in Nat /\ n2 \in Nat /\ n3 \in Nat /\ n4 \in Nat /\ n5 \in Nat
      /\ n1 + 1 \in Nat
  BY <1>4
<1>10. Tally(s, filter, e) = Numbers(n1 + 1, n2 + one(V), n3 + one(M),
                                n4 + (one(I) + one(L)), n5 + one(U))
  <2>1. Tally(s, filter, e) = Numbers(Count(N, e), Count(V, e), Count(M, e),
                                 Count(I, e) + Count(L, e), Count(U, e))
    BY DEF Tally, N, V, M, I, L, U
  <2>2. Count(I, e) + Count(L, e) = n4 + (one(I) + one(L))
    <3>1. one(I) \in Nat /\ one(L) \in Nat
      BY DEF one
    <3>2. QED
      BY <1>4, <3>1
  <2>3. Count(N, e) = n1 + 1
    BY <1>4, <1>8
  <2>4. QED
    BY <1>4, <2>1, <2>2, <2>3
<1>11. Tally(s, filter, n) = Numbers(n1, n2, n3, n4, n5)
  BY DEF Tally, N, V, M, I, L, U
<1> HIDE DEF n1, n2, n3, n4, n5
<1> DEFINE d == Tally(s, filter, n)
<1>7. /\ d \in Counters
      /\ d.lines_read = n1 /\ d.valid_records = n2 /\ d.matched = n3
      /\ d.skipped_invalid = n4 /\ d.skipped_unsupported_schema = n5
      /\ d.incomplete_tail = FALSE
  BY <1>9, <1>11 DEF Numbers, Counters
<1> HIDE DEF d
<1>12. /\ c \in Counters
       /\ c.lines_read = n1 + 1 /\ c.valid_records = n2 /\ c.matched = n3
       /\ c.skipped_invalid = n4 /\ c.skipped_unsupported_schema = n5
       /\ c.incomplete_tail = FALSE
       /\ c = Numbers(n1 + 1, n2, n3, n4, n5)
  <2>1. c = [d EXCEPT !.lines_read = @ + 1]
    BY DEF d, OneMore
  <2>2. c = Numbers(n1 + 1, n2, n3, n4, n5)
    BY <1>7, <2>1, NumbersStep
  <2>3. ASSUME NEW x, x = Numbers(n1 + 1, n2, n3, n4, n5)
        PROVE  /\ x \in Counters
               /\ x.lines_read = n1 + 1 /\ x.valid_records = n2 /\ x.matched = n3
               /\ x.skipped_invalid = n4 /\ x.skipped_unsupported_schema = n5
               /\ x.incomplete_tail = FALSE
    BY <1>9, <2>3 DEF Numbers, Counters
  <2>4. QED
    BY <2>2, <2>3
<1>13. ASSUME NEW dv \in {0, 1}, NEW dm \in {0, 1}, NEW di \in {0, 1}, NEW du \in {0, 1},
              one(V) = dv, one(M) = dm, one(I) + one(L) = di, one(U) = du
       PROVE  Tally(s, filter, e) = Numbers(n1 + 1, n2 + dv, n3 + dm, n4 + di, n5 + du)
  BY <1>10, <1>13
<1>14. n2 + 0 = n2 /\ n3 + 0 = n3 /\ n4 + 0 = n4 /\ n5 + 0 = n5
  BY <1>9
<1>15. CASE TooLong(line)
  <2>1. one(L) = 1 /\ one(V) = 0 /\ one(M) = 0 /\ one(I) = 0 /\ one(U) = 0
    BY <1>8, <1>15 DEF V, M, I, U, Bit
  <2>2. Tally(s, filter, e) = Numbers(n1 + 1, n2, n3, n4 + 1, n5)
    BY <1>13, <1>14, <2>1
  <2>3. [c EXCEPT !.skipped_invalid = @ + 1] = Numbers(n1 + 1, n2, n3, n4 + 1, n5)
    <3>1. [c EXCEPT !.skipped_invalid = @ + 1] =
             Numbers(c.lines_read, c.valid_records, c.matched,
                     c.skipped_invalid + 1, c.skipped_unsupported_schema)
      BY <1>12, NumbersStep
    <3>2. QED
      BY <1>12, <3>1
  <2>4. QED
    BY <1>15, <2>2, <2>3 DEF Taken
<1>16. CASE ~TooLong(line) /\ IsBlank(line)
  <2>1. one(L) = 0 /\ one(V) = 0 /\ one(M) = 0 /\ one(I) = 0 /\ one(U) = 0
    BY <1>8, <1>16 DEF V, M, I, U, Bit
  <2>2. Tally(s, filter, e) = Numbers(n1 + 1, n2, n3, n4, n5)
    BY <1>13, <1>14, <2>1
  <2>3. QED
    BY <1>12, <1>16, <2>2 DEF Taken
<1>17. CASE ~TooLong(line) /\ ~IsBlank(line)
  <2>1. /\ one(L) = 0 /\ one(V) = Bit(classify(line) \in {"a", "b"})
        /\ one(M) = Bit(classify(line) \in filter)
        /\ one(I) = Bit(classify(line) \in {"invalid"})
        /\ one(U) = Bit(classify(line) \in {"u"})
    BY <1>8, <1>17 DEF V, M, I, U, Bit
  <2>2. Tally(s, filter, e) = Applied(c, line)
    <3>1. CASE classify(line) = "invalid"
      <4>1. one(V) = 0 /\ one(M) = 0 /\ one(I) = 1 /\ one(U) = 0
        BY <2>1, <3>1 DEF Bit
      <4>2. Tally(s, filter, e) = Numbers(n1 + 1, n2, n3, n4 + 1, n5)
        BY <1>13, <1>14, <2>1, <4>1
      <4>3. Applied(c, line) = [c EXCEPT !.skipped_invalid = @ + 1]
        BY <3>1 DEF Applied
      <4>4. QED
        BY <1>12, <4>2, <4>3, NumbersStep
    <3>2. CASE classify(line) = "u"
      <4>1. one(V) = 0 /\ one(M) = 0 /\ one(I) = 0 /\ one(U) = 1
        BY <2>1, <3>2 DEF Bit
      <4>2. Tally(s, filter, e) = Numbers(n1 + 1, n2, n3, n4, n5 + 1)
        BY <1>13, <1>14, <2>1, <4>1
      <4>3. Applied(c, line) = [c EXCEPT !.skipped_unsupported_schema = @ + 1]
        BY <3>2 DEF Applied
      <4>4. QED
        BY <1>12, <4>2, <4>3, NumbersStep
    <3>3. CASE classify(line) \in {"a", "b"}
      <4>1. one(V) = 1 /\ one(I) = 0 /\ one(U) = 0
        BY <2>1, <3>3 DEF Bit
      <4>2. Applied(c, line) =
              [c EXCEPT !.valid_records = @ + 1,
                        !.matched = IF classify(line) \in filter THEN @ + 1 ELSE @]
        BY <3>3 DEF Applied
      <4>3. CASE classify(line) \in filter
        <5>1. one(M) = 1
          BY <2>1, <4>3 DEF Bit
        <5>2. Tally(s, filter, e) = Numbers(n1 + 1, n2 + 1, n3 + 1, n4, n5)
          BY <1>13, <1>14, <2>1, <4>1, <5>1
        <5>3. Applied(c, line) = [c EXCEPT !.valid_records = @ + 1, !.matched = @ + 1]
          BY <4>2, <4>3
        <5>4. QED
          BY <1>12, <5>2, <5>3, NumbersStep
      <4>4. CASE classify(line) \notin filter
        <5>1. one(M) = 0
          BY <2>1, <4>4 DEF Bit
        <5>2. Tally(s, filter, e) = Numbers(n1 + 1, n2 + 1, n3, n4, n5)
          BY <1>13, <1>14, <2>1, <4>1, <5>1
        <5>3. Applied(c, line) = [c EXCEPT !.valid_records = @ + 1, !.matched = @]
          BY <4>2, <4>4
        <5>4. QED
          BY <1>12, <5>2, <5>3, NumbersStep
      <4>5. QED
        BY <4>3, <4>4
    <3>4. QED
      BY <1>5, <3>1, <3>2, <3>3
  <2>3. QED
    BY <1>17, <2>2 DEF Taken
<1>18. QED
  BY <1>15, <1>16, <1>17

\* The window after one more matching line.
LEMMA WindowStep ==
  ASSUME NEW s, NEW E, E \subseteq Nat, NEW e \in Nat, \A x \in E : x < e,
         NEW l \in Nat, NEW xs \in Seq({"a", "b"}), Window(s, E, l, xs),
         NEW k \in {"a", "b"}, k = classify(LineOf(s, e)),
         NEW ys, ys = IF l > 0 /\ Len(xs) = l THEN Append(Tail(xs), k) ELSE Append(xs, k)
  PROVE  ys \in Seq({"a", "b"}) /\ Window(s, E \cup {e}, l, ys)
<1> DEFINE m == Len(xs)
           kind(x) == classify(LineOf(s, x))
<1>1. m \in Nat /\ DOMAIN xs = 1..m
  BY LenProperties
<1>2. l # 0 => m <= l
  BY DEF Window
<1>3. PICK at \in [1..m -> E] :
        /\ \A i, j \in 1..m : i < j => at[i] < at[j]
        /\ \A i \in 1..m : xs[i] = kind(at[i])
        /\ \A x \in E : (\A i \in 1..m : at[i] # x) =>
             l # 0 /\ m = l /\ \A i \in 1..m : x < at[i]
  BY <1>1 DEF Window
<1>4. \A i \in 1..m : at[i] \in E /\ at[i] \in Nat /\ at[i] < e
  BY <1>3
<1>5. k = kind(e)
  OBVIOUS
<1> HIDE DEF m, kind
<1>6. CASE ~(l > 0 /\ m = l)
  <2> DEFINE bt == [i \in 1..(m + 1) |-> IF i <= m THEN at[i] ELSE e]
  <2>1. ys = Append(xs, k)
    BY <1>6 DEF m
  <2>2. /\ ys \in Seq({"a", "b"}) /\ Len(ys) = m + 1
        /\ \A i \in 1..m : ys[i] = xs[i]
        /\ ys[m + 1] = k
    BY <2>1, AppendProperties DEF m
  <2>3. DOMAIN ys = 1..(m + 1)
    BY <2>2, LenProperties
  <2>4. bt \in [1..(m + 1) -> E \cup {e}]
    BY <1>1, <1>4
  <2>5. \A i \in 1..(m + 1) : (i \in 1..m /\ bt[i] = at[i]) \/ (i = m + 1 /\ bt[i] = e)
    BY <1>1
  <2> HIDE DEF bt
  <2>6. \A i, j \in 1..(m + 1) : i < j => bt[i] < bt[j]
    BY <1>1, <1>3, <1>4, <2>5
  <2>7. \A i \in 1..(m + 1) : ys[i] = kind(bt[i])
    BY <1>3, <1>5, <2>2, <2>5
  <2>8. ASSUME NEW x \in E \cup {e}, \A i \in 1..(m + 1) : bt[i] # x PROVE FALSE
    <3>1. \A i \in 1..m : i \in 1..(m + 1) /\ i # m + 1
      BY <1>1
    <3>2. m + 1 \in 1..(m + 1)
      BY <1>1
    <3>3. bt[m + 1] = e
      BY <1>1, <2>5, <3>2
    <3>4. x \in E /\ \A i \in 1..m : at[i] # x
      BY <2>5, <2>8, <3>1, <3>2, <3>3
    <3>5. l # 0 /\ m = l
      BY <1>3, <3>4
    <3>6. QED
      BY <1>6, <3>5
  <2>9. l # 0 => m + 1 <= l
    BY <1>1, <1>2, <1>6
  <2>10. Window(s, E \cup {e}, l, ys)
    <3>1. /\ \A i, j \in DOMAIN ys : i < j => bt[i] < bt[j]
          /\ \A i \in DOMAIN ys : ys[i] = classify(LineOf(s, bt[i]))
          /\ \A x \in E \cup {e} : (\A i \in DOMAIN ys : bt[i] # x) =>
               l # 0 /\ Len(ys) = l /\ \A i \in DOMAIN ys : x < bt[i]
      BY <2>3, <2>6, <2>7, <2>8 DEF kind
    <3>2. bt \in [DOMAIN ys -> E \cup {e}] /\ (l # 0 => Len(ys) <= l)
      BY <2>2, <2>3, <2>4, <2>9
    <3>3. QED
      BY <3>1, <3>2 DEF Window
  <2>11. QED
    BY <2>2, <2>10
<1>7. CASE l > 0 /\ m = l
  <2> DEFINE bt == [i \in 1..m |-> IF i < m THEN at[i + 1] ELSE e]
  <2>1. ys = Append(Tail(xs), k) /\ xs # <<>>
    BY <1>7 DEF m
  <2>2. /\ Tail(xs) \in Seq({"a", "b"}) /\ Len(Tail(xs)) = m - 1
        /\ \A i \in 1..(m - 1) : Tail(xs)[i] = xs[i + 1]
    BY <2>1, HeadTailProperties DEF m
  <2>3. /\ ys \in Seq({"a", "b"}) /\ Len(ys) = (m - 1) + 1
        /\ \A i \in 1..(m - 1) : ys[i] = Tail(xs)[i]
        /\ ys[(m - 1) + 1] = k
    BY <2>1, <2>2, AppendProperties
  <2>4. (m - 1) + 1 = m
    BY <1>1
  <2>5. /\ Len(ys) = m /\ ys[m] = k
        /\ \A i \in 1..(m - 1) : ys[i] = xs[i + 1]
    BY <2>2, <2>3, <2>4
  <2>6. DOMAIN ys = 1..m
    BY <2>3, <2>5, LenProperties
  <2>7. bt \in [1..m -> E \cup {e}]
    BY <1>1, <1>4
  <2>8. \A i \in 1..m : \/ i \in 1..(m - 1) /\ i + 1 \in 1..m /\ bt[i] = at[i + 1]
                        \/ i = m /\ bt[i] = e
    BY <1>1
  <2> HIDE DEF bt
  <2>9. ASSUME NEW i \in 1..m, NEW j \in 1..m, i < j PROVE bt[i] < bt[j]
    <3>1. i \in 1..(m - 1) /\ i + 1 \in 1..m /\ i # m
      BY <1>1, <2>9
    <3>2. bt[i] = at[i + 1]
      BY <2>8, <3>1
    <3>3. CASE j = m
      BY <1>4, <2>8, <3>1, <3>2, <3>3
    <3>4. CASE j # m
      <4>1. j + 1 \in 1..m /\ bt[j] = at[j + 1] /\ i + 1 < j + 1
        BY <1>1, <2>8, <2>9, <3>4
      <4>2. QED
        BY <1>3, <3>1, <3>2, <4>1
    <3>5. QED
      BY <3>3, <3>4
  <2>10. \A i \in 1..m : ys[i] = kind(bt[i])
    <3>1. ASSUME NEW i \in 1..m PROVE ys[i] = kind(bt[i])
      BY <1>3, <1>5, <2>5, <2>8, <3>1
    <3>2. QED
      BY <3>1
  <2>11. ASSUME NEW x \in E \cup {e}, \A i \in 1..m : bt[i] # x
         PROVE  \A i \in 1..m : x < bt[i]
    <3>1. m \in 1..m /\ bt[m] = e
      BY <1>1, <1>7, <2>8
    <3>2. x \in E /\ x \in Nat /\ x < e
      BY <2>11, <3>1
    <3>3. \A j \in 2..m : j - 1 \in 1..(m - 1) /\ j - 1 \in 1..m /\ (j - 1) + 1 = j
      BY <1>1
    <3>4. \A j \in 2..m : at[j] # x
      <4>1. \A j \in 2..m : bt[j - 1] = at[j]
        BY <1>1, <2>8, <3>3
      <4>2. QED
        BY <2>11, <3>3, <4>1
    <3>5. \A j \in 2..m : x < at[j]
      <4>1. CASE x = at[1]
        BY <1>1, <1>3, <3>1, <4>1
      <4>2. CASE x # at[1]
        <5>1. \A j \in 1..m : at[j] # x
          <6>1. \A j \in 1..m : j = 1 \/ j \in 2..m
            BY <1>1
          <6>2. QED
            BY <3>4, <4>2, <6>1
        <5>2. \A j \in 1..m : x < at[j]
          BY <1>3, <3>2, <5>1
        <5>3. QED
          BY <5>2
      <4>3. QED
        BY <4>1, <4>2
    <3>6. \A i \in 1..(m - 1) : i + 1 \in 2..m
      BY <1>1
    <3>7. QED
      BY <2>8, <3>2, <3>5, <3>6
  <2>12. Window(s, E \cup {e}, l, ys)
    <3>1. /\ \A i, j \in DOMAIN ys : i < j => bt[i] < bt[j]
          /\ \A i \in DOMAIN ys : ys[i] = classify(LineOf(s, bt[i]))
          /\ \A x \in E \cup {e} : (\A i \in DOMAIN ys : bt[i] # x) =>
               l # 0 /\ Len(ys) = l /\ \A i \in DOMAIN ys : x < bt[i]
      <4>1. l # 0 /\ Len(ys) = l
        BY <1>7, <2>5
      <4>2. QED
        BY <4>1, <2>6, <2>9, <2>10, <2>11 DEF kind
    <3>2. bt \in [DOMAIN ys -> E \cup {e}] /\ (l # 0 => Len(ys) <= l)
      BY <1>7, <2>5, <2>6, <2>7
    <3>3. QED
      BY <3>1, <3>2 DEF Window
  <2>13. QED
    BY <2>3, <2>12
<1>8. QED
  BY <1>6, <1>7

\* An open line that is too long stays so.
LEMMA StillLong ==
  ASSUME NEW s \in Seq(Bytes), NEW n \in 0..Len(s), NEW e \in n..Len(s),
         \A i \in (n + 1)..e : s[i] # NL, TooLong(LineOf(s, n + 1))
  PROVE  TooLong(LineOf(s, e + 1))
<1>1. StartOf(s, e + 1) = StartOf(s, n + 1)
  BY Longer
<1>2. /\ Len(LineOf(s, n + 1)) = n + 1 - StartOf(s, n + 1)
      /\ StartOf(s, n + 1) \in 1..(n + 1)
  BY OpenLine
<1>3. Len(LineOf(s, e + 1)) = e + 1 - StartOf(s, e + 1)
  <2>1. e \in 0..Len(s)
    OBVIOUS
  <2>2. QED
    BY <2>1, OpenLine
<1>4. QED
  BY <1>1, <1>2, <1>3, ReaderAssumption DEF TooLong

\* The first newline of the chunk.
LEMMA NewlineIs ==
  ASSUME rest \in Seq(Bytes)
  PROVE  /\ Newline = 0 => \A i \in 1..Len(rest) : rest[i] # NL
         /\ Newline # 0 => /\ Newline \in 1..Len(rest) /\ rest[Newline] = NL
                           /\ \A i \in 1..(Newline - 1) : rest[i] # NL
<1> DEFINE N == {i \in DOMAIN rest : rest[i] = NL}
<1>1. DOMAIN rest = 1..Len(rest) /\ Len(rest) \in Nat
  BY LenProperties
<1>2. CASE N = {}
  BY <1>1, <1>2 DEF Newline
<1>3. CASE N # {}
  <2>1. N \subseteq Nat
    BY <1>1
  <2>2. \E i \in N : \A j \in N : i <= j
    BY <1>3, <2>1, LeastNatural
  <2>3. Newline = CHOOSE i \in N : \A j \in N : i <= j
    BY <1>3 DEF Newline
  <2>4. Newline \in N /\ \A j \in N : Newline <= j
    BY <2>2, <2>3
  <2>5. ASSUME NEW i \in 1..(Newline - 1) PROVE rest[i] # NL
    BY <1>1, <2>4
  <2>6. QED
    BY <1>1, <2>4, <2>5
<1>4. QED
  BY <1>2, <1>3

\* The chunk is the next piece of the file, up to its newline or whole.
LEMMA ChunkIs ==
  ASSUME ScanInv
  PROVE  /\ snapshot \in Seq(Bytes) /\ Len(snapshot) \in Nat
         /\ pos \in 0..Len(snapshot) /\ Seen \in 0..pos /\ Seen \in 0..Len(snapshot)
         /\ Len(rest) = pos - Seen /\ rest \in Seq(Bytes)
         /\ rest = <<>> <=> Seen = pos
         /\ Newline = 0 => \A i \in (Seen + 1)..pos : snapshot[i] # NL
         /\ Newline # 0 =>
              /\ Seen + Newline \in (Seen + 1)..pos
              /\ Seen + Newline \in (Seen + 1)..Len(snapshot)
              /\ snapshot[Seen + Newline] = NL
              /\ \A i \in (Seen + 1)..((Seen + Newline) - 1) : snapshot[i] # NL
              /\ SubSeq(rest, 1, Newline - 1) =
                   SubSeq(snapshot, Seen + 1, (Seen + Newline) - 1)
              /\ AfterNewline = SubSeq(snapshot, Seen + Newline + 1, pos)
              /\ Len(AfterNewline) = pos - (Seen + Newline)
<1> DEFINE n == Seen
           s == snapshot
           w == Newline
<1>1. s \in Seq(Bytes)
  BY ReaderAssumption DEF ScanInv
<1>2. Len(s) \in Nat /\ \A i \in 1..Len(s) : s[i] \in Bytes
  BY <1>1, LenProperties
<1>3. /\ pos \in 0..Len(s) /\ n \in 0..pos /\ n \in 0..Len(s)
      /\ Len(rest) = pos - n /\ rest = SubSeq(s, n + 1, pos)
  BY <1>2 DEF ScanInv, Seen
<1> HIDE DEF n, s, w
<1>4. rest \in Seq(Bytes) /\ \A i \in 1..(pos - n) : rest[i] = s[n + i]
  <2>1. \A i \in (n + 1)..pos : s[i] \in Bytes
    BY <1>2, <1>3
  <2>2. n + 1 \in Int /\ pos \in Int
    BY <1>2, <1>3
  <2>3. /\ rest \in Seq(Bytes)
        /\ \A i \in 1..(pos - (n + 1) + 1) : rest[i] = s[(n + 1) + i - 1]
    BY <1>3, <2>1, <2>2, SubSeqProperties
  <2>4. pos - (n + 1) + 1 = pos - n /\ \A i \in 1..(pos - n) : (n + 1) + i - 1 = n + i
    BY <1>2, <1>3
  <2>5. QED
    BY <2>3, <2>4
<1>5. rest = <<>> <=> n = pos
  <2>1. rest = <<>> <=> Len(rest) = 0
    BY <1>4, EmptySeq
  <2>2. QED
    BY <1>2, <1>3, <2>1
<1>6. ASSUME w = 0 PROVE \A i \in (n + 1)..pos : s[i] # NL
  <2>1. \A i \in 1..(pos - n) : s[n + i] # NL
    BY <1>3, <1>4, <1>6, NewlineIs DEF w
  <2>2. \A i \in (n + 1)..pos : i - n \in 1..(pos - n) /\ n + (i - n) = i
    BY <1>2, <1>3
  <2>3. QED
    BY <2>1, <2>2
<1>7. ASSUME w # 0
      PROVE  /\ n + w \in (n + 1)..pos /\ n + w \in (n + 1)..Len(s)
             /\ s[n + w] = NL
             /\ \A i \in (n + 1)..((n + w) - 1) : s[i] # NL
             /\ SubSeq(rest, 1, w - 1) = SubSeq(s, n + 1, (n + w) - 1)
             /\ AfterNewline = SubSeq(s, n + w + 1, pos)
             /\ Len(AfterNewline) = pos - (n + w)
  <2>1. /\ w \in 1..(pos - n) /\ rest[w] = NL
        /\ \A i \in 1..(w - 1) : rest[i] # NL
    BY <1>3, <1>4, <1>7, NewlineIs DEF w
  <2>2. \A i \in (n + 1)..((n + w) - 1) : i - n \in 1..(w - 1) /\ i - n \in 1..(pos - n)
                                         /\ n + (i - n) = i
    BY <1>2, <1>3, <2>1
  <2>3. \A i \in (n + 1)..((n + w) - 1) : s[i] # NL
    BY <1>4, <2>1, <2>2
  <2>4. SubSeq(rest, 1, w - 1) = SubSeq(s, n + 1, (n + w) - 1)
    <3>1. 1 \in 1..(pos - n + 1) /\ w - 1 \in (1 - 1)..(pos - n) /\ n + (w - 1) = (n + w) - 1
      BY <1>2, <1>3, <2>1
    <3>2. SubSeq(SubSeq(s, n + 1, pos), 1, w - 1) = SubSeq(s, n + 1, n + (w - 1))
      BY <1>1, <1>3, <3>1, Piece
    <3>3. QED
      BY <1>3, <3>1, <3>2
  <2>5. /\ AfterNewline = SubSeq(s, n + w + 1, pos)
        /\ Len(AfterNewline) = pos - (n + w)
    <3>1. /\ w + 1 \in 1..(pos - n + 1) /\ pos - n \in ((w + 1) - 1)..(pos - n)
          /\ n + (w + 1) = n + w + 1 /\ n + (pos - n) = pos
          /\ (pos - n) - (w + 1) + 1 = pos - (n + w)
      BY <1>2, <1>3, <2>1
    <3>2. /\ SubSeq(SubSeq(s, n + 1, pos), w + 1, pos - n)
               = SubSeq(s, n + (w + 1), n + (pos - n))
          /\ Len(SubSeq(s, n + (w + 1), n + (pos - n))) = (pos - n) - (w + 1) + 1
      BY <1>1, <1>3, <3>1, Piece
    <3>3. AfterNewline = SubSeq(rest, w + 1, pos - n)
      BY <1>3 DEF AfterNewline, w
    <3>4. QED
      BY <1>3, <3>1, <3>2, <3>3
  <2>6. n + w \in (n + 1)..pos /\ n + w \in (n + 1)..Len(s)
    BY <1>2, <1>3, <2>1
  <2>7. s[n + w] = NL
    BY <1>4, <2>1
  <2>8. QED
    BY <2>3, <2>4, <2>5, <2>6, <2>7
<1>8. QED
  BY <1>1, <1>2, <1>3, <1>4, <1>5, <1>6, <1>7 DEF n, s, w

-----------------------------------------------------------------------------
LEMMA InitHolds == Init => IInv
<1> SUFFICES ASSUME Init PROVE IInv
  OBVIOUS
<1> USE DEF Init
<1>1. snapshot \in Seq(Bytes) /\ Len(snapshot) \in Nat
  BY ReaderAssumption, LenProperties
<1>2. Len(rest) = 0 /\ Seen = 0
  <2>1. Len(rest) = 0
    OBVIOUS
  <2>2. pos = 0 /\ 0 - 0 = 0
    OBVIOUS
  <2>3. Seen = 0
    BY ONLY <2>1, <2>2 DEF Seen
  <2>4. QED
    BY <2>1, <2>3
<1>3. SubSeq(snapshot, 1, 0) = <<>>
  BY SubSeqEmpty
<1>4. ScanInv
  <2>1. Seen + 1 = 1
    BY <1>2
  <2>2. QED
    BY <1>1, <1>2, <1>3, <2>1 DEF ScanInv
<1>5. LineInv
  <2>1. StartOf(snapshot, 0 + 1) = 0 + 1
    BY <1>1, StartIs
  <2>2. 0 + 1 = 1 /\ 1 - 1 = 0
    OBVIOUS
  <2>3. LineOf(snapshot, 1) = <<>>
    BY <1>3, <2>1, <2>2 DEF LineOf
  <2>4. ~TooLong(<<>>)
    BY EmptySeq, ReaderAssumption DEF TooLong
  <2>5. QED
    BY <1>2, <2>2, <2>3, <2>4 DEF LineInv
<1>6. \A S : S \subseteq NewlinesOf(snapshot) => Upto(S, 0) = {}
  BY <1>1, Positions DEF Upto
<1>7. CountInv
  <2>1. \A S : S \subseteq NewlinesOf(snapshot) => Count(S, 0) = 0
    BY <1>6, FS_EmptySet DEF Count
  <2>2. Tally(snapshot, filter, 0) = Numbers(0, 0, 0, 0 + 0, 0)
    BY <1>1, <2>1, Positions DEF Tally
  <2>3. Zero = Numbers(0, 0, 0, 0, 0)
    BY DEF Zero, Numbers
  <2>4. QED
    BY <1>2, <2>2, <2>3 DEF CountInv
<1>8. WindowInv
  <2>1. Upto(LinesOf(snapshot, filter), 0) = {}
    BY <1>1, <1>6, Positions
  <2>2. items \in Seq({"a", "b"}) /\ Len(items) = 0 /\ DOMAIN items = {}
    BY EmptySeq, LenProperties
  <2>3. limit # 0 => Len(items) <= limit
    BY <2>2, ReaderAssumption
  <2>4. Window(snapshot, {}, limit, items)
    <3> DEFINE at == [i \in {} |-> 0]
    <3>1. at \in [DOMAIN items -> {}]
      BY <2>2
    <3>2. QED
      BY <2>2, <2>3, <3>1 DEF Window
  <2>5. QED
    BY <1>2, <2>1, <2>2, <2>4 DEF WindowInv
<1>9. QED
  BY <1>4, <1>5, <1>7, <1>8 DEF IInv

\* Counting a line and then counting it as invalid is counting both.
LEMMA TwoMore ==
  ASSUME NEW c \in Counters, c.incomplete_tail = FALSE
  PROVE  [c EXCEPT !.lines_read = @ + 1, !.skipped_invalid = @ + 1] =
           [OneMore(c) EXCEPT !.skipped_invalid = @ + 1]
BY DEF OneMore, Counters

\* Positions of the file can be counted.
LEMMA CardinalityIn ==
  ASSUME NEW s \in Seq(Bytes), NEW S, S \subseteq NewlinesOf(s)
  PROVE  Cardinality(S) \in Nat
<1>1. Len(s) \in Nat /\ S \in SUBSET Nat /\ \A x \in S : x <= Len(s)
  BY Positions, LenProperties
<1>2. QED
  BY <1>1, FS_BoundedSetOfNaturals, FS_CardinalityType

\* The counters have their types.
LEMMA CountersType ==
  ASSUME IInv, rpc # "done"
  PROVE  counters \in Counters /\ counters.incomplete_tail = FALSE
<1>1. counters = Tally(snapshot, filter, Seen)
  BY DEF IInv, CountInv
<1>2. snapshot \in Seq(Bytes) /\ Seen \in Nat
  BY ChunkIs DEF IInv
<1>3. \A S : S \subseteq NewlinesOf(snapshot) => Count(S, Seen) \in Nat
  <2>1. ASSUME NEW S, S \subseteq NewlinesOf(snapshot) PROVE Count(S, Seen) \in Nat
    <3>1. Upto(S, Seen) \subseteq NewlinesOf(snapshot)
      BY <2>1 DEF Upto
    <3>2. QED
      BY <1>2, <3>1, CardinalityIn DEF Count
  <2>2. QED
    BY <2>1
<1>4. PICK i \in Nat, j \in Nat, k \in Nat, l \in Nat, m \in Nat :
        counters = Numbers(i, j, k, l, m)
  <2>1. /\ Count(NewlinesOf(snapshot), Seen) \in Nat
        /\ Count(LongOf(snapshot), Seen) \in Nat
        /\ \A K : Count(LinesOf(snapshot, K), Seen) \in Nat
    BY <1>2, <1>3, Positions
  <2>2. Count(LinesOf(snapshot, {"invalid"}), Seen) + Count(LongOf(snapshot), Seen) \in Nat
    BY <2>1
  <2>3. QED
    BY <1>1, <2>1, <2>2 DEF Tally
<1>5. QED
  BY <1>4 DEF Numbers, Counters

\* The scan moves on to e without the end of a line: counters and items stay.
LEMMA NoLineEnds ==
  ASSUME IInv, rpc = "scan", given' = given, pos' = pos, rpc' = "scan",
         counters' = counters, items' = items,
         NEW e \in Seen..pos, rest' = SubSeq(snapshot, e + 1, pos),
         \A i \in (Seen + 1)..e : snapshot[i] # NL,
         Len(rest') = pos - e, LineInv'
  PROVE  IInv'
<1> DEFINE n == Seen
<1>1. /\ snapshot \in Seq(Bytes) /\ n \in 0..Len(snapshot) /\ Len(snapshot) \in Nat
      /\ pos \in 0..Len(snapshot) /\ e \in n..Len(snapshot) /\ e \in 0..pos
  BY ChunkIs DEF IInv
<1>2. Seen' = e /\ snapshot' = snapshot /\ filter' = filter /\ limit' = limit
  BY <1>1 DEF Seen, given
<1>3. ScanInv'
  BY <1>1, <1>2 DEF IInv, ScanInv
<1>4. \A S : S \subseteq NewlinesOf(snapshot) => Upto(S, e) = Upto(S, n)
  BY <1>1, Longer
<1>5. CountInv'
  <2>1. \A S : S \subseteq NewlinesOf(snapshot) => Count(S, e) = Count(S, n)
    BY <1>4 DEF Count
  <2>2. Tally(snapshot, filter, e) = Tally(snapshot, filter, n)
    BY <1>1, <2>1, Positions DEF Tally
  <2>3. QED
    BY <1>2, <2>2 DEF IInv, CountInv
<1>6. WindowInv'
  <2>1. Upto(LinesOf(snapshot, filter), e) = Upto(LinesOf(snapshot, filter), n)
    BY <1>1, <1>4, Positions
  <2>2. QED
    BY <1>2, <2>1 DEF IInv, WindowInv
<1>7. QED
  BY <1>3, <1>5, <1>6 DEF IInv

\* The end of a line: the counters are those of the line, the window takes it
\* when it matches, and the next line is empty.
LEMMA LineEnds ==
  ASSUME IInv, rpc = "scan", Newline # 0, given' = given, pos' = pos, rpc' = "scan",
         rest' = AfterNewline, ~oversized', buf' = <<>>,
         NEW line, line = LineOf(snapshot, Seen + Newline),
         counters' = Taken(OneMore(counters), line),
         items' = IF ~TooLong(line) /\ ~IsBlank(line) /\ classify(line) \in filter
                  THEN Accept(classify(line)) ELSE items,
         oversized' \in BOOLEAN
  PROVE  IInv'
<1> DEFINE n == Seen
           e == Seen + Newline
           s == snapshot
<1>1. /\ s \in Seq(Bytes) /\ n \in 0..Len(s) /\ Len(s) \in Nat /\ pos \in 0..Len(s)
      /\ e \in (n + 1)..Len(s) /\ e \in (n + 1)..pos /\ s[e] = NL
      /\ \A i \in (n + 1)..(e - 1) : s[i] # NL
      /\ AfterNewline = SubSeq(s, e + 1, pos) /\ Len(AfterNewline) = pos - e
  <2>1. ScanInv
    BY DEF IInv
  <2>2. /\ s \in Seq(Bytes) /\ n \in 0..Len(s) /\ Len(s) \in Nat /\ pos \in 0..Len(s)
    BY <2>1, ChunkIs
  <2>3. /\ e \in (n + 1)..Len(s) /\ e \in (n + 1)..pos /\ s[e] = NL
    BY <2>1, ChunkIs
  <2>4. \A i \in (n + 1)..(e - 1) : s[i] # NL
    <3>1. \A i \in (Seen + 1)..((Seen + Newline) - 1) : snapshot[i] # NL
      BY <2>1, ChunkIs
    <3>2. QED
      BY <3>1
  <2>5. AfterNewline = SubSeq(s, e + 1, pos) /\ Len(AfterNewline) = pos - e
    BY <2>1, ChunkIs
  <2>6. QED
    BY <2>2, <2>3, <2>4, <2>5
<1> HIDE DEF n, e, s
<1>2. Seen' = e /\ snapshot' = s /\ filter' = filter /\ limit' = limit
  <2>1. pos - (pos - e) = e
    BY <1>1
  <2>2. QED
    BY <1>1, <2>1 DEF Seen, given, s
<1>3. /\ e \in NewlinesOf(s) /\ LineOf(s, e + 1) = <<>>
      /\ \A x \in NewlinesOf(s) : n < x /\ x <= e => x = e
  BY <1>1, Ended
<1>4. filter \in Filters /\ filter \subseteq {"a", "b"} /\ limit \in Nat
  BY ReaderAssumption DEF IInv, ScanInv
<1>5. ScanInv'
  <2>1. Len(rest') \in 0..pos /\ Seen' + 1 = e + 1
    BY <1>1, <1>2
  <2>2. QED
    BY <1>1, <1>2, <2>1 DEF IInv, ScanInv, s
<1>6. LineInv'
  <2>1. ~TooLong(<<>>)
    BY EmptySeq, ReaderAssumption DEF TooLong
  <2>2. QED
    BY <1>2, <1>3, <2>1 DEF LineInv
<1>7. CountInv'
  <2>1. counters = Tally(s, filter, n)
    BY DEF IInv, CountInv, s, n
  <2>2. line = LineOf(s, e)
    BY DEF s, e
  <2>3. Tally(s, filter, e) = Taken(OneMore(Tally(s, filter, n)), line)
    BY <1>1, <1>4, <2>2, TallyStep
  <2>4. counters' = Tally(s, filter, e)
    BY <2>1, <2>3
  <2>5. QED
    BY <1>2, <2>4 DEF CountInv
<1>8. WindowInv'
  <2> DEFINE L == LinesOf(s, filter)
             E == Upto(L, n)
  <2>1. line = LineOf(s, e)
    BY DEF s, e
  <2>2. e \in L <=> ~TooLong(line) /\ ~IsBlank(line) /\ classify(line) \in filter
    BY <1>3, <2>1 DEF LinesOf
  <2>3. /\ Upto(L, e) = IF e \in L THEN E \cup {e} ELSE E
        /\ \A x \in E : x \in Nat /\ x < e
    <3>1. n \in Nat /\ e \in Nat /\ n < e
      BY <1>1
    <3>2. L \subseteq Nat /\ \A x \in L : n < x /\ x <= e => x = e
      BY <1>1, <1>3, Positions
    <3> HIDE DEF L
    <3>3. QED
      BY <3>1, <3>2, CountStep
  <2>4. items \in Seq({"a", "b"}) /\ Window(s, E, limit, items)
    BY DEF IInv, WindowInv, s, n
  <2> HIDE DEF L, E
  <2>5. CASE e \in L
    <3>1. classify(line) \in {"a", "b"} /\ items' = Accept(classify(line))
      BY <1>4, <2>2, <2>5
    <3>2. items' = IF limit > 0 /\ Len(items) = limit
                   THEN Append(Tail(items), classify(line))
                   ELSE Append(items, classify(line))
      BY <3>1 DEF Accept
    <3>3. E \subseteq Nat /\ e \in Nat /\ \A x \in E : x < e
      BY <1>1, <2>3
    <3>4. items' \in Seq({"a", "b"}) /\ Window(s, E \cup {e}, limit, items')
      BY <1>4, <2>1, <2>4, <3>1, <3>2, <3>3, WindowStep
    <3>5. QED
      BY <1>2, <2>3, <2>5, <3>4 DEF WindowInv, L
  <2>6. CASE e \notin L
    <3>1. items' = items /\ Upto(L, e) = E
      BY <2>2, <2>3, <2>6
    <3>2. QED
      BY <1>2, <2>4, <3>1 DEF WindowInv, L
  <2>7. QED
    BY <2>5, <2>6
<1>9. QED
  BY <1>5, <1>6, <1>7, <1>8 DEF IInv

LEMMA ReadChunkKeeps == IInv /\ ReadChunk => IInv'
<1> SUFFICES ASSUME IInv, ReadChunk PROVE IInv'
  OBVIOUS
<1>1. ScanInv
  BY DEF IInv
<1>2. /\ snapshot \in Seq(Bytes) /\ Len(snapshot) \in Nat /\ pos \in 0..Len(snapshot)
      /\ rest = <<>> /\ Seen = pos
  BY <1>1, ChunkIs DEF ReadChunk
<1>3. PICK k \in 1..ChunkSize : /\ pos + k <= Len(snapshot)
                               /\ rest' = SubSeq(snapshot, pos + 1, pos + k)
                               /\ pos' = pos + k
  BY DEF ReadChunk
<1>4. k \in Nat /\ pos \in Nat /\ pos + k \in 0..Len(snapshot)
  BY <1>2, <1>3, ReaderAssumption
<1>5. Len(rest') = k
  <2>1. /\ pos + k \in 0..Len(snapshot) /\ pos \in 0..(pos + k)
        /\ 1 \in 1..((pos + k) - pos + 1) /\ k \in (1 - 1)..((pos + k) - pos)
        /\ k - 1 + 1 = k
    BY <1>3, <1>4
  <2>2. Len(SubSeq(snapshot, pos + 1, pos + k)) = k - 1 + 1
    BY <1>2, <2>1, Piece
  <2>3. QED
    BY <1>3, <2>1, <2>2
<1>6. Seen' = pos
  <2>1. (pos + k) - k = pos
    BY <1>4
  <2>2. QED
    BY <1>3, <1>5, <2>1 DEF Seen
<1>7. /\ snapshot' = snapshot /\ filter' = filter /\ limit' = limit /\ buf' = buf
      /\ oversized' = oversized /\ counters' = counters /\ items' = items /\ rpc' = rpc
      /\ rpc = "scan"
  BY DEF ReadChunk, given
<1>8. ScanInv'
  <2>1. k \in 0..(pos + k)
    BY <1>4
  <2>2. QED
    BY <1>1, <1>3, <1>4, <1>5, <1>6, <1>7, <2>1 DEF ScanInv
<1>9. LineInv' /\ CountInv' /\ WindowInv'
  BY <1>2, <1>6, <1>7 DEF IInv, LineInv, CountInv, WindowInv
<1>10. QED
  BY <1>8, <1>9 DEF IInv

LEMMA ReadFailsKeeps == IInv /\ ReadFails => IInv'
<1> SUFFICES ASSUME IInv, ReadFails PROVE IInv'
  OBVIOUS
<1>1. /\ snapshot' = snapshot /\ filter' = filter /\ limit' = limit /\ buf' = buf
      /\ oversized' = oversized /\ counters' = counters /\ items' = items
      /\ pos' = pos /\ rest' = rest /\ rpc = "scan" /\ rpc' = "error"
  BY DEF ReadFails, given
<1>2. Seen' = Seen
  BY <1>1 DEF Seen
<1>3. QED
  BY <1>1, <1>2 DEF IInv, ScanInv, LineInv, CountInv, WindowInv

LEMMA PassOverKeeps == IInv /\ PassOver => IInv'
<1> SUFFICES ASSUME IInv, PassOver PROVE IInv'
  OBVIOUS
<1>1. ScanInv /\ snapshot \in Seq(Bytes) /\ Len(snapshot) \in Nat
      /\ pos \in 0..Len(snapshot) /\ Seen \in 0..pos /\ Seen \in 0..Len(snapshot)
  BY ChunkIs DEF IInv
<1>2. /\ rpc = "scan" /\ rpc' = "scan" /\ given' = given /\ pos' = pos /\ buf' = buf
      /\ items' = items /\ oversized /\ snapshot' = snapshot
  BY DEF PassOver, given
<1>3. buf = <<>> /\ TooLong(LineOf(snapshot, Seen + 1))
  BY <1>2 DEF IInv, LineInv
<1>4. CASE Newline # 0
  <2> DEFINE e == Seen + Newline
             line == LineOf(snapshot, e)
  <2>1. e \in (Seen + 1)..Len(snapshot) /\ \A i \in (Seen + 1)..(e - 1) : snapshot[i] # NL
    BY <1>1, <1>4, ChunkIs
  <2>2. e - 1 \in Seen..Len(snapshot) /\ (e - 1) + 1 = e
    BY <1>1, <2>1
  <2>3. TooLong(line)
    <3> HIDE DEF e
    <3>1. TooLong(LineOf(snapshot, (e - 1) + 1))
      BY <1>1, <1>3, <2>1, <2>2, StillLong
    <3>2. QED
      BY <2>2, <3>1
  <2>4. /\ oversized' = FALSE /\ rest' = AfterNewline
        /\ counters' = [counters EXCEPT !.lines_read = @ + 1, !.skipped_invalid = @ + 1]
    BY <1>4 DEF PassOver
  <2>5. counters \in Counters /\ counters.incomplete_tail = FALSE
    BY <1>2, CountersType DEF IInv
  <2>6. counters' = Taken(OneMore(counters), line)
    <3>1. counters' = [OneMore(counters) EXCEPT !.skipped_invalid = @ + 1]
      BY <2>4, <2>5, TwoMore
    <3>2. QED
      BY <2>3, <3>1 DEF Taken
  <2>7. items' = IF ~TooLong(line) /\ ~IsBlank(line) /\ classify(line) \in filter
                 THEN Accept(classify(line)) ELSE items
    BY <1>2, <2>3
  <2>8. buf' = <<>> /\ ~oversized' /\ oversized' \in BOOLEAN
    BY <1>2, <1>3, <2>4
  <2> HIDE DEF line
  <2>9. QED
    BY <1>2, <1>4, <2>4, <2>6, <2>7, <2>8, LineEnds DEF line
<1>5. CASE Newline = 0
  <2>1. /\ rest' = <<>> /\ oversized' = oversized /\ counters' = counters
    BY <1>5 DEF PassOver
  <2>2. \A i \in (Seen + 1)..pos : snapshot[i] # NL
    BY <1>1, <1>5, ChunkIs
  <2>3. pos \in Seen..pos /\ pos \in Seen..Len(snapshot)
    BY <1>1
  <2>4. TooLong(LineOf(snapshot, pos + 1))
    BY <1>1, <1>3, <2>2, <2>3, StillLong
  <2>5. rest' = SubSeq(snapshot, pos + 1, pos) /\ Len(rest') = pos - pos
    BY <1>1, <2>1, SubSeqEmpty
  <2>6. Seen' = pos
    BY <1>1, <1>2, <2>5 DEF Seen
  <2>7. LineInv'
    BY <1>2, <1>3, <2>1, <2>4, <2>6 DEF LineInv
  <2>8. QED
    BY <1>2, <2>1, <2>2, <2>3, <2>5, <2>7, NoLineEnds
<1>6. QED
  BY <1>4, <1>5

LEMMA FinishLineKeeps == IInv /\ FinishLine => IInv'
<1> SUFFICES ASSUME IInv, FinishLine PROVE IInv'
  OBVIOUS
<1> DEFINE e == Seen + Newline
           line == LineOf(snapshot, e)
<1>1. /\ rpc = "scan" /\ rpc' = "scan" /\ given' = given /\ pos' = pos /\ buf' = <<>>
      /\ ~oversized /\ oversized' = oversized /\ rest' = AfterNewline /\ Newline # 0
  BY DEF FinishLine
<1>2. ScanInv /\ buf = LineOf(snapshot, Seen + 1) /\ oversized \in BOOLEAN
  BY <1>1 DEF IInv, LineInv
<1>3. buf \o SubSeq(rest, 1, Newline - 1) = line
  <2>1. /\ snapshot \in Seq(Bytes) /\ Seen \in 0..Len(snapshot)
        /\ e \in (Seen + 1)..Len(snapshot) /\ snapshot[e] = NL
        /\ \A i \in (Seen + 1)..(e - 1) : snapshot[i] # NL
        /\ SubSeq(rest, 1, Newline - 1) = SubSeq(snapshot, Seen + 1, e - 1)
    BY <1>1, <1>2, ChunkIs
  <2> HIDE DEF e
  <2>2. LineOf(snapshot, e) = LineOf(snapshot, Seen + 1) \o SubSeq(snapshot, Seen + 1, e - 1)
    BY <2>1, Ended
  <2>3. QED
    BY <1>2, <2>1, <2>2
<1> HIDE DEF line
<1>4. counters' = Taken(OneMore(counters), line)
  BY <1>3 DEF FinishLine, Taken, OneMore, TooLong
<1>5. items' = IF ~TooLong(line) /\ ~IsBlank(line) /\ classify(line) \in filter
               THEN Accept(classify(line)) ELSE items
  BY <1>3 DEF FinishLine, TooLong
<1>6. ~oversized' /\ oversized' \in BOOLEAN
  BY <1>1, <1>2
<1>7. QED
  BY <1>1, <1>4, <1>5, <1>6, LineEnds DEF line

LEMMA BufferKeeps == IInv /\ Buffer => IInv'
<1> SUFFICES ASSUME IInv, Buffer PROVE IInv'
  OBVIOUS
<1> DEFINE room == MaxRecordBytes + 1 - Len(buf)
           take == IF Len(rest) < room THEN Len(rest) ELSE room
           longer == buf \o SubSeq(rest, 1, take)
           n == Seen
           s == snapshot
           e == n + take
<1>1. /\ rpc = "scan" /\ rpc' = "scan" /\ given' = given /\ pos' = pos /\ Newline = 0
      /\ counters' = counters /\ items' = items /\ ~oversized /\ rest # <<>>
      /\ snapshot' = snapshot
  BY DEF Buffer, given
<1>2. IF Len(longer) > MaxRecordBytes
      THEN /\ buf' = <<>> /\ oversized' = TRUE
           /\ rest' = SubSeq(rest, take + 1, Len(rest))
      ELSE buf' = longer /\ rest' = <<>> /\ oversized' = oversized
  BY DEF Buffer
<1>3. /\ s \in Seq(Bytes) /\ Len(s) \in Nat /\ pos \in 0..Len(s) /\ n \in 0..pos
      /\ n \in 0..Len(s) /\ Len(rest) = pos - n /\ n # pos
      /\ rest = SubSeq(s, n + 1, pos)
      /\ \A i \in (n + 1)..pos : s[i] # NL
  BY <1>1, ChunkIs DEF IInv, ScanInv
<1>4. buf = LineOf(s, n + 1) /\ ~TooLong(buf)
  BY <1>1 DEF IInv, LineInv
<1>5. Len(buf) \in 0..MaxRecordBytes /\ MaxRecordBytes \in Nat
  <2>1. buf \in Seq(Bytes \ {NL})
    BY <1>3, <1>4, OpenLine
  <2>2. QED
    BY <1>4, <2>1, LenProperties, ReaderAssumption DEF TooLong
<1> HIDE DEF n, s
<1>6. room \in 1..(MaxRecordBytes + 1) /\ take \in 1..(pos - n)
  <2>1. room \in 1..(MaxRecordBytes + 1)
    BY <1>5
  <2> HIDE DEF room
  <2>2. Len(rest) \in 1..(pos - n)
    BY <1>3
  <2>3. QED
    BY <2>1, <2>2, <1>3, <1>5
<1>7. take # Len(rest) => take = MaxRecordBytes + 1 - Len(buf)
  OBVIOUS
<1> HIDE DEF take, room
<1>8. e \in n..pos /\ e \in n..Len(s) /\ \A i \in (n + 1)..e : s[i] # NL
  BY <1>3, <1>6
<1>9. SubSeq(rest, 1, take) = SubSeq(s, n + 1, e)
  <2>1. 1 \in 1..(pos - n + 1) /\ take \in (1 - 1)..(pos - n)
    BY <1>3, <1>6
  <2>2. QED
    BY <1>3, <2>1, Piece
<1>10. longer = LineOf(s, e + 1)
  BY <1>3, <1>4, <1>8, <1>9, Longer
<1>11. Len(longer) = Len(buf) + take
  <2>1. /\ Len(LineOf(s, n + 1)) = n + 1 - StartOf(s, n + 1)
        /\ StartOf(s, n + 1) \in 1..(n + 1)
    BY <1>3, OpenLine
  <2>2. StartOf(s, e + 1) = StartOf(s, n + 1)
    BY <1>3, <1>8, Longer
  <2>3. e \in 0..Len(s)
    BY <1>3, <1>8
  <2>4. Len(LineOf(s, e + 1)) = e + 1 - StartOf(s, e + 1)
    BY <1>3, <2>3, OpenLine
  <2>5. QED
    BY <1>3, <1>4, <1>6, <1>10, <2>1, <2>2, <2>4
<1> HIDE DEF longer
<1>12. CASE Len(longer) > MaxRecordBytes
  <2>1. /\ SubSeq(rest, take + 1, Len(rest)) = SubSeq(s, e + 1, pos)
        /\ Len(SubSeq(s, e + 1, pos)) = pos - e
    <3>1. /\ take + 1 \in 1..(pos - n + 1) /\ pos - n \in ((take + 1) - 1)..(pos - n)
          /\ n + (take + 1) = e + 1 /\ n + (pos - n) = pos
          /\ (pos - n) - (take + 1) + 1 = pos - e
      BY <1>3, <1>6
    <3>2. /\ SubSeq(SubSeq(s, n + 1, pos), take + 1, pos - n)
               = SubSeq(s, n + (take + 1), n + (pos - n))
          /\ Len(SubSeq(s, n + (take + 1), n + (pos - n))) = (pos - n) - (take + 1) + 1
      BY <1>3, <3>1, Piece
    <3>3. QED
      BY <1>3, <3>1, <3>2
  <2>2. rest' = SubSeq(s, e + 1, pos) /\ Len(rest') = pos - e /\ buf' = <<>> /\ oversized'
    BY <1>2, <1>12, <2>1
  <2>3. Seen' = e
    <3>1. pos - (pos - e) = e
      BY <1>3, <1>8
    <3>2. QED
      BY <1>1, <2>2, <3>1 DEF Seen
  <2>4. LineInv'
    BY <1>1, <1>2, <1>10, <1>12, <2>2, <2>3 DEF LineInv, TooLong, s
  <2>5. QED
    BY <1>1, <1>8, <2>2, <2>4, NoLineEnds DEF n, s
<1>13. CASE ~(Len(longer) > MaxRecordBytes)
  <2>1. take = Len(rest) /\ e = pos
    BY <1>3, <1>5, <1>6, <1>7, <1>11, <1>13
  <2>2. buf' = longer /\ rest' = <<>> /\ oversized' = FALSE
    BY <1>1, <1>2, <1>13
  <2>3. rest' = SubSeq(s, e + 1, pos) /\ Len(rest') = pos - e
    BY <1>3, <2>1, <2>2, SubSeqEmpty
  <2>4. Seen' = e
    <3>1. pos - (pos - e) = e
      BY <1>3, <1>8
    <3>2. QED
      BY <1>1, <2>3, <3>1 DEF Seen
  <2>5. LineInv'
    BY <1>1, <1>10, <1>13, <2>2, <2>4 DEF LineInv, TooLong, s
  <2>6. QED
    BY <1>1, <1>8, <2>3, <2>5, NoLineEnds DEF n, s
<1>14. QED
  BY <1>12, <1>13

LEMMA FinishKeeps == IInv /\ Finish => IInv'
<1> SUFFICES ASSUME IInv, Finish PROVE IInv'
  OBVIOUS
<1> DEFINE s == snapshot
           tail == LineOf(s, Len(s) + 1)
           E == ExpectedOf(s, filter)
<1>1. /\ rpc = "scan" /\ rpc' = "done" /\ snapshot' = s /\ filter' = filter
      /\ limit' = limit /\ pos' = pos /\ rest' = rest /\ buf' = buf /\ items' = items
      /\ oversized' = oversized /\ rest = <<>> /\ pos = Len(s)
      /\ counters' = IF oversized
                     THEN [counters EXCEPT !.lines_read = @ + 1, !.skipped_invalid = @ + 1,
                                           !.incomplete_tail = TRUE]
                     ELSE [counters EXCEPT !.incomplete_tail = (buf # <<>>)]
  BY DEF Finish, given
<1>2. s \in Seq(Bytes) /\ Len(s) \in Nat /\ Seen = Len(s)
  BY <1>1, ChunkIs DEF IInv
<1>3. Seen' = Seen
  BY <1>1 DEF Seen
<1>4. ScanInv' /\ LineInv' /\ WindowInv'
  BY <1>1, <1>3 DEF IInv, ScanInv, LineInv, WindowInv
<1>5. /\ oversized \in BOOLEAN
      /\ ~oversized => buf = tail /\ ~TooLong(tail)
      /\ oversized => TooLong(tail)
  BY <1>2 DEF IInv, LineInv
<1>6. TooLong(tail) => tail # <<>>
  BY EmptySeq, ReaderAssumption DEF TooLong
<1>7. counters \in Counters /\ counters.incomplete_tail = FALSE
  BY <1>1, CountersType
<1>8. /\ counters.lines_read = Cardinality(NewlinesOf(s))
      /\ counters.valid_records = Cardinality(LinesOf(s, {"a", "b"}))
      /\ counters.matched = Cardinality(LinesOf(s, filter))
      /\ counters.skipped_invalid =
           Cardinality(LinesOf(s, {"invalid"})) + Cardinality(LongOf(s))
      /\ counters.skipped_unsupported_schema = Cardinality(LinesOf(s, {"u"}))
  <2>1. \A S : S \subseteq NewlinesOf(s) => Count(S, Len(s)) = Cardinality(S)
    <3>1. ASSUME NEW S, S \subseteq NewlinesOf(s) PROVE Upto(S, Len(s)) = S
      BY <1>2, <3>1, Positions DEF Upto
    <3>2. QED
      BY <3>1 DEF Count
  <2>2. counters = Tally(s, filter, Len(s))
    BY <1>1, <1>2 DEF IInv, CountInv
  <2>3. counters = Numbers(Cardinality(NewlinesOf(s)), Cardinality(LinesOf(s, {"a", "b"})),
                           Cardinality(LinesOf(s, filter)),
                           Cardinality(LinesOf(s, {"invalid"})) + Cardinality(LongOf(s)),
                           Cardinality(LinesOf(s, {"u"})))
    BY <1>2, <2>1, <2>2, Positions DEF Tally
  <2>4. QED
    BY <2>3 DEF Numbers
<1> HIDE DEF s, tail
<1>9. CASE oversized
  <2>1. counters' = [counters EXCEPT !.lines_read = @ + 1, !.skipped_invalid = @ + 1,
                                     !.incomplete_tail = TRUE]
    BY <1>1, <1>9
  <2>2. /\ counters' \in Counters
        /\ counters'.lines_read = counters.lines_read + 1
        /\ counters'.valid_records = counters.valid_records
        /\ counters'.matched = counters.matched
        /\ counters'.skipped_invalid = counters.skipped_invalid + 1
        /\ counters'.skipped_unsupported_schema = counters.skipped_unsupported_schema
        /\ counters'.incomplete_tail = TRUE
    <3>1. counters.lines_read + 1 \in Nat /\ counters.skipped_invalid + 1 \in Nat
      BY <1>7 DEF Counters
    <3>2. PICK i \in Nat, j \in Nat :
            i = counters.lines_read + 1 /\ j = counters.skipped_invalid + 1
      BY <3>1
    <3>3. counters' = [counters EXCEPT !.lines_read = i, !.skipped_invalid = j,
                                       !.incomplete_tail = TRUE]
      BY <2>1, <3>2
    <3>4. /\ counters' \in Counters
          /\ counters'.lines_read = i /\ counters'.skipped_invalid = j
          /\ counters'.valid_records = counters.valid_records
          /\ counters'.matched = counters.matched
          /\ counters'.skipped_unsupported_schema = counters.skipped_unsupported_schema
          /\ counters'.incomplete_tail = TRUE
      BY <1>7, <3>3 DEF Counters
    <3>5. QED
      BY <3>2, <3>4
  <2>3. Bit(TooLong(tail)) = 1 /\ tail # <<>>
    BY <1>5, <1>6, <1>9 DEF Bit
  <2>4. counters' = E
    BY <1>8, <2>2, <2>3 DEF Counters, ExpectedOf, tail
  <2>5. CountInv'
    BY <1>1, <1>2, <1>3, <2>4 DEF CountInv, s
  <2>6. QED
    BY <1>4, <2>5 DEF IInv
<1>10. CASE ~oversized
  <2>1. counters' = [counters EXCEPT !.incomplete_tail = (buf # <<>>)]
    BY <1>1, <1>10
  <2>2. /\ counters' \in Counters
        /\ counters'.lines_read = counters.lines_read
        /\ counters'.valid_records = counters.valid_records
        /\ counters'.matched = counters.matched
        /\ counters'.skipped_invalid = counters.skipped_invalid
        /\ counters'.skipped_unsupported_schema = counters.skipped_unsupported_schema
        /\ counters'.incomplete_tail = (buf # <<>>)
    BY <1>7, <2>1 DEF Counters
  <2>3. Bit(TooLong(tail)) = 0 /\ buf = tail
    BY <1>5, <1>10 DEF Bit
  <2>4. counters' = E
    BY <1>8, <2>2, <2>3 DEF Counters, ExpectedOf, tail
  <2>5. CountInv'
    BY <1>1, <1>2, <1>3, <2>4 DEF CountInv, s
  <2>6. QED
    BY <1>4, <2>5 DEF IInv
<1>11. QED
  BY <1>5, <1>9, <1>10

-----------------------------------------------------------------------------
\* The inductive invariant holds in every state, which is what the rest rests on.
THEOREM Invariance == Spec => []IInv
<1>1. IInv /\ [Next]_vars => IInv'
  <2> SUFFICES ASSUME IInv, [Next]_vars PROVE IInv'
    OBVIOUS
  <2>1. CASE UNCHANGED vars
    BY <2>1 DEF vars, given, IInv, ScanInv, LineInv, CountInv, WindowInv, Seen
  <2>2. QED
    BY <2>1, ReadChunkKeeps, ReadFailsKeeps, PassOverKeeps, FinishLineKeeps, BufferKeeps,
       FinishKeeps DEF Next
<1>2. QED
  BY <1>1, InitHolds, PTL DEF Spec

\* The type invariant.
THEOREM ReaderTypes == Spec => []ReaderTypeOK
<1>1. IInv => ReaderTypeOK
  <2> SUFFICES ASSUME IInv PROVE ReaderTypeOK
    OBVIOUS
  <2>1. /\ snapshot \in Seq(Bytes) /\ Seen \in 0..Len(snapshot) /\ rest \in Seq(Bytes)
    BY ChunkIs DEF IInv
  <2>2. buf \in Seq(Bytes \ {NL})
    <3>1. LineOf(snapshot, Seen + 1) \in Seq(Bytes \ {NL})
      BY <2>1, OpenLine
    <3>2. <<>> \in Seq(Bytes \ {NL})
      BY EmptySeq
    <3>3. QED
      BY <3>1, <3>2 DEF IInv, LineInv
  <2>3. counters \in Counters
    <3>1. CASE rpc # "done"
      BY <3>1, CountersType
    <3>2. CASE rpc = "done"
      <4>1. counters = ExpectedOf(snapshot, filter)
        BY <3>2 DEF IInv, CountInv
      <4>2. \A S : S \subseteq NewlinesOf(snapshot) => Cardinality(S) \in Nat
        BY <2>1, CardinalityIn
      <4>3. ExpectedOf(snapshot, filter) \in Counters
        <5>1. /\ Cardinality(NewlinesOf(snapshot)) \in Nat
              /\ Cardinality(LongOf(snapshot)) \in Nat
              /\ \A K : Cardinality(LinesOf(snapshot, K)) \in Nat
          BY <2>1, <4>2, Positions
        <5>2. \A b : Bit(b) \in Nat
          BY DEF Bit
        <5>3. \A i, j \in Nat : i + j \in Nat
          OBVIOUS
        <5>4. QED
          BY <5>1, <5>2, <5>3 DEF ExpectedOf, Counters
      <4>4. QED
        BY <4>1, <4>3
    <3>3. QED
      BY <3>1, <3>2
  <2>4. QED
    BY <2>1, <2>2, <2>3 DEF IInv, ScanInv, LineInv, WindowInv, ReaderTypeOK, Counters
<1>2. QED
  BY <1>1, Invariance, PTL

\* However long a line, at most MaxRecordBytes of it are kept between reads.
THEOREM Bounded == Spec => []MemoryBounded
<1>1. IInv => MemoryBounded
  <2> SUFFICES ASSUME IInv PROVE MemoryBounded
    OBVIOUS
  <2>1. CASE oversized
    BY <2>1, EmptySeq, ReaderAssumption DEF IInv, LineInv, MemoryBounded
  <2>2. CASE ~oversized
    <3>1. snapshot \in Seq(Bytes) /\ Seen \in 0..Len(snapshot)
      BY ChunkIs DEF IInv
    <3>2. buf = LineOf(snapshot, Seen + 1) /\ ~TooLong(buf)
      BY <2>2 DEF IInv, LineInv
    <3>3. buf \in Seq(Bytes \ {NL})
      BY <3>1, <3>2, OpenLine
    <3>4. Len(buf) <= MaxRecordBytes
      BY <3>2, <3>3, LenProperties, ReaderAssumption DEF TooLong
    <3>5. QED
      BY <2>2, <3>4 DEF MemoryBounded
  <2>3. QED
    BY <2>1, <2>2 DEF IInv, LineInv
<1>2. QED
  BY <1>1, Invariance, PTL

\* Wherever the chunks are cut, the counters are those of the whole file.
THEOREM Counted == Spec => []CountersExact
<1>1. IInv => CountersExact
  <2>1. Expected = ExpectedOf(snapshot, filter)
    BY SameReading DEF Expected, ExpectedOf, TornTail
  <2>2. QED
    BY <2>1 DEF IInv, CountInv, CountersExact
<1>2. QED
  BY <1>1, Invariance, PTL

\* The records returned are the newest `limit` that match.
THEOREM Returned == Spec => []NewestReturned
<1>1. IInv => NewestReturned
  <2> SUFFICES ASSUME IInv, rpc = "done" PROVE NewestReturned
    BY DEF NewestReturned
  <2>1. snapshot \in Seq(Bytes) /\ Len(snapshot) \in Nat /\ Seen = Len(snapshot)
    BY ChunkIs DEF IInv, CountInv
  <2>2. Upto(LinesOf(snapshot, filter), Seen) = EndsOf(filter)
    <3>1. LinesOf(snapshot, filter) \subseteq 1..Len(snapshot)
      BY <2>1, Positions
    <3>2. Upto(LinesOf(snapshot, filter), Seen) = LinesOf(snapshot, filter)
      BY <2>1, <3>1 DEF Upto
    <3>3. QED
      BY <3>2, SameReading
  <2>3. Window(snapshot, EndsOf(filter), limit, items)
    BY <2>2 DEF IInv, WindowInv
  <2>4. QED
    BY <2>3, SameReading DEF Window, NewestReturned
<1>2. QED
  BY <1>1, Invariance, PTL
=============================================================================
