-------------------------- MODULE ShellParse_proofs --------------------------
(***************************************************************************)
(* Proofs about ShellParse: for every set of lines and every nesting       *)
(* budget, the parse loses no command and invents none.                    *)
(*                                                                         *)
(* The definitions are recursive functions.  That each one satisfies its   *)
(* equation is proved where it is used, by induction on the bound of its   *)
(* domain; induction is over the set of the numbers that have a property   *)
(* (lemma UpTo).                                                           *)
(***************************************************************************)
EXTENDS ShellParse, FiniteSetTheorems, WellFoundedInduction, SequenceTheorems, TLAPS

\* A set of naturals that is not empty has a least element: strict inclusion is
\* well-founded on the finite sets 0..k.
LEMMA LeastNatural ==
  ASSUME NEW S, S \subseteq Nat, S # {}
  PROVE  \E k \in S : \A j \in S : k <= j
<1> DEFINE F == {0..k : k \in S}
<1>1. F \subseteq FiniteSubsetsOf(Nat) /\ F # {}
  <2>1. \A k \in S : 0..k \subseteq Nat /\ IsFiniteSet(0..k)
    BY FS_Interval
  <2>2. QED
    BY <2>1 DEF FiniteSubsetsOf
<1>2. \E M \in F : \A D \in F : ~(<<D, M>> \in StrictSubsetOrdering(Nat))
  <2> HIDE DEF F
  <2>1. QED
    BY <1>1, FS_StrictSubsetOrderingWellFounded, WFMin
<1>3. PICK k \in S : \A D \in F : ~(<<D, 0..k>> \in StrictSubsetOrdering(Nat))
  BY <1>2
<1>4. ASSUME NEW j \in S, j < k PROVE FALSE
  <2>1. 0..j \in F /\ 0..j \subseteq 0..k /\ k \in 0..k /\ k \notin 0..j
    BY <1>4
  <2>2. 0..j # 0..k /\ 0..j \in SUBSET Nat /\ 0..k \in SUBSET Nat
    BY <2>1
  <2>3. <<0..j, 0..k>> \in StrictSubsetOrdering(Nat)
    BY <2>1, <2>2 DEF StrictSubsetOrdering
  <2>4. QED
    BY <1>3, <2>1, <2>3
<1>5. QED
  BY <1>4

\* Induction up to a bound, the property given as the set of the numbers
\* that have it.
LEMMA UpTo ==
  ASSUME NEW n \in Nat, NEW T, 0 \in T, \A i \in 0..n : i < n /\ i \in T => i + 1 \in T
  PROVE  \A i \in 0..n : i \in T
<1> DEFINE S == {i \in 0..n : i \notin T}
<1>1. ASSUME S # {} PROVE FALSE
  <2>1. PICK k \in S : \A j \in S : k <= j
    <3>1. S \subseteq Nat
      OBVIOUS
    <3> HIDE DEF S
    <3>2. QED
      BY <1>1, <3>1, LeastNatural
  <2>2. k # 0 /\ k - 1 \in 0..n /\ k - 1 < n
    BY <2>1
  <2>3. k - 1 \in T
    BY <2>1, <2>2
  <2>4. QED
    BY <2>1, <2>2, <2>3
<1>2. QED
  BY <1>1

-----------------------------------------------------------------------------
\* Sequences of whatever elements, and what they hold.
Listed(s) == s \in Seq(Range(s))

LEMMA ListedIn ==
  ASSUME NEW S, NEW s \in Seq(S)
  PROVE  Listed(s) /\ Range(s) \subseteq S
BY SeqOfRange, RangeOfSeq DEF Listed

LEMMA ListedOver ==
  ASSUME NEW S, NEW s, Listed(s), Range(s) \subseteq S
  PROVE  s \in Seq(S)
BY SeqMonotonic DEF Listed

LEMMA ListedFacts ==
  ASSUME NEW s, Listed(s)
  PROVE  /\ Len(s) \in Nat /\ DOMAIN s = 1..Len(s)
         /\ Range(s) = {s[i] : i \in 1..Len(s)}
         /\ s = <<>> <=> Len(s) = 0
<1>1. Len(s) \in Nat /\ DOMAIN s = 1..Len(s)
  BY LenProperties DEF Listed
<1>2. s = <<>> <=> Len(s) = 0
  BY EmptySeq DEF Listed
<1>3. QED
  BY <1>1, <1>2 DEF Range

LEMMA ListedFcn ==
  ASSUME NEW n \in Nat, NEW f, f = [i \in 1..n |-> f[i]]
  PROVE  Listed(f) /\ Len(f) = n /\ DOMAIN f = 1..n
<1>1. f \in [1..n -> Range(f)]
  BY DEF Range
<1>2. f \in Seq(Range(f))
  BY <1>1, SeqDef
<1>3. QED
  BY <1>1, <1>2, LenProperties DEF Listed

LEMMA ListedShort ==
  /\ Listed(<<>>) /\ Range(<<>>) = {}
  /\ \A x : Listed(<<x>>) /\ Range(<<x>>) = {x}
<1>1. Listed(<<>>) /\ Range(<<>>) = {}
  <2>1. ASSUME NEW S PROVE Listed(<<>>) /\ Range(<<>>) \subseteq S
    <3>1. <<>> \in Seq(S)
      BY EmptySeq
    <3>2. QED
      BY <3>1, ListedIn
  <2>2. QED
    BY <2>1
<1>2. ASSUME NEW x PROVE Listed(<<x>>) /\ Range(<<x>>) = {x}
  <2>1. <<x>> \in Seq({x}) /\ Len(<<x>>) = 1 /\ <<x>>[1] = x
    OBVIOUS
  <2>2. Range(<<x>>) = {<<x>>[i] : i \in 1..1}
    BY <2>1, RangeEquality
  <2>3. Range(<<x>>) = {x}
    BY <2>1, <2>2
  <2>4. QED
    BY <2>1, <2>3, ListedIn
<1>3. QED
  BY <1>1, <1>2

LEMMA ListedConcat ==
  ASSUME NEW s, NEW t, Listed(s), Listed(t)
  PROVE  /\ Listed(s \o t) /\ Range(s \o t) = Range(s) \cup Range(t)
         /\ Len(s \o t) = Len(s) + Len(t)
         /\ \A i \in 1..Len(s) : (s \o t)[i] = s[i]
         /\ \A i \in 1..Len(t) : (s \o t)[Len(s) + i] = t[i]
<1> DEFINE S == Range(s) \cup Range(t)
<1>1. s \in Seq(S) /\ t \in Seq(S)
  BY ListedOver
<1> HIDE DEF S
<1>2. s \o t \in Seq(S) /\ Range(s \o t) = Range(s) \cup Range(t)
  BY <1>1, ConcatProperties, RangeConcatenation
<1>3. Listed(s \o t)
  BY <1>2, ListedIn
<1>4. Len(s) \in Nat /\ Len(t) \in Nat
  BY <1>1, LenProperties
<1>5. QED
  BY <1>1, <1>2, <1>3, <1>4, ConcatProperties

LEMMA ListedAppend ==
  ASSUME NEW s, NEW x, Listed(s)
  PROVE  /\ Listed(Append(s, x)) /\ Range(Append(s, x)) = Range(s) \cup {x}
         /\ Append(s, x) # <<>> /\ Len(Append(s, x)) = Len(s) + 1
         /\ \A i \in 1..Len(s) : Append(s, x)[i] = s[i]
         /\ Append(s, x)[Len(s) + 1] = x
<1> DEFINE S == Range(s) \cup {x}
<1>1. s \in Seq(S) /\ x \in S
  BY ListedOver
<1> HIDE DEF S
<1>2. Append(s, x) \in Seq(S) /\ Append(s, x) = s \o <<x>>
  BY <1>1, AppendProperties, AppendIsConcat
<1>3. Range(Append(s, x)) = Range(s) \cup {x}
  BY <1>2, ListedConcat, ListedShort
<1>4. Listed(Append(s, x))
  BY <1>2, ListedIn
<1>5. QED
  BY <1>1, <1>3, <1>4, AppendProperties

LEMMA FlattenDef ==
  ASSUME NEW seqs, Len(seqs) \in Nat, Len(seqs) # 0
  PROVE  \E f : /\ f = [i \in 1..Len(seqs) |-> IF i = 1 THEN seqs[i] ELSE f[i - 1] \o seqs[i]]
                /\ FlattenSeq(seqs) = f[Len(seqs)]
<1> DEFINE N == Len(seqs)
           Is(f, n) == f = [i \in 1..n |-> IF i = 1 THEN seqs[i] ELSE f[i - 1] \o seqs[i]]
           T == {n \in 0..N : \E f : Is(f, n)}
<1>1. 0 \in T
  <2>1. Is([i \in 1..0 |-> 0], 0)
    OBVIOUS
  <2> HIDE DEF Is
  <2>2. QED
    BY <2>1
<1>2. ASSUME NEW n \in 0..N, n < N, n \in T PROVE n + 1 \in T
  <2>1. PICK f : Is(f, n)
    BY <1>2
  <2> DEFINE g == [i \in 1..(n + 1) |->
                     IF i = n + 1 THEN IF i = 1 THEN seqs[i] ELSE f[n] \o seqs[i] ELSE f[i]]
  <2>2. Is(g, n + 1)
    <3>1. \A i \in 1..n : f[i] = IF i = 1 THEN seqs[i] ELSE f[i - 1] \o seqs[i]
      BY <2>1
    <3>2. ASSUME NEW i \in 1..(n + 1)
          PROVE  g[i] = IF i = 1 THEN seqs[i] ELSE g[i - 1] \o seqs[i]
      <4>1. CASE i = n + 1
        <5>1. i # 1 => i - 1 \in 1..(n + 1) /\ i - 1 = n /\ i - 1 # n + 1
          BY <4>1
        <5>2. QED
          BY <4>1, <5>1
      <4>2. CASE i # n + 1
        <5>1. i \in 1..n /\ (i # 1 => i - 1 \in 1..(n + 1) /\ i - 1 # n + 1)
          BY <4>2
        <5>2. QED
          BY <3>1, <4>2, <5>1
      <4>3. QED
        BY <4>1, <4>2
    <3>3. QED
      BY <3>2
  <2> HIDE DEF Is, g
  <2>3. \E h : Is(h, n + 1)
    BY <2>2
  <2>4. n + 1 \in 0..N
    BY <1>2
  <2>5. QED
    BY <2>3, <2>4
<1>3. \E f : Is(f, N)
  <2>1. N \in 0..N /\ N \in Nat
    OBVIOUS
  <2>2. N \in T
    <3> HIDE DEF T, N
    <3>1. QED
      BY <1>1, <1>2, <2>1, UpTo
  <2> HIDE DEF Is
  <2>3. QED
    BY <2>2
<1>4. QED
  BY <1>3 DEF FlattenSeq

LEMMA FlattenRange ==
  ASSUME NEW seqs, Listed(seqs), \A i \in 1..Len(seqs) : Listed(seqs[i])
  PROVE  /\ Listed(FlattenSeq(seqs))
         /\ Range(FlattenSeq(seqs)) = UNION {Range(seqs[i]) : i \in 1..Len(seqs)}
<1>1. Len(seqs) \in Nat
  BY ListedFacts
<1>2. CASE Len(seqs) = 0
  <2>1. seqs = <<>> /\ FlattenSeq(seqs) = seqs
    BY <1>2, ListedFacts DEF FlattenSeq
  <2>2. QED
    BY <1>2, <2>1, ListedShort
<1>3. CASE Len(seqs) # 0
  <2>1. PICK f : /\ f = [i \in 1..Len(seqs) |-> IF i = 1 THEN seqs[i] ELSE f[i - 1] \o seqs[i]]
                 /\ FlattenSeq(seqs) = f[Len(seqs)]
    BY <1>1, <1>3, FlattenDef
  <2> DEFINE N == Len(seqs)
             Upto(n) == UNION {Range(seqs[i]) : i \in 1..n}
             T == {n \in 0..N : n = 0 \/ (Listed(f[n]) /\ Range(f[n]) = Upto(n))}
  <2>2. 0 \in T
    OBVIOUS
  <2>3. ASSUME NEW n \in 0..N, n < N, n \in T PROVE n + 1 \in T
    <3>1. n + 1 \in 1..N /\ Listed(seqs[n + 1])
      BY <2>3
    <3>2. f[n + 1] = IF n = 0 THEN seqs[n + 1] ELSE f[n] \o seqs[n + 1]
      <4>1. \A i \in 1..N : f[i] = IF i = 1 THEN seqs[i] ELSE f[i - 1] \o seqs[i]
        BY <2>1
      <4>2. (n + 1) - 1 = n /\ (n + 1 = 1 <=> n = 0)
        OBVIOUS
      <4>3. QED
        BY <3>1, <4>1, <4>2
    <3>3. Upto(n + 1) = Upto(n) \cup Range(seqs[n + 1])
      <4>1. 1..(n + 1) = 1..n \cup {n + 1}
        OBVIOUS
      <4>2. QED
        BY <4>1
    <3>4. CASE n = 0
      BY <3>1, <3>2, <3>3, <3>4
    <3>5. CASE n # 0
      <4>1. Listed(f[n]) /\ Range(f[n]) = Upto(n)
        BY <2>3, <3>5
      <4>2. Listed(f[n + 1]) /\ Range(f[n + 1]) = Range(f[n]) \cup Range(seqs[n + 1])
        BY <3>1, <3>2, <3>5, <4>1, ListedConcat
      <4>3. QED
        BY <3>1, <3>3, <4>1, <4>2
    <3>6. QED
      BY <3>4, <3>5
  <2>4. N \in T
    <3>1. N \in 0..N /\ N \in Nat
      BY <1>1
    <3> HIDE DEF T, N
    <3>2. QED
      BY <2>2, <2>3, <3>1, UpTo
  <2>5. QED
    BY <1>3, <2>1, <2>4
<1>4. QED
  BY <1>2, <1>3

-----------------------------------------------------------------------------
\* The tokens that are left of a line once the other symbols have cut it, and
\* the form they are kept in: no word follows a command or redirects.
Known(tok) ==
  \/ tok.t = "|" /\ tok.text = ""
  \/ tok.t = "word" /\ tok.text \in ReservedWords \cup {"command", "redirect"}
Ends(tok) == tok.text \in {"command", "redirect"}
Apart(s) == \A i \in 1..Len(s) : Ends(s[i]) /\ i < Len(s) => s[i + 1].t # "word"
Fine(s) == Listed(s) /\ (\A i \in 1..Len(s) : Known(s[i])) /\ Apart(s)

\* The commands among the first n tokens.
Until(s, n) == {s[i].cmd : i \in {i \in 1..n : IsCommand(s[i])}}

LEMMA CommandsUntil ==
  ASSUME NEW s, Listed(s)
  PROVE  CommandsIn(s) = Until(s, Len(s))
<1>1. Range(s) = {s[i] : i \in 1..Len(s)}
  BY ListedFacts
<1>2. QED
  BY <1>1 DEF CommandsIn, Until

LEMMA CommandsConcat ==
  ASSUME NEW s, NEW t, Listed(s), Listed(t)
  PROVE  CommandsIn(s \o t) = CommandsIn(s) \cup CommandsIn(t)
<1>1. Range(s \o t) = Range(s) \cup Range(t)
  BY ListedConcat
<1>2. QED
  BY <1>1 DEF CommandsIn

LEMMA CommandsAppend ==
  ASSUME NEW s, NEW x, Listed(s)
  PROVE  CommandsIn(Append(s, x)) = CommandsIn(s) \cup (IF IsCommand(x) THEN {x.cmd} ELSE {})
<1>1. Range(Append(s, x)) = Range(s) \cup {x}
  BY ListedAppend
<1>2. QED
  BY <1>1 DEF CommandsIn

LEMMA CommandsNone ==
  CommandsIn(<<>>) = {}
BY ListedShort DEF CommandsIn

LEMMA FineEmpty ==
  Fine(<<>>)
<1>1. Len(<<>>) = 0
  OBVIOUS
<1>2. QED
  BY <1>1, ListedShort DEF Fine, Apart

LEMMA FineAppend ==
  ASSUME NEW s, NEW x, Fine(s), Known(x),
         s = <<>> \/ x.t = "|" \/ ~Ends(s[Len(s)])
  PROVE  Fine(Append(s, x))
<1> DEFINE r == Append(s, x)
<1>1. Listed(s) /\ Len(s) \in Nat /\ (s = <<>> <=> Len(s) = 0)
  BY ListedFacts DEF Fine
<1>2. /\ Listed(r) /\ Len(r) = Len(s) + 1
      /\ \A i \in 1..Len(s) : r[i] = s[i]
      /\ r[Len(s) + 1] = x
  BY <1>1, ListedAppend
<1> HIDE DEF r
<1>3. ASSUME NEW i \in 1..Len(r) PROVE Known(r[i])
  <2>1. i \in 1..Len(s) \/ i = Len(s) + 1
    BY <1>1, <1>2
  <2>2. QED
    BY <1>2, <2>1 DEF Fine
<1>4. ASSUME NEW i \in 1..Len(r), Ends(r[i]), i < Len(r) PROVE r[i + 1].t # "word"
  <2>1. i \in 1..Len(s) /\ r[i] = s[i]
    BY <1>1, <1>2, <1>4
  <2>2. CASE i = Len(s)
    <3>1. r[i + 1] = x /\ s # <<>>
      BY <1>1, <1>2, <2>1, <2>2
    <3>2. QED
      BY <1>4, <2>1, <2>2, <3>1
  <2>3. CASE i # Len(s)
    <3>1. i < Len(s) /\ i + 1 \in 1..Len(s)
      BY <1>1, <2>1, <2>3
    <3>2. QED
      BY <1>2, <1>4, <2>1, <3>1 DEF Fine, Apart
  <2>4. QED
    BY <2>2, <2>3
<1>5. QED
  BY <1>2, <1>3, <1>4 DEF Fine, Apart, r

\* Two pieces put together where no word comes to follow a command.
LEMMA FineConcat ==
  ASSUME NEW s, NEW t, Fine(s), Fine(t),
         s = <<>> \/ t = <<>> \/ ~Ends(s[Len(s)]) \/ t[1].t # "word"
  PROVE  Fine(s \o t)
<1> DEFINE r == s \o t
<1>1. /\ Listed(s) /\ Len(s) \in Nat /\ (s = <<>> <=> Len(s) = 0)
      /\ Listed(t) /\ Len(t) \in Nat /\ (t = <<>> <=> Len(t) = 0)
  BY ListedFacts DEF Fine
<1>2. /\ Listed(r) /\ Len(r) = Len(s) + Len(t)
      /\ \A i \in 1..Len(s) : r[i] = s[i]
      /\ \A i \in 1..Len(t) : r[Len(s) + i] = t[i]
  BY <1>1, ListedConcat
<1> HIDE DEF r
<1>3. \A i \in 1..Len(r) : i \in 1..Len(s) \/ (i - Len(s) \in 1..Len(t) /\ r[i] = t[i - Len(s)])
  <2>1. ASSUME NEW i \in 1..Len(r), i \notin 1..Len(s)
        PROVE  i - Len(s) \in 1..Len(t) /\ r[i] = t[i - Len(s)]
    <3>1. i - Len(s) \in 1..Len(t) /\ i = Len(s) + (i - Len(s))
      BY <1>1, <1>2, <2>1
    <3>2. QED
      BY <1>2, <3>1
  <2>2. QED
    BY <2>1
<1>4. ASSUME NEW i \in 1..Len(r) PROVE Known(r[i])
  BY <1>2, <1>3 DEF Fine
<1>5. ASSUME NEW i \in 1..Len(r), Ends(r[i]), i < Len(r) PROVE r[i + 1].t # "word"
  <2>1. CASE i \in 1..Len(s) /\ i = Len(s)
    <3>1. 1 \in 1..Len(t) /\ r[i + 1] = t[1] /\ t # <<>> /\ s # <<>> /\ r[i] = s[Len(s)]
      BY <1>1, <1>2, <1>5, <2>1
    <3>2. QED
      BY <1>5, <3>1
  <2>2. CASE i \in 1..Len(s) /\ i # Len(s)
    <3>1. i < Len(s) /\ i + 1 \in 1..Len(s)
      BY <1>1, <2>2
    <3>2. QED
      BY <1>2, <1>5, <2>2, <3>1 DEF Fine, Apart
  <2>3. CASE i \notin 1..Len(s)
    <3>1. i - Len(s) \in 1..Len(t) /\ r[i] = t[i - Len(s)]
      BY <1>3, <2>3
    <3>2. i - Len(s) < Len(t) /\ (i - Len(s)) + 1 \in 1..Len(t) /\ i + 1 = Len(s) + ((i - Len(s)) + 1)
      BY <1>1, <1>2, <1>5, <3>1
    <3>3. r[i + 1] = t[(i - Len(s)) + 1]
      BY <1>2, <3>2
    <3>4. QED
      BY <1>5, <3>1, <3>2, <3>3 DEF Fine, Apart
  <2>4. QED
    BY <2>1, <2>2, <2>3
<1>6. QED
  BY <1>2, <1>4, <1>5 DEF Fine, Apart, r

\* What is left when the first k tokens, no commands, are taken away.
LEMMA FineRest ==
  ASSUME NEW s, Fine(s), NEW k \in Nat, k < Len(s), \A i \in 1..k : ~IsCommand(s[i])
  PROVE  LET r == SubSeq(s, k + 1, Len(s)) IN
         Fine(r) /\ r # <<>> /\ r[1] = s[k + 1] /\ CommandsIn(r) = CommandsIn(s)
<1> DEFINE r == SubSeq(s, k + 1, Len(s))
<1>1. Listed(s) /\ Len(s) \in Nat
  BY ListedFacts DEF Fine
<1>2. /\ r \in Seq(Range(s)) /\ Len(r) = Len(s) - k
      /\ \A i \in 1..(Len(s) - k) : r[i] = s[k + i]
  <2>1. s \in Seq(Range(s)) /\ k + 1 \in 1..(Len(s) + 1) /\ Len(s) \in k..Len(s)
    BY <1>1 DEF Listed
  <2>2. QED
    BY <1>1, <2>1, SubSeqProperties
<1>3. Listed(r)
  BY <1>2, ListedIn
<1> HIDE DEF r
<1>4. \A i \in 1..Len(r) : r[i] = s[k + i] /\ k + i \in 1..Len(s)
  BY <1>1, <1>2
<1>5. ASSUME NEW i \in 1..Len(r), Ends(r[i]), i < Len(r) PROVE r[i + 1].t # "word"
  <2>1. k + i \in 1..Len(s) /\ k + i < Len(s) /\ r[i] = s[k + i]
    BY <1>1, <1>2, <1>4, <1>5
  <2>2. i + 1 \in 1..Len(r) /\ k + (i + 1) = (k + i) + 1
    BY <1>1, <1>2, <1>5
  <2>3. r[i + 1] = s[(k + i) + 1]
    BY <1>4, <2>2
  <2>4. QED
    BY <1>5, <2>1, <2>3 DEF Fine, Apart
<1>6. Fine(r)
  BY <1>3, <1>4, <1>5 DEF Fine, Apart
<1>7. r # <<>> /\ r[1] = s[k + 1]
  <2>1. 1 \in 1..(Len(s) - k) /\ Len(r) # 0
    BY <1>1, <1>2
  <2>2. QED
    BY <1>2, <1>3, <2>1, ListedFacts
<1>8. CommandsIn(r) = CommandsIn(s)
  <2>1. CommandsIn(r) = Until(r, Len(r)) /\ CommandsIn(s) = Until(s, Len(s))
    BY <1>1, <1>3, CommandsUntil
  <2>2. Until(r, Len(r)) \subseteq Until(s, Len(s))
    BY <1>4 DEF Until
  <2>3. ASSUME NEW i \in 1..Len(s), IsCommand(s[i])
        PROVE  \E j \in 1..Len(r) : r[j] = s[i]
    <3>1. i \notin 1..k
      BY <2>3
    <3>2. i - k \in 1..Len(r) /\ k + (i - k) = i
      BY <1>1, <1>2, <3>1
    <3>3. QED
      BY <1>4, <3>2
  <2>4. Until(s, Len(s)) \subseteq Until(r, Len(r))
    BY <2>3 DEF Until
  <2>5. Until(r, Len(r)) = Until(s, Len(s))
    <3> DEFINE A == Until(r, Len(r))
               B == Until(s, Len(s))
    <3>1. A \subseteq B /\ B \subseteq A
      BY <2>2, <2>4
    <3> HIDE DEF A, B
    <3>2. A = B
      BY <3>1
    <3>3. QED
      BY <3>2 DEF A, B
  <2>6. QED
    BY <2>1, <2>5
<1>9. QED
  BY <1>6, <1>7, <1>8 DEF r


-----------------------------------------------------------------------------
\* split_segments.  A segment has been read as far as its tokens go: the first
\* `leading` of them are closing words, so none of these is a command.
Segment(S) == [tokens : Seq(S), opens : Nat, closes : Nat, leading : Nat]
State(S) == [segments : Seq(Segment(S)), current : Segment(S), pending : Nat]

Whole(g) ==
  Fine(g.tokens) /\ g.leading <= Len(g.tokens) /\ \A i \in 1..g.leading : ~IsCommand(g.tokens[i])
AllWhole(segs) == \A i \in 1..Len(segs) : Whole(segs[i]) /\ segs[i].tokens # <<>>
HeldBy(segs) == UNION {CommandsIn(segs[i].tokens) : i \in 1..Len(segs)}
Held(s) == HeldBy(s.segments) \cup CommandsIn(s.current.tokens)

LEMMA NewSegmentWhole ==
  /\ \A S : NewSegment \in Segment(S)
  /\ Whole(NewSegment) /\ CommandsIn(NewSegment.tokens) = {}
<1>1. NewSegment.tokens = <<>> /\ NewSegment.leading = 0 /\ Len(<<>>) = 0
  BY DEF NewSegment
<1>2. ASSUME NEW S PROVE NewSegment \in Segment(S)
  BY EmptySeq DEF NewSegment, Segment
<1>3. QED
  BY <1>1, <1>2, FineEmpty, CommandsNone DEF Whole

LEMMA CutFacts ==
  ASSUME NEW S, NEW s \in State(S), AllWhole(s.segments), Whole(s.current)
  PROVE  LET c == Cut(s) IN
         /\ c \in State(S) /\ AllWhole(c.segments) /\ Whole(c.current)
         /\ c.current.tokens = <<>> /\ Held(c) = Held(s)
<1>1. CASE s.current.tokens = <<>>
  BY <1>1 DEF Cut
<1>2. CASE s.current.tokens # <<>>
  <2> DEFINE c == Cut(s)
             segs == s.segments
  <2>1. /\ segs \in Seq(Segment(S)) /\ s.current \in Segment(S)
        /\ Len(segs) \in Nat
    BY LenProperties DEF State
  <2>2. /\ c.segments = Append(segs, s.current) /\ c.current = NewSegment
        /\ c.pending = s.pending /\ c \in State(S)
    BY <1>2, <2>1, NewSegmentWhole, AppendProperties DEF Cut, State
  <2>3. /\ Len(c.segments) = Len(segs) + 1
        /\ \A i \in 1..Len(segs) : c.segments[i] = segs[i]
        /\ c.segments[Len(segs) + 1] = s.current
    BY <2>1, <2>2, AppendProperties
  <2> HIDE DEF c
  <2>4. \A i \in 1..Len(c.segments) : i \in 1..Len(segs) \/ i = Len(segs) + 1
    BY <2>1, <2>3
  <2>5. AllWhole(c.segments)
    BY <1>2, <2>3, <2>4 DEF AllWhole
  <2>6. HeldBy(c.segments) = HeldBy(segs) \cup CommandsIn(s.current.tokens)
    <3>1. 1..Len(c.segments) = 1..Len(segs) \cup {Len(segs) + 1}
      BY <2>1, <2>3
    <3>2. QED
      BY <2>3, <3>1 DEF HeldBy
  <2>7. c.current.tokens = <<>> /\ CommandsIn(c.current.tokens) = {}
    BY <2>2, NewSegmentWhole DEF NewSegment
  <2>8. QED
    BY <2>2, <2>5, <2>6, <2>7, NewSegmentWhole DEF Held, c
<1>3. QED
  BY <1>1, <1>2

LEMMA OneMoreClosed ==
  ASSUME NEW S, NEW g \in Segment(S)
  PROVE  LET c == [g EXCEPT !.closes = @ + 1] IN
         c \in Segment(S) /\ c.tokens = g.tokens /\ c.leading = g.leading
BY DEF Segment

LEMMA CloseLastFacts ==
  ASSUME NEW S, NEW s \in State(S), AllWhole(s.segments)
  PROVE  LET c == CloseLast(s) IN
         /\ c \in State(S) /\ AllWhole(c.segments) /\ c.current = s.current
         /\ c.pending = s.pending /\ HeldBy(c.segments) = HeldBy(s.segments)
<1>1. CASE s.segments = <<>>
  BY <1>1 DEF CloseLast
<1>2. CASE s.segments # <<>>
  <2> DEFINE c == CloseLast(s)
             segs == s.segments
             N == Len(segs)
             last == [segs[N] EXCEPT !.closes = @ + 1]
  <2>1. segs \in Seq(Segment(S)) /\ N \in Nat /\ N \in 1..N /\ segs[N] \in Segment(S)
    BY <1>2, LenProperties, EmptySeq, ElementOfSeq DEF State
  <2>2. last \in Segment(S) /\ last.tokens = segs[N].tokens /\ last.leading = segs[N].leading
    BY <2>1, OneMoreClosed
  <2>3. /\ c.segments = [segs EXCEPT ![N] = last] /\ c.current = s.current
        /\ c.pending = s.pending
    BY <1>2 DEF CloseLast, State
  <2>4. /\ c.segments \in Seq(Segment(S)) /\ Len(c.segments) = N
        /\ \A i \in 1..N : c.segments[i] = IF i = N THEN last ELSE segs[i]
    <3> HIDE DEF last, c
    <3>1. QED
      BY <2>1, <2>2, <2>3, ExceptSeq
  <2>5. c \in State(S)
    BY <1>2, <2>3, <2>4 DEF CloseLast, State
  <2> HIDE DEF last, c
  <2>6. \A i \in 1..N : /\ c.segments[i].tokens = segs[i].tokens
                        /\ c.segments[i].leading = segs[i].leading
    BY <2>2, <2>4
  <2>7. AllWhole(c.segments)
    BY <2>4, <2>6 DEF AllWhole, Whole
  <2>8. HeldBy(c.segments) = HeldBy(segs)
    BY <2>4, <2>6 DEF HeldBy
  <2>9. QED
    BY <2>3, <2>5, <2>7, <2>8 DEF c
<1>3. QED
  BY <1>1, <1>2

LEMMA CloseFacts ==
  ASSUME NEW S, NEW s \in State(S), AllWhole(s.segments)
  PROVE  LET c == Close(s) IN
         /\ c \in State(S) /\ AllWhole(c.segments) /\ c.current = s.current
         /\ HeldBy(c.segments) = HeldBy(s.segments)
<1>1. CASE s.pending > 0
  BY <1>1 DEF Close, State
<1>2. CASE ~(s.pending > 0)
  BY <1>2, CloseLastFacts DEF Close
<1>3. QED
  BY <1>1, <1>2

LEMMA PushFacts ==
  ASSUME NEW S, NEW s \in State(S), AllWhole(s.segments), Whole(s.current),
         NEW tok \in S, Known(tok),
         \/ s.current.tokens = <<>>
         \/ tok.t = "|"
         \/ ~Ends(s.current.tokens[Len(s.current.tokens)])
  PROVE  LET p == Push(s, tok) IN
         /\ p \in State(S) /\ AllWhole(p.segments) /\ Whole(p.current)
         /\ p.current.tokens # <<>>
         /\ p.current.tokens[Len(p.current.tokens)] = tok
         /\ Held(p) = Held(s) \cup (IF IsCommand(tok) THEN {tok.cmd} ELSE {})
<1> DEFINE now    == s.current
           first  == now.tokens = <<>>
           closer == Len(now.tokens) = now.leading /\ tok.text \in Closers
           opened == s.pending + (IF tok.text \in Openers THEN 1 ELSE 0)
           r == IF closer THEN CloseLast(s) ELSE s
           more == [tokens |-> Append(now.tokens, tok),
                    opens |-> IF first THEN opened ELSE now.opens,
                    closes |-> now.closes,
                    leading |-> IF closer THEN now.leading + 1 ELSE now.leading]
           p == Push(s, tok)
<1>1. /\ r \in State(S) /\ AllWhole(r.segments) /\ r.current = now
      /\ HeldBy(r.segments) = HeldBy(s.segments)
  BY CloseLastFacts
<1>2. now \in Segment(S) /\ now.tokens \in Seq(S) /\ Len(now.tokens) \in Nat /\ opened \in Nat
  BY LenProperties DEF State, Segment
<1>3. /\ more \in Segment(S) /\ more.tokens = Append(now.tokens, tok)
      /\ more.leading = IF closer THEN now.leading + 1 ELSE now.leading
  <2> DEFINE o == IF first THEN opened ELSE now.opens
             l == IF closer THEN now.leading + 1 ELSE now.leading
             a == Append(now.tokens, tok)
  <2>1. o \in Nat /\ l \in Nat /\ a \in Seq(S) /\ now.closes \in Nat
    BY <1>2, AppendProperties DEF Segment
  <2>2. [tokens |-> a, opens |-> o, closes |-> now.closes, leading |-> l] \in Segment(S)
    <3> HIDE DEF o, l, a
    <3>1. QED
      BY <2>1 DEF Segment
  <2>3. QED
    BY <2>2
<1>4. p = [segments |-> r.segments, pending |-> IF first THEN 0 ELSE s.pending, current |-> more]
  BY DEF Push
<1> HIDE DEF more, r, p, closer, opened
<1>5. p.segments = r.segments /\ p.current = more /\ p \in State(S)
  BY <1>1, <1>3, <1>4 DEF State
<1>6. Fine(more.tokens)
  BY <1>3, FineAppend DEF Whole
<1>7. /\ more.tokens # <<>> /\ Len(more.tokens) = Len(now.tokens) + 1
      /\ \A i \in 1..Len(now.tokens) : more.tokens[i] = now.tokens[i]
      /\ more.tokens[Len(more.tokens)] = tok
  BY <1>2, <1>3, ListedIn, ListedAppend
<1>8. Whole(more)
  <2>1. CASE ~closer
    <3>1. more.leading = now.leading /\ now.leading <= Len(now.tokens) /\ now.leading \in Nat
      BY <1>2, <1>3, <2>1 DEF Whole, Segment
    <3>2. \A i \in 1..now.leading : i \in 1..Len(now.tokens)
      BY <1>2, <3>1
    <3>3. QED
      BY <1>2, <1>6, <1>7, <3>1, <3>2 DEF Whole
  <2>2. CASE closer
    <3>1. /\ more.leading = Len(more.tokens) /\ now.leading = Len(now.tokens)
          /\ tok.text \in Closers
      BY <1>2, <1>3, <1>7, <2>2 DEF closer
    <3>2. ~IsCommand(tok)
      BY <3>1 DEF IsCommand, Closers
    <3>3. \A i \in 1..more.leading : i \in 1..Len(now.tokens) \/ i = Len(more.tokens)
      BY <1>2, <1>7, <3>1
    <3>4. QED
      BY <1>2, <1>6, <1>7, <3>1, <3>2, <3>3 DEF Whole
  <2>3. QED
    BY <2>1, <2>2
<1>9. Held(p) = Held(s) \cup (IF IsCommand(tok) THEN {tok.cmd} ELSE {})
  <2>1. CommandsIn(more.tokens) = CommandsIn(now.tokens) \cup (IF IsCommand(tok) THEN {tok.cmd} ELSE {})
    BY <1>2, <1>3, ListedIn, CommandsAppend
  <2>2. QED
    BY <1>1, <1>5, <2>1 DEF Held
<1>10. QED
  BY <1>1, <1>5, <1>7, <1>8, <1>9 DEF p

Start == [segments |-> <<>>, current |-> NewSegment, pending |-> 0]

LEMMA SplitDef ==
  ASSUME NEW tokens, Len(tokens) \in Nat
  PROVE  \E after :
           /\ after = [i \in 0..Len(tokens) |->
                         IF i = 0 THEN Start ELSE AddToken(after[i - 1], tokens[i])]
           /\ SplitSegments(tokens) = Cut(after[Len(tokens)]).segments
<1> DEFINE N == Len(tokens)
           Is(f, n) == f = [i \in 0..n |-> IF i = 0 THEN Start ELSE AddToken(f[i - 1], tokens[i])]
           T == {n \in 0..N : \E f : Is(f, n)}
<1>1. 0 \in T
  <2>1. Is([i \in 0..0 |-> Start], 0)
    OBVIOUS
  <2> HIDE DEF Is
  <2>2. QED
    BY <2>1
<1>2. ASSUME NEW n \in 0..N, n < N, n \in T PROVE n + 1 \in T
  <2>1. PICK f : Is(f, n)
    BY <1>2
  <2> DEFINE g == [i \in 0..(n + 1) |-> IF i = n + 1 THEN AddToken(f[n], tokens[n + 1]) ELSE f[i]]
  <2>2. Is(g, n + 1)
    BY <2>1
  <2> HIDE DEF Is, g
  <2>3. \E h : Is(h, n + 1)
    BY <2>2
  <2>4. n + 1 \in 0..N
    BY <1>2
  <2>5. QED
    BY <2>3, <2>4
<1>3. \E f : Is(f, N)
  <2>1. N \in 0..N /\ N \in Nat
    OBVIOUS
  <2>2. N \in T
    <3> HIDE DEF T, N
    <3>1. QED
      BY <1>1, <1>2, <2>1, UpTo
  <2> HIDE DEF Is
  <2>3. QED
    BY <2>2
<1>4. QED
  BY <1>3 DEF SplitSegments, Start

\* What a line can hold, by the kind of the token.
LEMMA TokenKinds ==
  ASSUME NEW tokens, Grammatical(tokens), NEW i \in 1..Len(tokens)
  PROVE  \/ tokens[i].t \in {";", "(", ")"} /\ ~IsCommand(tokens[i])
         \/ tokens[i].t \notin {";", "(", ")"} /\ Known(tokens[i])
<1>1. tokens \in Seq(Range(tokens)) /\ i \in DOMAIN tokens
  <2>1. tokens \in Seq(Range(tokens))
    BY DEF Grammatical
  <2>2. QED
    BY <2>1, LenProperties
<1>2. \/ tokens[i].t \in {";", "(", ")", "|"} /\ tokens[i].text = ""
      \/ tokens[i].t = "word" /\ tokens[i].text \in ReservedWords
      \/ tokens[i].t = "word" /\ (IsCommand(tokens[i]) \/ IsRedirect(tokens[i]))
  BY <1>1 DEF Grammatical
<1>3. QED
  BY <1>2 DEF IsCommand, IsRedirect, Known

\* split_segments keeps every command and makes none: what was read is in the
\* segments or in the current one, whose last token is the last one read.
LEMMA SplitFacts ==
  ASSUME NEW tokens, Grammatical(tokens)
  PROVE  LET segs == SplitSegments(tokens) IN
         /\ segs \in Seq(Segment(Range(tokens))) /\ AllWhole(segs)
         /\ HeldBy(segs) = CommandsIn(tokens)
<1> DEFINE N == Len(tokens)
           S == Range(tokens)
<1>1. /\ tokens \in Seq(S) /\ N \in Nat /\ Listed(tokens)
      /\ \A i \in 1..N : tokens[i] \in S
  <2>1. tokens \in Seq(S)
    BY DEF Grammatical
  <2>2. QED
    BY <2>1, LenProperties, ElementOfSeq DEF Listed
<1>2. PICK after : /\ after = [i \in 0..N |->
                                 IF i = 0 THEN Start ELSE AddToken(after[i - 1], tokens[i])]
                   /\ SplitSegments(tokens) = Cut(after[N]).segments
  BY <1>1, SplitDef
<1> DEFINE Ok(s, i) ==
             /\ s \in State(S) /\ AllWhole(s.segments) /\ Whole(s.current)
             /\ Held(s) = Until(tokens, i)
             /\ s.current.tokens # <<>> =>
                  i > 0 /\ s.current.tokens[Len(s.current.tokens)] = tokens[i]
           T == {n \in 0..N : Ok(after[n], n)}
<1>3. 0 \in T
  <2>1. after[0] = Start
    BY <1>1, <1>2
  <2>2. Start.segments = <<>> /\ Start.current = NewSegment /\ Start \in State(S)
    BY EmptySeq, NewSegmentWhole DEF Start, State
  <2>3. AllWhole(<<>>) /\ HeldBy(<<>>) = {}
    <3>1. Len(<<>>) = 0
      OBVIOUS
    <3>2. QED
      BY <3>1 DEF AllWhole, HeldBy
  <2>4. Until(tokens, 0) = {} /\ NewSegment.tokens = <<>>
    BY DEF Until, NewSegment
  <2>5. Ok(Start, 0)
    BY <2>2, <2>3, <2>4, NewSegmentWhole DEF Held
  <2>6. QED
    BY <1>1, <2>1, <2>5
<1>4. ASSUME NEW n \in 0..N, n < N, n \in T PROVE n + 1 \in T
  <2> DEFINE s == after[n]
             tok == tokens[n + 1]
             new == IF IsCommand(tok) THEN {tok.cmd} ELSE {}
  <2>1. Ok(s, n) /\ n + 1 \in 1..N /\ n + 1 \in 0..N /\ tok \in S
    BY <1>1, <1>4
  <2>2. after[n + 1] = AddToken(s, tok)
    <3>1. \A i \in 0..N : after[i] = IF i = 0 THEN Start ELSE AddToken(after[i - 1], tokens[i])
      BY <1>2
    <3>2. (n + 1) - 1 = n /\ n + 1 # 0
      OBVIOUS
    <3>3. QED
      BY <2>1, <3>1, <3>2
  <2>3. Until(tokens, n + 1) = Until(tokens, n) \cup new
    <3>1. 1..(n + 1) = 1..n \cup {n + 1}
      OBVIOUS
    <3>2. QED
      BY <3>1 DEF Until
  <2> DEFINE c == Cut(s)
  <2>4. /\ c \in State(S) /\ AllWhole(c.segments) /\ Whole(c.current)
        /\ c.current.tokens = <<>> /\ Held(c) = Held(s)
    BY <2>1, CutFacts
  <2> HIDE DEF c, s, tok
  <2>5. CASE tok.t \in {";", "(", ")"}
    <3>1. new = {} /\ Held(c) = Until(tokens, n + 1)
      BY <2>1, <2>3, <2>4, <2>5, TokenKinds DEF Known, tok
    <3>2. CASE tok.t = ";"
      BY <2>1, <2>2, <2>4, <3>1, <3>2 DEF AddToken, c
    <3>3. CASE tok.t = "("
      <4> DEFINE d == [c EXCEPT !.pending = @ + 1]
      <4>1. d \in State(S) /\ d.segments = c.segments /\ d.current = c.current
        BY <2>4 DEF State
      <4>2. after[n + 1] = d
        BY <2>2, <3>3 DEF AddToken, c
      <4> HIDE DEF d
      <4>3. Ok(d, n + 1)
        BY <2>4, <3>1, <4>1 DEF Held
      <4>4. QED
        BY <2>1, <4>2, <4>3
    <3>4. CASE tok.t = ")"
      <4> DEFINE d == Close(c)
      <4>1. /\ d \in State(S) /\ AllWhole(d.segments) /\ d.current = c.current
            /\ HeldBy(d.segments) = HeldBy(c.segments)
        BY <2>4, CloseFacts
      <4>2. after[n + 1] = d
        BY <2>2, <3>4 DEF AddToken, c
      <4> HIDE DEF d
      <4>3. Ok(d, n + 1)
        BY <2>4, <3>1, <4>1 DEF Held
      <4>4. QED
        BY <2>1, <4>2, <4>3
    <3>5. QED
      BY <2>5, <3>2, <3>3, <3>4
  <2>6. CASE tok.t \notin {";", "(", ")"}
    <3> DEFINE p == Push(s, tok)
    <3>1. Known(tok)
      BY <2>1, <2>6, TokenKinds DEF tok
    <3>2. \/ s.current.tokens = <<>>
          \/ tok.t = "|"
          \/ ~Ends(s.current.tokens[Len(s.current.tokens)])
      <4>1. ASSUME s.current.tokens # <<>>, Ends(s.current.tokens[Len(s.current.tokens)])
            PROVE  tok.t = "|"
        <5>1. n \in 1..N /\ Ends(tokens[n])
          BY <2>1, <4>1
        <5>2. DOMAIN tokens = 1..N
          BY <1>1, LenProperties
        <5>3. tokens[n + 1].t # "word"
          <6>1. \/ tokens[n].t \in {";", "(", ")", "|"} /\ tokens[n].text = ""
                \/ tokens[n].t = "word" /\ tokens[n].text \in ReservedWords
                \/ n + 1 \in DOMAIN tokens => tokens[n + 1].t # "word"
            BY <5>1, <5>2 DEF Grammatical
          <6>2. QED
            BY <2>1, <5>1, <5>2, <6>1 DEF Ends, ReservedWords, Openers, Closers
        <5>4. QED
          BY <3>1, <5>3 DEF Known, tok
      <4>2. QED
        BY <4>1
    <3>3. /\ p \in State(S) /\ AllWhole(p.segments) /\ Whole(p.current)
          /\ p.current.tokens # <<>>
          /\ p.current.tokens[Len(p.current.tokens)] = tok
          /\ Held(p) = Held(s) \cup new
      BY <2>1, <3>1, <3>2, PushFacts
    <3>4. after[n + 1] = p
      BY <2>2, <2>6 DEF AddToken
    <3> HIDE DEF p
    <3>5. Ok(p, n + 1)
      BY <2>1, <2>3, <3>3 DEF tok
    <3>6. QED
      BY <2>1, <3>4, <3>5
  <2>7. QED
    BY <2>5, <2>6
<1>5. N \in T
  <2>1. N \in 0..N
    BY <1>1
  <2> HIDE DEF T, N
  <2>2. QED
    BY <1>1, <1>3, <1>4, <2>1, UpTo DEF N
<1>6. Ok(after[N], N)
  BY <1>5
<1> DEFINE c == Cut(after[N])
<1>7. /\ c \in State(S) /\ AllWhole(c.segments) /\ c.current.tokens = <<>>
      /\ Held(c) = Held(after[N])
  BY <1>6, CutFacts
<1> HIDE DEF c
<1>8. HeldBy(c.segments) = CommandsIn(tokens)
  BY <1>1, <1>6, <1>7, CommandsUntil, CommandsNone DEF Held
<1>9. QED
  BY <1>2, <1>7, <1>8 DEF c, State

-----------------------------------------------------------------------------
\* join_piped_groups: whichever segments are joined, what is left out of them
\* are closing words, and what is put between two of them is a pipe.
AllFine(outs) == Listed(outs) /\ \A i \in 1..Len(outs) : Fine(outs[i]) /\ outs[i] # <<>>
HeldIn(outs) == UNION {CommandsIn(outs[i]) : i \in 1..Len(outs)}

LEMMA KeptFacts ==
  ASSUME NEW S, NEW segs \in Seq(Segment(S)), AllWhole(segs), NEW j \in 1..Len(segs)
  PROVE  LET t == Kept(segs, j) IN
         Fine(t) /\ t # <<>> /\ CommandsIn(t) = CommandsIn(segs[j].tokens)
<1> DEFINE g == segs[j]
<1>1. /\ Fine(g.tokens) /\ g.tokens # <<>> /\ g.leading \in Nat
      /\ \A i \in 1..g.leading : ~IsCommand(g.tokens[i])
  <2>1. g \in Segment(S)
    BY ElementOfSeq
  <2>2. g.leading \in Nat
    BY <2>1 DEF Segment
  <2>3. QED
    BY <2>2 DEF AllWhole, Whole
<1>2. CASE AfterGroup(segs, j)
  <2>1. Len(g.tokens) > g.leading
    BY <1>2 DEF AfterGroup, ReadsGroupOutput
  <2>2. Len(g.tokens) \in Nat
    BY <1>1, ListedFacts DEF Fine
  <2>3. g.leading < Len(g.tokens)
    BY <1>1, <2>1, <2>2
  <2>4. Kept(segs, j) = SubSeq(g.tokens, g.leading + 1, Len(g.tokens))
    BY <1>2 DEF Kept
  <2> HIDE DEF g
  <2>5. QED
    BY <1>1, <2>3, <2>4, FineRest DEF g
<1>3. CASE ~AfterGroup(segs, j)
  BY <1>1, <1>3 DEF Kept
<1>4. QED
  BY <1>2, <1>3

LEMMA AddSegmentFacts ==
  ASSUME NEW out, AllFine(out), NEW t, Fine(t), t # <<>>, NEW joined \in BOOLEAN
  PROVE  LET r == AddSegment(out, t, joined) IN
         AllFine(r) /\ HeldIn(r) = HeldIn(out) \cup CommandsIn(t)
<1> DEFINE N == Len(out)
<1>1. Listed(out) /\ N \in Nat /\ (out = <<>> <=> N = 0)
  BY ListedFacts DEF AllFine
<1>2. CASE joined /\ out # <<>>
  <2> DEFINE last == out[N]
             x == last \o <<Symbol("|")>>
             y == x \o t
             r == [out EXCEPT ![N] = y]
  <2>1. AddSegment(out, t, joined) = r
    BY <1>2 DEF AddSegment
  <2>2. N \in 1..N /\ Fine(last) /\ last # <<>> /\ Listed(last)
    BY <1>1, <1>2 DEF AllFine, Fine
  <2>3. Symbol("|").t = "|" /\ Symbol("|").text = ""
    BY DEF Symbol
  <2>4. x = Append(last, Symbol("|"))
    <3>1. last \in Seq(Range(last) \cup {Symbol("|")})
      BY <2>2, ListedOver
    <3> HIDE DEF last
    <3>2. QED
      BY <3>1, AppendIsConcat DEF last
  <2>5. Fine(x)
    BY <2>2, <2>3, <2>4, FineAppend DEF Known
  <2>6. /\ Listed(x) /\ x # <<>> /\ x[Len(x)] = Symbol("|") /\ ~Ends(Symbol("|"))
        /\ CommandsIn(x) = CommandsIn(last)
    <3>1. Len(last) \in Nat
      BY <2>2, ListedFacts
    <3> HIDE DEF last, x
    <3>2. ~Ends(Symbol("|"))
      BY <2>3 DEF Ends
    <3>3. /\ Listed(x) /\ x # <<>> /\ Len(x) = Len(last) + 1
          /\ x[Len(last) + 1] = Symbol("|")
      BY <2>2, <2>4, ListedAppend
    <3>4. ~IsCommand(Symbol("|"))
      BY <3>2 DEF Ends, IsCommand
    <3>5. CommandsIn(x) = CommandsIn(last)
      BY <2>2, <2>4, <3>4, CommandsAppend
    <3>6. QED
      BY <3>2, <3>3, <3>5
  <2>7. Fine(y)
    BY <2>5, <2>6, FineConcat
  <2>8. y # <<>> /\ CommandsIn(y) = CommandsIn(last) \cup CommandsIn(t)
    <3>1. Len(y) = Len(x) + Len(t) /\ Len(x) \in Nat /\ Len(t) \in Nat /\ Len(t) # 0
      BY <2>6, ListedConcat, ListedFacts DEF Fine
    <3>2. Len(y) # 0 /\ Listed(y)
      BY <2>7, <3>1 DEF Fine
    <3>3. y # <<>>
      BY <3>2, ListedFacts
    <3>4. CommandsIn(y) = CommandsIn(x) \cup CommandsIn(t)
      BY <2>6, CommandsConcat DEF Fine
    <3>5. QED
      BY <2>6, <3>3, <3>4
  <2> HIDE DEF y
  <2>9. /\ Listed(r) /\ Len(r) = N
        /\ \A i \in 1..N : r[i] = IF i = N THEN y ELSE out[i]
    <3> DEFINE S == Range(out) \cup {y}
    <3>1. out \in Seq(S) /\ y \in S
      BY <1>1, ListedOver
    <3> HIDE DEF S
    <3>2. r \in Seq(S) /\ Len(r) = N /\ \A i \in 1..N : r[i] = IF i = N THEN y ELSE out[i]
      BY <2>2, <3>1, ExceptSeq
    <3> HIDE DEF r
    <3>3. QED
      BY <3>2, ListedIn
  <2> HIDE DEF r
  <2>10. AllFine(r)
    BY <2>7, <2>8, <2>9 DEF AllFine
  <2>11. HeldIn(r) = HeldIn(out) \cup CommandsIn(t)
    <3>1. \A i \in 1..N : CommandsIn(r[i]) = IF i = N THEN CommandsIn(out[i]) \cup CommandsIn(t)
                                                     ELSE CommandsIn(out[i])
      BY <2>8, <2>9
    <3>2. QED
      BY <2>2, <2>9, <3>1 DEF HeldIn
  <2>12. QED
    BY <2>1, <2>10, <2>11 DEF r
<1>3. CASE ~(joined /\ out # <<>>)
  <2> DEFINE r == Append(out, t)
  <2>1. AddSegment(out, t, joined) = r
    BY <1>3 DEF AddSegment
  <2>2. /\ Listed(r) /\ Len(r) = N + 1
        /\ \A i \in 1..N : r[i] = out[i]
        /\ r[N + 1] = t
    BY <1>1, ListedAppend
  <2> HIDE DEF r
  <2>3. 1..Len(r) = 1..N \cup {N + 1}
    BY <1>1, <2>2
  <2>4. AllFine(r)
    BY <2>2, <2>3 DEF AllFine
  <2>5. HeldIn(r) = HeldIn(out) \cup CommandsIn(t)
    BY <2>2, <2>3 DEF HeldIn
  <2>6. QED
    BY <2>1, <2>4, <2>5
<1>4. QED
  BY <1>2, <1>3

LEMMA JoinDef ==
  ASSUME NEW segs, Len(segs) \in Nat
  PROVE  \E out :
           /\ out = [j \in 0..Len(segs) |->
                       IF j = 0 THEN <<>>
                       ELSE AddSegment(out[j - 1], Kept(segs, j), j - 1 \in Joined(segs))]
           /\ JoinPipedGroups(segs) = out[Len(segs)]
<1> DEFINE N == Len(segs)
           Next(f, j) == AddSegment(f[j - 1], Kept(segs, j), j - 1 \in Joined(segs))
           Is(f, n) == f = [j \in 0..n |-> IF j = 0 THEN <<>> ELSE Next(f, j)]
           T == {n \in 0..N : \E f : Is(f, n)}
<1>1. 0 \in T
  <2>1. Is([i \in 0..0 |-> <<>>], 0)
    OBVIOUS
  <2> HIDE DEF Is
  <2>2. QED
    BY <2>1
<1>2. ASSUME NEW n \in 0..N, n < N, n \in T PROVE n + 1 \in T
  <2>1. PICK f : Is(f, n)
    BY <1>2
  <2> DEFINE last == AddSegment(f[n], Kept(segs, n + 1), n \in Joined(segs))
             g == [j \in 0..(n + 1) |-> IF j = n + 1 THEN last ELSE f[j]]
  <2>2. Is(g, n + 1)
    BY <2>1
  <2> HIDE DEF Is, g
  <2>3. \E h : Is(h, n + 1)
    BY <2>2
  <2>4. n + 1 \in 0..N
    BY <1>2
  <2>5. QED
    BY <2>3, <2>4
<1>3. \E f : Is(f, N)
  <2>1. N \in 0..N /\ N \in Nat
    OBVIOUS
  <2>2. N \in T
    <3> HIDE DEF T, N
    <3>1. QED
      BY <1>1, <1>2, <2>1, UpTo
  <2> HIDE DEF Is
  <2>3. QED
    BY <2>2
<1>4. QED
  BY <1>3 DEF JoinPipedGroups

LEMMA JoinFacts ==
  ASSUME NEW S, NEW segs \in Seq(Segment(S)), AllWhole(segs)
  PROVE  LET outs == JoinPipedGroups(segs) IN
         AllFine(outs) /\ HeldIn(outs) = HeldBy(segs)
<1> DEFINE N == Len(segs)
<1>1. N \in Nat
  BY LenProperties
<1>2. PICK out : /\ out = [j \in 0..N |->
                             IF j = 0 THEN <<>>
                             ELSE AddSegment(out[j - 1], Kept(segs, j), j - 1 \in Joined(segs))]
                 /\ JoinPipedGroups(segs) = out[N]
  BY <1>1, JoinDef
<1> DEFINE Read(n) == UNION {CommandsIn(segs[i].tokens) : i \in 1..n}
           Ok(r, n) == AllFine(r) /\ HeldIn(r) = Read(n)
           T == {n \in 0..N : Ok(out[n], n)}
<1>3. 0 \in T
  <2>1. out[0] = <<>>
    BY <1>1, <1>2
  <2>2. Len(<<>>) = 0 /\ Listed(<<>>)
    BY ListedShort
  <2>3. Ok(<<>>, 0)
    BY <2>2 DEF AllFine, HeldIn
  <2>4. QED
    BY <1>1, <2>1, <2>3
<1>4. ASSUME NEW n \in 0..N, n < N, n \in T PROVE n + 1 \in T
  <2> DEFINE t == Kept(segs, n + 1)
             joined == n \in Joined(segs)
  <2>1. Ok(out[n], n) /\ n + 1 \in 1..N /\ n + 1 \in 0..N
    BY <1>1, <1>4
  <2>2. out[n + 1] = AddSegment(out[n], t, joined)
    <3>1. \A j \in 0..N : out[j] = IF j = 0 THEN <<>>
                                   ELSE AddSegment(out[j - 1], Kept(segs, j), j - 1 \in Joined(segs))
      BY <1>2
    <3>2. (n + 1) - 1 = n /\ n + 1 # 0
      OBVIOUS
    <3>3. QED
      BY <2>1, <3>1, <3>2
  <2>3. Fine(t) /\ t # <<>> /\ CommandsIn(t) = CommandsIn(segs[n + 1].tokens)
    BY <2>1, KeptFacts
  <2>4. joined \in BOOLEAN
    OBVIOUS
  <2> HIDE DEF t, joined
  <2>5. AllFine(out[n + 1]) /\ HeldIn(out[n + 1]) = HeldIn(out[n]) \cup CommandsIn(t)
    BY <2>1, <2>2, <2>3, <2>4, AddSegmentFacts
  <2>6. Read(n + 1) = Read(n) \cup CommandsIn(segs[n + 1].tokens)
    <3>1. 1..(n + 1) = 1..n \cup {n + 1}
      OBVIOUS
    <3>2. QED
      BY <3>1
  <2>7. QED
    BY <2>1, <2>3, <2>5, <2>6
<1>5. N \in T
  <2>1. N \in 0..N
    BY <1>1
  <2> HIDE DEF T, N
  <2>2. QED
    BY <1>1, <1>3, <1>4, <2>1, UpTo DEF N
<1>6. QED
  BY <1>2, <1>5 DEF HeldBy

-----------------------------------------------------------------------------
\* parse_pipeline's words: only the last one of a command can be more than a
\* reserved word, so that is the one peel_reserved_words stops at.
Headed(w) ==
  Listed(w) /\ \A i \in 1..Len(w) : /\ w[i].text \in ReservedWords \cup {"command", "redirect"}
                                    /\ Ends(w[i]) => i = Len(w)
AllHeaded(cmds) == Listed(cmds) /\ \A i \in 1..Len(cmds) : Headed(cmds[i]) /\ cmds[i] # <<>>

LEMMA AtPipeFacts ==
  ASSUME NEW cmds, NEW words, AllHeaded(cmds), Headed(words)
  PROVE  LET c == AtPipe([cmds |-> cmds, words |-> words]) IN
         /\ c = [cmds |-> c.cmds, words |-> <<>>] /\ AllHeaded(c.cmds)
         /\ HeldIn(c.cmds) = HeldIn(cmds) \cup CommandsIn(words)
<1> DEFINE s == [cmds |-> cmds, words |-> words]
<1>1. s.cmds = cmds /\ s.words = words
  OBVIOUS
<1>2. CASE words = <<>>
  <2>1. AtPipe(s) = s
    BY <1>1, <1>2 DEF AtPipe
  <2>2. QED
    BY <1>1, <1>2, <2>1, CommandsNone
<1>3. CASE words # <<>>
  <2> DEFINE a == Append(cmds, words)
  <2>1. AtPipe(s) = [cmds |-> a, words |-> <<>>]
    BY <1>3 DEF AtPipe
  <2>2. Listed(cmds) /\ Len(cmds) \in Nat
    BY ListedFacts DEF AllHeaded
  <2>3. /\ Listed(a) /\ Len(a) = Len(cmds) + 1
        /\ \A i \in 1..Len(cmds) : a[i] = cmds[i]
        /\ a[Len(cmds) + 1] = words
    BY <2>2, ListedAppend
  <2> HIDE DEF a
  <2>4. 1..Len(a) = 1..Len(cmds) \cup {Len(cmds) + 1}
    BY <2>2, <2>3
  <2>5. AllHeaded(a)
    BY <1>3, <2>3, <2>4 DEF AllHeaded
  <2>6. HeldIn(a) = HeldIn(cmds) \cup CommandsIn(words)
    BY <2>3, <2>4 DEF HeldIn
  <2>7. QED
    BY <2>1, <2>5, <2>6
<1>4. QED
  BY <1>2, <1>3

LEMMA HeadedAppend ==
  ASSUME NEW w, Headed(w), NEW x, x.text \in ReservedWords \cup {"command", "redirect"},
         w = <<>> \/ ~Ends(w[Len(w)])
  PROVE  Headed(Append(w, x))
<1> DEFINE r == Append(w, x)
<1>1. Listed(w) /\ Len(w) \in Nat /\ (w = <<>> <=> Len(w) = 0)
  BY ListedFacts DEF Headed
<1>2. /\ Listed(r) /\ Len(r) = Len(w) + 1
      /\ \A i \in 1..Len(w) : r[i] = w[i]
      /\ r[Len(w) + 1] = x
  BY <1>1, ListedAppend
<1> HIDE DEF r
<1>3. \A i \in 1..Len(r) : i \in 1..Len(w) \/ i = Len(r)
  BY <1>1, <1>2
<1>4. \A i \in 1..Len(w) : ~Ends(w[i])
  BY <1>1 DEF Headed
<1>5. QED
  BY <1>2, <1>3, <1>4 DEF Headed, r

LEMMA HeadWordIsLast ==
  ASSUME NEW w, Headed(w), w # <<>>
  PROVE  /\ HeadWord(w) = w[Len(w)]
         /\ CommandsIn(w) = IF IsCommand(HeadWord(w)) THEN {HeadWord(w).cmd} ELSE {}
<1> DEFINE N == Len(w)
           kept == {i \in DOMAIN w : i = N \/ w[i].text \notin ReservedWords}
<1>1. Listed(w) /\ N \in Nat /\ N # 0 /\ DOMAIN w = 1..N
  BY ListedFacts DEF Headed
<1>2. N \in 1..N
  BY <1>1
<1>3. \A i \in 1..N : i # N => w[i].text \in ReservedWords
  BY DEF Headed, Ends
<1>4. kept = {N}
  BY <1>1, <1>2, <1>3
<1>5. (CHOOSE i \in kept : \A j \in kept : i <= j) = N
  BY <1>1, <1>4
<1>6. HeadWord(w) = w[N]
  BY <1>5 DEF HeadWord
<1>7. CommandsIn(w) = Until(w, N)
  BY <1>1, CommandsUntil
<1>8. \A i \in 1..N : Ends(w[i]) => i = N
  BY DEF Headed
<1>9. Until(w, N) = IF IsCommand(w[N]) THEN {w[N].cmd} ELSE {}
  <2>1. \A i \in 1..N : IsCommand(w[i]) => i = N
    BY <1>8 DEF Ends, IsCommand
  <2>2. QED
    BY <1>2, <2>1 DEF Until
<1>10. QED
  BY <1>6, <1>7, <1>9

LEMMA WordsDef ==
  ASSUME NEW tokens, Len(tokens) \in Nat
  PROVE  \E after :
           /\ after = [i \in 0..Len(tokens) |->
                         IF i = 0 THEN [cmds |-> <<>>, words |-> <<>>]
                         ELSE AddWord(after[i - 1], tokens[i])]
           /\ WordsBetweenPipes(tokens) = AtPipe(after[Len(tokens)]).cmds
<1> DEFINE N == Len(tokens)
           None == [cmds |-> <<>>, words |-> <<>>]
           Is(f, n) == f = [i \in 0..n |-> IF i = 0 THEN None ELSE AddWord(f[i - 1], tokens[i])]
           T == {n \in 0..N : \E f : Is(f, n)}
<1>1. 0 \in T
  <2>1. Is([i \in 0..0 |-> None], 0)
    OBVIOUS
  <2> HIDE DEF Is
  <2>2. QED
    BY <2>1
<1>2. ASSUME NEW n \in 0..N, n < N, n \in T PROVE n + 1 \in T
  <2>1. PICK f : Is(f, n)
    BY <1>2
  <2> DEFINE g == [i \in 0..(n + 1) |-> IF i = n + 1 THEN AddWord(f[n], tokens[n + 1]) ELSE f[i]]
  <2>2. Is(g, n + 1)
    BY <2>1
  <2> HIDE DEF Is, g
  <2>3. \E h : Is(h, n + 1)
    BY <2>2
  <2>4. n + 1 \in 0..N
    BY <1>2
  <2>5. QED
    BY <2>3, <2>4
<1>3. \E f : Is(f, N)
  <2>1. N \in 0..N /\ N \in Nat
    OBVIOUS
  <2>2. N \in T
    <3> HIDE DEF T, N
    <3>1. QED
      BY <1>1, <1>2, <2>1, UpTo
  <2> HIDE DEF Is
  <2>3. QED
    BY <2>2
<1>4. QED
  BY <1>3 DEF WordsBetweenPipes

LEMMA WordsFacts ==
  ASSUME NEW tokens, Fine(tokens)
  PROVE  LET cmds == WordsBetweenPipes(tokens) IN
         AllHeaded(cmds) /\ HeldIn(cmds) = CommandsIn(tokens)
<1> DEFINE N == Len(tokens)
           None == [cmds |-> <<>>, words |-> <<>>]
<1>1. N \in Nat /\ Listed(tokens)
  BY ListedFacts DEF Fine
<1>2. PICK after : /\ after = [i \in 0..N |->
                                 IF i = 0 THEN None ELSE AddWord(after[i - 1], tokens[i])]
                   /\ WordsBetweenPipes(tokens) = AtPipe(after[N]).cmds
  BY <1>1, WordsDef
<1> DEFINE Ok(s, n) ==
             /\ s = [cmds |-> s.cmds, words |-> s.words]
             /\ AllHeaded(s.cmds) /\ Headed(s.words)
             /\ HeldIn(s.cmds) \cup CommandsIn(s.words) = Until(tokens, n)
             /\ s.words # <<>> => n > 0 /\ s.words[Len(s.words)] = tokens[n]
           T == {n \in 0..N : Ok(after[n], n)}
<1>3. Headed(<<>>) /\ AllHeaded(<<>>) /\ HeldIn(<<>>) = {} /\ CommandsIn(<<>>) = {}
  <2>1. Len(<<>>) = 0 /\ Listed(<<>>)
    BY ListedShort
  <2>2. QED
    BY <2>1, CommandsNone DEF Headed, AllHeaded, HeldIn
<1>4. 0 \in T
  <2>1. after[0] = None
    BY <1>1, <1>2
  <2>2. Until(tokens, 0) = {}
    BY DEF Until
  <2>3. Ok(None, 0)
    BY <1>3, <2>2
  <2>4. QED
    BY <1>1, <2>1, <2>3
<1>5. ASSUME NEW n \in 0..N, n < N, n \in T PROVE n + 1 \in T
  <2> DEFINE s == after[n]
             tok == tokens[n + 1]
             new == IF IsCommand(tok) THEN {tok.cmd} ELSE {}
  <2>1. Ok(s, n) /\ n + 1 \in 1..N /\ n + 1 \in 0..N
    BY <1>1, <1>5
  <2>2. after[n + 1] = AddWord(s, tok)
    <3>1. \A i \in 0..N : after[i] = IF i = 0 THEN None ELSE AddWord(after[i - 1], tokens[i])
      BY <1>2
    <3>2. (n + 1) - 1 = n /\ n + 1 # 0
      OBVIOUS
    <3>3. QED
      BY <2>1, <3>1, <3>2
  <2>3. Until(tokens, n + 1) = Until(tokens, n) \cup new
    <3>1. 1..(n + 1) = 1..n \cup {n + 1}
      OBVIOUS
    <3>2. QED
      BY <3>1 DEF Until
  <2>4. Known(tok)
    BY <2>1 DEF Fine
  <2> HIDE DEF s, tok
  <2>5. CASE tok.t = "|"
    <3> DEFINE c == AtPipe([cmds |-> s.cmds, words |-> s.words])
    <3>1. /\ c = [cmds |-> c.cmds, words |-> <<>>] /\ AllHeaded(c.cmds)
          /\ HeldIn(c.cmds) = HeldIn(s.cmds) \cup CommandsIn(s.words)
      BY <2>1, AtPipeFacts
    <3>2. after[n + 1] = c
      BY <2>1, <2>2, <2>5 DEF AddWord
    <3>3. new = {}
      BY <2>4, <2>5 DEF Known, IsCommand
    <3> HIDE DEF c
    <3>4. c.words = <<>>
      BY <3>1
    <3>5. Ok(c, n + 1)
      BY <1>3, <2>1, <2>3, <3>1, <3>3, <3>4
    <3>6. QED
      BY <2>1, <3>2, <3>5
  <2>6. CASE tok.t # "|"
    <3> DEFINE w == Append(s.words, tok)
               p == [cmds |-> s.cmds, words |-> w]
    <3>1. tok.t = "word" /\ tok.text \in ReservedWords \cup {"command", "redirect"}
      BY <2>4, <2>6 DEF Known
    <3>2. s.words = <<>> \/ ~Ends(s.words[Len(s.words)])
      <4>1. ASSUME s.words # <<>>, Ends(s.words[Len(s.words)]) PROVE FALSE
        <5>1. n \in 1..N /\ Ends(tokens[n])
          BY <2>1, <4>1
        <5>2. tokens[n + 1].t # "word"
          BY <1>5, <5>1 DEF Fine, Apart
        <5>3. QED
          BY <3>1, <5>2 DEF tok
      <4>2. QED
        BY <4>1
    <3>3. Headed(w)
      BY <2>1, <3>1, <3>2, HeadedAppend
    <3>4. /\ CommandsIn(w) = CommandsIn(s.words) \cup new
          /\ w # <<>> /\ w[Len(w)] = tok
      BY <2>1, CommandsAppend, ListedAppend DEF Headed
    <3>5. after[n + 1] = p
      <4>1. after[n + 1] = [s EXCEPT !.words = w]
        BY <2>2, <2>6 DEF AddWord
      <4> HIDE DEF w
      <4>2. QED
        BY <2>1, <4>1
    <3> HIDE DEF w
    <3>6. Ok(p, n + 1)
      BY <2>1, <2>3, <3>3, <3>4 DEF tok
    <3>7. QED
      BY <2>1, <3>5, <3>6
  <2>7. QED
    BY <2>5, <2>6
<1>6. N \in T
  <2>1. N \in 0..N
    BY <1>1
  <2> HIDE DEF T, N
  <2>2. QED
    BY <1>1, <1>4, <1>5, <2>1, UpTo DEF N
<1>7. Ok(after[N], N)
  BY <1>6
<1> DEFINE s == after[N]
           c == AtPipe([cmds |-> s.cmds, words |-> s.words])
<1>8. AllHeaded(c.cmds) /\ HeldIn(c.cmds) = Until(tokens, N)
  BY <1>7, AtPipeFacts
<1>9. WordsBetweenPipes(tokens) = c.cmds
  BY <1>2, <1>7
<1>10. QED
  BY <1>1, <1>8, <1>9, CommandsUntil

-----------------------------------------------------------------------------
\* parse_argv: what it makes of a command, if there is one to be made.
SoundLine(l) ==
  Grammatical(Tokens(l)) /\ \A c \in Direct(l) : c.id # <<>> /\ Carries(c) \subseteq Bodies

Argv(a) == a = [id |-> a.id, does |-> a.does, code |-> a.code, inner |-> a.inner, subst |-> a.subst]
Alike(a, x) == a.id = x.id /\ a.inner = x.inner /\ a.subst = x.subst
Empty(a) == a.id = <<>> /\ a.inner = <<>> /\ a.subst = <<>>
Reads(a, c, b, inner) ==
  /\ a.id = c.id
  /\ a.inner = Carried(c.code, b, inner)
  /\ a.subst = Carried(c.subst, b, inner) \o Carried(c.sink, b, inner)

ListOfArgvs(s) == Listed(s) /\ \A x \in Range(s) : Argv(x)
AllCarried(b, inner) == \A k \in Bodies : ListOfArgvs(Carried(k, b, inner))

\* An argv that stands for a command of some words, as it is or as a stage made
\* of its sink.
Stands(a, cmds, b, inner) ==
  \/ Empty(a)
  \/ \E c \in cmds : Reads(a, c, b, inner)
  \/ \E c \in cmds : \E x \in Range(Carried(c.sink, b, inner)) : Alike(a, x)

LEMMA ParseArgvFacts ==
  ASSUME NEW w, Headed(w), w # <<>>, NEW b, NEW inner
  PROVE  LET a == ParseArgv(w, b, inner) IN
         /\ Argv(a)
         /\ Empty(a) \/ \E c \in CommandsIn(w) : Reads(a, c, b, inner)
         /\ \A c \in CommandsIn(w) : Reads(a, c, b, inner)
<1> DEFINE head == HeadWord(w)
           a == ParseArgv(w, b, inner)
<1>1. CommandsIn(w) = IF IsCommand(head) THEN {head.cmd} ELSE {}
  BY HeadWordIsLast
<1> HIDE DEF head
<1>2. CASE IsCommand(head)
  <2>1. a = [id |-> head.cmd.id, does |-> head.cmd.does,
             code |-> IF b > 0 THEN head.cmd.code ELSE <<>>,
             inner |-> Carried(head.cmd.code, b, inner),
             subst |-> Carried(head.cmd.subst, b, inner) \o Carried(head.cmd.sink, b, inner)]
    BY <1>2 DEF ParseArgv, head
  <2>2. Argv(a) /\ Reads(a, head.cmd, b, inner)
    <3> HIDE DEF a
    <3>1. QED
      BY <2>1 DEF Argv, Reads
  <2>3. QED
    BY <1>1, <1>2, <2>2
<1>3. CASE ~IsCommand(head)
  <2> DEFINE d == IF IsRedirect(head) THEN head.cmd ELSE Nothing
  <2>1. a = [id |-> <<>>, does |-> d, code |-> <<>>, inner |-> <<>>, subst |-> <<>>]
    BY <1>3 DEF ParseArgv, head
  <2>2. Argv(a) /\ Empty(a)
    <3> HIDE DEF a, d
    <3>1. QED
      BY <2>1 DEF Argv, Empty
  <2>3. QED
    BY <1>1, <1>3, <2>2
<1>4. QED
  BY <1>2, <1>3

LEMMA WithoutRedirectsFacts ==
  ASSUME NEW x, Argv(x)
  PROVE  Argv(WithoutRedirects(x)) /\ Alike(WithoutRedirects(x), x)
<1> DEFINE d == [x.does EXCEPT !.out = <<>>]
<1>1. WithoutRedirects(x) = [x EXCEPT !.does = d]
  BY DEF WithoutRedirects
<1> HIDE DEF d
<1>2. [x EXCEPT !.does = d] = [id |-> x.id, does |-> d, code |-> x.code, inner |-> x.inner, subst |-> x.subst]
  BY DEF Argv
<1>3. QED
  BY <1>1, <1>2 DEF Argv, Alike

SinkOf(word, b, inner) ==
  IF IsCommand(word)
  THEN LET sink == Carried(word.cmd.sink, b, inner)
       IN [j \in DOMAIN sink |-> WithoutRedirects(sink[j])]
  ELSE <<>>

LEMMA SinkOfFacts ==
  ASSUME NEW word, NEW b, NEW inner, AllCarried(b, inner),
         IsCommand(word) => word.cmd.sink \in Bodies
  PROVE  LET s == SinkOf(word, b, inner) IN
         /\ ListOfArgvs(s)
         /\ \A a \in Range(s) : /\ IsCommand(word)
                                /\ \E x \in Range(Carried(word.cmd.sink, b, inner)) : Alike(a, x)
<1>1. CASE IsCommand(word)
  <2> DEFINE sink == Carried(word.cmd.sink, b, inner)
             s == [j \in 1..Len(sink) |-> WithoutRedirects(sink[j])]
  <2>1. ListOfArgvs(sink)
    BY <1>1 DEF AllCarried
  <2>2. /\ Len(sink) \in Nat /\ DOMAIN sink = 1..Len(sink)
        /\ Range(sink) = {sink[i] : i \in 1..Len(sink)}
    BY <2>1, ListedFacts DEF ListOfArgvs
  <2>3. SinkOf(word, b, inner) = s
    BY <1>1, <2>2 DEF SinkOf
  <2>4. Listed(s) /\ Len(s) = Len(sink) /\ DOMAIN s = 1..Len(sink)
    <3>1. s = [j \in 1..Len(sink) |-> s[j]]
      OBVIOUS
    <3> HIDE DEF s
    <3>2. QED
      BY <2>2, <3>1, ListedFcn
  <2>5. ASSUME NEW a \in Range(s) PROVE \E x \in Range(sink) : Argv(a) /\ Alike(a, x)
    <3>1. PICK j \in 1..Len(sink) : a = WithoutRedirects(sink[j])
      BY <2>4 DEF Range
    <3>2. sink[j] \in Range(sink) /\ Argv(sink[j])
      BY <2>1, <2>2 DEF ListOfArgvs
    <3>3. QED
      BY <3>1, <3>2, WithoutRedirectsFacts
  <2> HIDE DEF s
  <2>6. QED
    BY <1>1, <2>3, <2>4, <2>5 DEF ListOfArgvs
<1>2. CASE ~IsCommand(word)
  BY <1>2, ListedShort DEF SinkOf, ListOfArgvs
<1>3. QED
  BY <1>1, <1>2

LEMMA SinksFacts ==
  ASSUME NEW w, Listed(w), NEW b, NEW inner, AllCarried(b, inner),
         \A c \in CommandsIn(w) : Carries(c) \subseteq Bodies
  PROVE  LET s == Sinks(w, b, inner) IN
         ListOfArgvs(s) /\ \A a \in Range(s) : Stands(a, CommandsIn(w), b, inner)
<1> DEFINE N == Len(w)
           f == [i \in 1..N |-> SinkOf(w[i], b, inner)]
           s == Sinks(w, b, inner)
<1>1. N \in Nat /\ DOMAIN w = 1..N
  BY ListedFacts
<1>2. s = FlattenSeq(f)
  BY <1>1 DEF Sinks, SinkOf
<1>3. Listed(f) /\ Len(f) = N
  <2>1. f = [i \in 1..N |-> f[i]]
    OBVIOUS
  <2> HIDE DEF f
  <2>2. QED
    BY <1>1, <2>1, ListedFcn
<1>4. ASSUME NEW i \in 1..N
      PROVE  /\ ListOfArgvs(f[i])
             /\ \A a \in Range(f[i]) : Stands(a, CommandsIn(w), b, inner)
  <2>1. IsCommand(w[i]) => w[i].cmd \in CommandsIn(w)
    BY CommandsUntil DEF Until
  <2>2. IsCommand(w[i]) => w[i].cmd.sink \in Bodies
    BY <2>1 DEF Carries
  <2>3. f[i] = SinkOf(w[i], b, inner)
    OBVIOUS
  <2> HIDE DEF f
  <2>4. /\ ListOfArgvs(f[i])
        /\ \A a \in Range(f[i]) : /\ IsCommand(w[i])
                                  /\ \E x \in Range(Carried(w[i].cmd.sink, b, inner)) : Alike(a, x)
    BY <2>2, <2>3, SinkOfFacts
  <2>5. QED
    BY <2>1, <2>4 DEF Stands
<1> HIDE DEF f
<1>5. Listed(s) /\ Range(s) = UNION {Range(f[i]) : i \in 1..N}
  BY <1>2, <1>3, <1>4, FlattenRange DEF ListOfArgvs
<1> HIDE DEF s
<1>6. QED
  BY <1>4, <1>5 DEF ListOfArgvs, s

-----------------------------------------------------------------------------
\* The commands of one line: every command has an argv that reads it, and every
\* argv stands for a command or for none.
OneArgv(w, b, inner) == <<ParseArgv(w, b, inner)>> \o Sinks(w, b, inner)

LEMMA OneArgvFacts ==
  ASSUME NEW w, Headed(w), w # <<>>, NEW b, NEW inner, AllCarried(b, inner),
         \A c \in CommandsIn(w) : Carries(c) \subseteq Bodies
  PROVE  LET s == OneArgv(w, b, inner) IN
         /\ ListOfArgvs(s)
         /\ \A a \in Range(s) : Stands(a, CommandsIn(w), b, inner)
         /\ \A c \in CommandsIn(w) : \E a \in Range(s) : Reads(a, c, b, inner)
<1> DEFINE a == ParseArgv(w, b, inner)
           rest == Sinks(w, b, inner)
<1>1. /\ Argv(a) /\ Stands(a, CommandsIn(w), b, inner)
      /\ \A c \in CommandsIn(w) : Reads(a, c, b, inner)
  BY ParseArgvFacts DEF Stands
<1>2. ListOfArgvs(rest) /\ \A x \in Range(rest) : Stands(x, CommandsIn(w), b, inner)
  BY SinksFacts DEF Headed
<1> HIDE DEF a, rest
<1>3. Listed(<<a>> \o rest) /\ Range(<<a>> \o rest) = {a} \cup Range(rest)
  <2>1. Listed(<<a>>) /\ Range(<<a>>) = {a}
    BY ListedShort
  <2>2. QED
    BY <1>2, <2>1, ListedConcat DEF ListOfArgvs
<1>4. OneArgv(w, b, inner) = <<a>> \o rest
  BY DEF OneArgv, a, rest
<1>5. QED
  BY <1>1, <1>2, <1>3, <1>4 DEF ListOfArgvs

LEMMA ParsePipelineFacts ==
  ASSUME NEW tokens, Fine(tokens), NEW b, NEW inner, AllCarried(b, inner),
         \A c \in CommandsIn(tokens) : Carries(c) \subseteq Bodies
  PROVE  LET s == ParsePipeline(tokens, b, inner) IN
         /\ ListOfArgvs(s)
         /\ \A a \in Range(s) : Stands(a, CommandsIn(tokens), b, inner)
         /\ \A c \in CommandsIn(tokens) : \E a \in Range(s) : Reads(a, c, b, inner)
<1> DEFINE cmds == WordsBetweenPipes(tokens)
           N == Len(cmds)
           f == [i \in 1..N |-> OneArgv(cmds[i], b, inner)]
           s == ParsePipeline(tokens, b, inner)
<1>1. AllHeaded(cmds) /\ HeldIn(cmds) = CommandsIn(tokens)
  BY WordsFacts
<1>2. N \in Nat /\ DOMAIN cmds = 1..N
  BY <1>1, ListedFacts DEF AllHeaded
<1>3. s = FlattenSeq(f)
  BY <1>2 DEF ParsePipeline, OneArgv
<1>4. Listed(f) /\ Len(f) = N
  <2>1. f = [i \in 1..N |-> f[i]]
    OBVIOUS
  <2> HIDE DEF f, N
  <2>2. QED
    BY <1>2, <2>1, ListedFcn
<1>5. ASSUME NEW i \in 1..N
      PROVE  /\ CommandsIn(cmds[i]) \subseteq CommandsIn(tokens)
             /\ ListOfArgvs(f[i])
             /\ \A a \in Range(f[i]) : Stands(a, CommandsIn(cmds[i]), b, inner)
             /\ \A c \in CommandsIn(cmds[i]) : \E a \in Range(f[i]) : Reads(a, c, b, inner)
  <2>1. CommandsIn(cmds[i]) \subseteq CommandsIn(tokens) /\ Headed(cmds[i]) /\ cmds[i] # <<>>
    BY <1>1 DEF HeldIn, AllHeaded
  <2>2. f[i] = OneArgv(cmds[i], b, inner)
    OBVIOUS
  <2> HIDE DEF f, cmds
  <2>3. QED
    BY <2>1, <2>2, OneArgvFacts
<1> HIDE DEF f
<1>6. Listed(s) /\ Range(s) = UNION {Range(f[i]) : i \in 1..N}
  BY <1>3, <1>4, <1>5, FlattenRange DEF ListOfArgvs
<1>7. \A a \in Range(s) : Argv(a) /\ Stands(a, CommandsIn(tokens), b, inner)
  BY <1>5, <1>6 DEF Stands, ListOfArgvs
<1>8. \A c \in CommandsIn(tokens) : \E i \in 1..N : c \in CommandsIn(cmds[i])
  BY <1>1 DEF HeldIn
<1> HIDE DEF s
<1>9. QED
  BY <1>5, <1>6, <1>7, <1>8 DEF ListOfArgvs, s

LEMMA PipelinesFacts ==
  ASSUME NEW l, SoundLine(l), NEW b, NEW inner, AllCarried(b, inner)
  PROVE  LET s == FlattenSeq(Pipelines(l, b, inner)) IN
         /\ ListOfArgvs(s)
         /\ \A a \in Range(s) : Stands(a, Direct(l), b, inner)
         /\ \A c \in Direct(l) : \E a \in Range(s) : Reads(a, c, b, inner)
<1> DEFINE segs == JoinPipedGroups(SplitSegments(Tokens(l)))
           some(cmds) == IF cmds = <<>> THEN <<>> ELSE <<cmds>>
           N == Len(segs)
           pipe(i) == ParsePipeline(segs[i], b, inner)
           f == [i \in 1..N |-> some(pipe(i))]
           p == Pipelines(l, b, inner)
           s == FlattenSeq(p)
<1>1. AllFine(segs) /\ HeldIn(segs) = Direct(l)
  <2>1. Grammatical(Tokens(l))
    BY DEF SoundLine
  <2>2. QED
    BY <2>1, SplitFacts, JoinFacts DEF Direct
<1>2. N \in Nat /\ DOMAIN segs = 1..N
  BY <1>1, ListedFacts DEF AllFine
<1>3. p = FlattenSeq(f)
  BY <1>2 DEF Pipelines
<1> HIDE DEF segs
<1>4. ASSUME NEW i \in 1..N
      PROVE  /\ CommandsIn(segs[i]) \subseteq Direct(l)
             /\ ListOfArgvs(pipe(i))
             /\ \A a \in Range(pipe(i)) : Stands(a, CommandsIn(segs[i]), b, inner)
             /\ \A c \in CommandsIn(segs[i]) : \E a \in Range(pipe(i)) : Reads(a, c, b, inner)
  <2>1. CommandsIn(segs[i]) \subseteq Direct(l) /\ Fine(segs[i])
    BY <1>1 DEF HeldIn, AllFine
  <2>2. \A c \in CommandsIn(segs[i]) : Carries(c) \subseteq Bodies
    BY <2>1 DEF SoundLine
  <2>3. QED
    BY <2>1, <2>2, ParsePipelineFacts
<1> HIDE DEF pipe
<1>5. Listed(f) /\ Len(f) = N
  <2>1. f = [i \in 1..N |-> f[i]]
    OBVIOUS
  <2> HIDE DEF f, N
  <2>2. QED
    BY <1>2, <2>1, ListedFcn
<1>6. \A i \in 1..N : Listed(f[i]) /\ Range(f[i]) = IF pipe(i) = <<>> THEN {} ELSE {pipe(i)}
  <2>1. \A i \in 1..N : f[i] = some(pipe(i))
    OBVIOUS
  <2>2. \A x : Listed(some(x)) /\ Range(some(x)) = IF x = <<>> THEN {} ELSE {x}
    BY ListedShort
  <2> HIDE DEF f, some
  <2>3. QED
    BY <2>1, <2>2
<1> HIDE DEF f
<1>7. Listed(p) /\ Range(p) = UNION {Range(f[i]) : i \in 1..N}
  BY <1>3, <1>5, <1>6, FlattenRange
<1> HIDE DEF p
<1>8. ASSUME NEW x \in Range(p) PROVE \E i \in 1..N : x = pipe(i)
  <2>1. PICK i \in 1..N : x \in Range(f[i])
    BY <1>7
  <2>2. x = pipe(i)
    BY <1>6, <2>1
  <2>3. QED
    BY <2>2
<1>9. Len(p) \in Nat /\ Range(p) = {p[j] : j \in 1..Len(p)}
  BY <1>7, ListedFacts
<1>10. \A j \in 1..Len(p) : Listed(p[j])
  BY <1>4, <1>8, <1>9 DEF ListOfArgvs
<1>11. Listed(s) /\ Range(s) = UNION {Range(p[j]) : j \in 1..Len(p)}
  BY <1>7, <1>10, FlattenRange
<1>12. ASSUME NEW a \in Range(s) PROVE Argv(a) /\ Stands(a, Direct(l), b, inner)
  <2>1. PICK i \in 1..N : a \in Range(pipe(i))
    BY <1>8, <1>9, <1>11
  <2>2. QED
    BY <1>4, <2>1 DEF Stands, ListOfArgvs
<1>13. ASSUME NEW c \in Direct(l) PROVE \E a \in Range(s) : Reads(a, c, b, inner)
  <2>1. PICK i \in 1..N : c \in CommandsIn(segs[i])
    BY <1>1 DEF HeldIn
  <2>2. PICK a \in Range(pipe(i)) : Reads(a, c, b, inner)
    BY <1>4, <2>1
  <2>3. pipe(i) # <<>>
    BY <2>2, ListedShort
  <2>4. pipe(i) \in Range(p)
    BY <1>6, <1>7, <2>3
  <2>5. a \in Range(s)
    BY <1>9, <1>11, <2>2, <2>4
  <2>6. QED
    BY <2>2, <2>5
<1> HIDE DEF s
<1>14. QED
  BY <1>11, <1>12, <1>13 DEF ListOfArgvs, s, p

-----------------------------------------------------------------------------
\* InnerShell: what a line is parsed into depends on the lines its commands
\* carry, parsed with one level less, and on nothing else.
LEMMA PipelinesAgree ==
  ASSUME NEW l, SoundLine(l), NEW b, NEW f, NEW g,
         \A k \in Bodies : Carried(k, b, f) = Carried(k, b, g)
  PROVE  Pipelines(l, b, f) = Pipelines(l, b, g)
<1> DEFINE segs == JoinPipedGroups(SplitSegments(Tokens(l)))
<1>1. AllFine(segs) /\ HeldIn(segs) = Direct(l)
  <2>1. Grammatical(Tokens(l))
    BY DEF SoundLine
  <2>2. QED
    BY <2>1, SplitFacts, JoinFacts DEF Direct
<1>2. DOMAIN segs = 1..Len(segs)
  BY <1>1, ListedFacts DEF AllFine
<1> HIDE DEF segs
<1>3. ASSUME NEW i \in 1..Len(segs)
      PROVE  ParsePipeline(segs[i], b, f) = ParsePipeline(segs[i], b, g)
  <2> DEFINE cmds == WordsBetweenPipes(segs[i])
  <2>1. AllHeaded(cmds) /\ HeldIn(cmds) = CommandsIn(segs[i]) /\ CommandsIn(segs[i]) \subseteq Direct(l)
    BY <1>1, WordsFacts DEF HeldIn, AllFine
  <2>2. DOMAIN cmds = 1..Len(cmds)
    BY <2>1, ListedFacts DEF AllHeaded
  <2> HIDE DEF cmds
  <2>3. ASSUME NEW j \in 1..Len(cmds)
        PROVE  /\ ParseArgv(cmds[j], b, f) = ParseArgv(cmds[j], b, g)
               /\ Sinks(cmds[j], b, f) = Sinks(cmds[j], b, g)
    <3> DEFINE w == cmds[j]
    <3>1. Headed(w) /\ w # <<>> /\ CommandsIn(w) \subseteq Direct(l)
      BY <2>1 DEF AllHeaded, HeldIn
    <3>2. \A c \in CommandsIn(w) : c.code \in Bodies /\ c.subst \in Bodies /\ c.sink \in Bodies
      BY <3>1 DEF SoundLine, Carries
    <3> HIDE DEF w
    <3>3. ParseArgv(w, b, f) = ParseArgv(w, b, g)
      <4>1. CASE IsCommand(HeadWord(w))
        <5> DEFINE c == HeadWord(w).cmd
        <5>1. c \in CommandsIn(w)
          BY <3>1, <4>1, HeadWordIsLast
        <5>2. /\ Carried(c.code, b, f) = Carried(c.code, b, g)
              /\ Carried(c.subst, b, f) = Carried(c.subst, b, g)
              /\ Carried(c.sink, b, f) = Carried(c.sink, b, g)
          BY <3>2, <5>1
        <5>3. QED
          BY <4>1, <5>2 DEF ParseArgv
      <4>2. CASE ~IsCommand(HeadWord(w))
        BY <4>2 DEF ParseArgv
      <4>3. QED
        BY <4>1, <4>2
    <3>4. Sinks(w, b, f) = Sinks(w, b, g)
      <4>1. DOMAIN w = 1..Len(w)
        BY <3>1, ListedFacts DEF Headed
      <4>2. \A n \in 1..Len(w) : SinkOf(w[n], b, f) = SinkOf(w[n], b, g)
        <5>1. ASSUME NEW n \in 1..Len(w), IsCommand(w[n])
              PROVE  Carried(w[n].cmd.sink, b, f) = Carried(w[n].cmd.sink, b, g)
          <6>1. w[n].cmd \in CommandsIn(w)
            BY <3>1, <5>1, CommandsUntil DEF Headed, Until
          <6>2. QED
            BY <3>2, <6>1
        <5>2. QED
          BY <5>1 DEF SinkOf
      <4>3. /\ Sinks(w, b, f) = FlattenSeq([n \in 1..Len(w) |-> SinkOf(w[n], b, f)])
            /\ Sinks(w, b, g) = FlattenSeq([n \in 1..Len(w) |-> SinkOf(w[n], b, g)])
        BY <4>1 DEF Sinks, SinkOf
      <4>4. [n \in 1..Len(w) |-> SinkOf(w[n], b, f)] = [n \in 1..Len(w) |-> SinkOf(w[n], b, g)]
        BY <4>2
      <4>5. QED
        BY <4>3, <4>4
    <3>5. QED
      BY <3>3, <3>4 DEF w
  <2>4. \A j \in 1..Len(cmds) : OneArgv(cmds[j], b, f) = OneArgv(cmds[j], b, g)
    BY <2>3 DEF OneArgv
  <2>5. /\ ParsePipeline(segs[i], b, f) = FlattenSeq([j \in 1..Len(cmds) |-> OneArgv(cmds[j], b, f)])
        /\ ParsePipeline(segs[i], b, g) = FlattenSeq([j \in 1..Len(cmds) |-> OneArgv(cmds[j], b, g)])
    BY <2>2 DEF ParsePipeline, OneArgv, cmds
  <2>6. [j \in 1..Len(cmds) |-> OneArgv(cmds[j], b, f)] = [j \in 1..Len(cmds) |-> OneArgv(cmds[j], b, g)]
    BY <2>4
  <2>7. QED
    BY <2>5, <2>6
<1> DEFINE some(cmds) == IF cmds = <<>> THEN <<>> ELSE <<cmds>>
<1>4. /\ Pipelines(l, b, f) = FlattenSeq([i \in 1..Len(segs) |-> some(ParsePipeline(segs[i], b, f))])
      /\ Pipelines(l, b, g) = FlattenSeq([i \in 1..Len(segs) |-> some(ParsePipeline(segs[i], b, g))])
  BY <1>2 DEF Pipelines, segs
<1> HIDE DEF some
<1>5. [i \in 1..Len(segs) |-> some(ParsePipeline(segs[i], b, f))]
        = [i \in 1..Len(segs) |-> some(ParsePipeline(segs[i], b, g))]
  BY <1>3
<1>6. QED
  BY <1>4, <1>5

LEMMA InnerShellDef ==
  \E inner :
    /\ inner = [call \in (0..NestingBudget) \X Bodies |-> FlattenSeq(Pipelines(call[2], call[1], inner))]
    /\ \A l, b : ParseWithDepth(l, b) = Pipelines(l, b, inner)
<1> DEFINE B == NestingBudget
           Is(f, n) == f = [call \in (0..n) \X Bodies |-> FlattenSeq(Pipelines(call[2], call[1], f))]
           T == {n \in 0..B : \E f : Is(f, n)}
<1>1. B \in Nat /\ \A l \in Bodies : SoundLine(l)
  BY BudgetAssumption, LinesAssumption DEF SoundLine
<1>2. 0 \in T
  <2> DEFINE g == [call \in (0..0) \X Bodies |-> FlattenSeq(Pipelines(call[2], call[1], <<>>))]
  <2>1. ASSUME NEW call \in (0..0) \X Bodies
        PROVE  Pipelines(call[2], call[1], <<>>) = Pipelines(call[2], call[1], g)
    <3>1. call[1] = 0 /\ call[2] \in Bodies /\ SoundLine(call[2])
      BY <1>1
    <3> HIDE DEF g
    <3>2. \A k \in Bodies : Carried(k, call[1], <<>>) = Carried(k, call[1], g)
      BY <3>1 DEF Carried
    <3>3. QED
      BY <3>1, <3>2, PipelinesAgree
  <2>2. g = [call \in (0..0) \X Bodies |-> FlattenSeq(Pipelines(call[2], call[1], g))]
    <3>1. \A call \in (0..0) \X Bodies : FlattenSeq(Pipelines(call[2], call[1], <<>>))
                                           = FlattenSeq(Pipelines(call[2], call[1], g))
      BY <2>1
    <3>2. g = [call \in (0..0) \X Bodies |-> FlattenSeq(Pipelines(call[2], call[1], <<>>))]
      OBVIOUS
    <3> HIDE DEF g
    <3>3. QED
      BY <3>1, <3>2
  <2>3. Is(g, 0)
    BY <2>2
  <2> HIDE DEF Is, g
  <2>4. 0 \in 0..B
    BY <1>1
  <2>5. QED
    BY <2>3, <2>4
<1>3. ASSUME NEW n \in 0..B, n < B, n \in T PROVE n + 1 \in T
  <2>1. PICK f : Is(f, n)
    BY <1>3
  <2> DEFINE g == [call \in (0..(n + 1)) \X Bodies |-> FlattenSeq(Pipelines(call[2], call[1], f))]
  <2>2. ASSUME NEW b \in 0..n, NEW k \in Bodies PROVE f[<<b, k>>] = g[<<b, k>>]
    <3>1. <<b, k>> \in (0..n) \X Bodies /\ <<b, k>> \in (0..(n + 1)) \X Bodies
      BY <1>1
    <3>2. f[<<b, k>>] = FlattenSeq(Pipelines(k, b, f))
      <4>1. \A call \in (0..n) \X Bodies : f[call] = FlattenSeq(Pipelines(call[2], call[1], f))
        BY <2>1
      <4>2. f[<<b, k>>] = FlattenSeq(Pipelines(<<b, k>>[2], <<b, k>>[1], f))
        BY <3>1, <4>1
      <4>3. QED
        BY <4>2
    <3>3. g[<<b, k>>] = FlattenSeq(Pipelines(k, b, f))
      BY <3>1
    <3> HIDE DEF g
    <3>4. QED
      BY <3>2, <3>3
  <2> HIDE DEF g
  <2>3. ASSUME NEW call \in (0..(n + 1)) \X Bodies
        PROVE  Pipelines(call[2], call[1], f) = Pipelines(call[2], call[1], g)
    <3>1. call[1] \in 0..(n + 1) /\ call[2] \in Bodies /\ SoundLine(call[2])
      BY <1>1
    <3>2. ASSUME NEW k \in Bodies PROVE Carried(k, call[1], f) = Carried(k, call[1], g)
      <4>1. CASE call[1] > 0
        <5>1. call[1] - 1 \in 0..n
          BY <3>1, <4>1
        <5>2. f[<<call[1] - 1, k>>] = g[<<call[1] - 1, k>>]
          BY <2>2, <5>1
        <5>3. QED
          BY <4>1, <5>2 DEF Carried
      <4>2. CASE ~(call[1] > 0)
        BY <4>2 DEF Carried
      <4>3. QED
        BY <4>1, <4>2
    <3>3. QED
      BY <3>1, <3>2, PipelinesAgree
  <2>4. Is(g, n + 1)
    <3>1. \A call \in (0..(n + 1)) \X Bodies : FlattenSeq(Pipelines(call[2], call[1], f))
                                                 = FlattenSeq(Pipelines(call[2], call[1], g))
      BY <2>3
    <3>2. g = [call \in (0..(n + 1)) \X Bodies |-> FlattenSeq(Pipelines(call[2], call[1], f))]
      BY DEF g
    <3>3. QED
      BY <3>1, <3>2
  <2> HIDE DEF Is
  <2>5. n + 1 \in 0..B
    BY <1>1, <1>3
  <2>6. QED
    BY <2>4, <2>5
<1>4. \E f : Is(f, B)
  <2>1. B \in 0..B
    BY <1>1
  <2>2. B \in T
    <3> HIDE DEF T, B
    <3>1. QED
      BY <1>1, <1>2, <1>3, <2>1, UpTo
  <2> HIDE DEF Is
  <2>3. QED
    BY <2>2
<1> DEFINE I == CHOOSE f : Is(f, B)
<1>5. Is(I, B)
  <2> HIDE DEF Is
  <2>1. QED
    BY <1>4
<1>6. \A l, b : ParseWithDepth(l, b) = Pipelines(l, b, I)
  BY DEF ParseWithDepth
<1> HIDE DEF I
<1>7. QED
  BY <1>5, <1>6

-----------------------------------------------------------------------------
\* The commands of a line level by level, as Within has them: those of the line
\* itself, and those of the lines that the commands of the level before carry.
Deeper(cmds) == UNION {UNION {Direct(k) : k \in Carries(c)} : c \in cmds}
IsLevels(f, l) ==
  f = [n \in 0..NestingBudget |-> IF n = 0 THEN Direct(l) ELSE Deeper(f[n - 1])]
Levels(l) == CHOOSE f : IsLevels(f, l)

LEMMA LevelsDef ==
  ASSUME NEW l
  PROVE  /\ IsLevels(Levels(l), l)
         /\ Within(l, NestingBudget) = {c.id : c \in UNION {Levels(l)[n] : n \in 0..NestingBudget}}
<1> DEFINE B == NestingBudget
           Is(f, n) == f = [i \in 0..n |-> IF i = 0 THEN Direct(l) ELSE Deeper(f[i - 1])]
           T == {n \in 0..B : \E f : Is(f, n)}
<1>1. B \in Nat
  BY BudgetAssumption
<1>2. 0 \in T
  <2>1. Is([i \in 0..0 |-> Direct(l)], 0)
    OBVIOUS
  <2> HIDE DEF Is
  <2>2. QED
    BY <1>1, <2>1
<1>3. ASSUME NEW n \in 0..B, n < B, n \in T PROVE n + 1 \in T
  <2>1. PICK f : Is(f, n)
    BY <1>3
  <2> DEFINE g == [i \in 0..(n + 1) |-> IF i = n + 1 THEN Deeper(f[n]) ELSE f[i]]
  <2>2. Is(g, n + 1)
    BY <2>1
  <2> HIDE DEF Is, g
  <2>3. \E h : Is(h, n + 1)
    BY <2>2
  <2>4. n + 1 \in 0..B
    BY <1>1, <1>3
  <2>5. QED
    BY <2>3, <2>4
<1>4. \E f : Is(f, B)
  <2>1. B \in 0..B
    BY <1>1
  <2>2. B \in T
    <3> HIDE DEF T, B
    <3>1. QED
      BY <1>1, <1>2, <1>3, <2>1, UpTo
  <2> HIDE DEF Is
  <2>3. QED
    BY <2>2
<1>5. \E f : IsLevels(f, l)
  BY <1>4 DEF IsLevels
<1>6. IsLevels(Levels(l), l)
  BY <1>5 DEF Levels
<1>7. Within(l, B) = {c.id : c \in UNION {Levels(l)[n] : n \in 0..B}}
  BY DEF Within, Levels, IsLevels, Deeper
<1>8. QED
  BY <1>6, <1>7

LEMMA LevelsStep ==
  ASSUME NEW l
  PROVE  /\ Levels(l)[0] = Direct(l)
         /\ \A n \in 0..NestingBudget : n < NestingBudget => Levels(l)[n + 1] = Deeper(Levels(l)[n])
<1> DEFINE f == Levels(l)
<1>1. \A n \in 0..NestingBudget : f[n] = IF n = 0 THEN Direct(l) ELSE Deeper(f[n - 1])
  BY LevelsDef DEF IsLevels
<1> HIDE DEF f
<1>2. NestingBudget \in Nat
  BY BudgetAssumption
<1>3. f[0] = Direct(l)
  BY <1>1, <1>2
<1>4. ASSUME NEW n \in 0..NestingBudget, n < NestingBudget PROVE f[n + 1] = Deeper(f[n])
  <2>1. n + 1 \in 0..NestingBudget /\ n + 1 # 0 /\ (n + 1) - 1 = n
    BY <1>2, <1>4
  <2>2. QED
    BY <1>1, <2>1
<1>5. QED
  BY <1>3, <1>4 DEF f

\* The levels of a carried line are among the levels of the line.
LEMMA LevelsCompose ==
  ASSUME NEW l, NEW m \in 0..NestingBudget, NEW c \in Levels(l)[m], NEW k \in Carries(c),
         NEW n \in 0..NestingBudget, m + 1 + n <= NestingBudget
  PROVE  Levels(k)[n] \subseteq Levels(l)[m + 1 + n]
<1> DEFINE B == NestingBudget
           T == {i \in 0..n : Levels(k)[i] \subseteq Levels(l)[m + 1 + i]}
<1>1. B \in Nat /\ n \in Nat /\ m \in Nat
  BY BudgetAssumption
<1>2. 0 \in T
  <2>1. m < B /\ m + 1 + 0 = m + 1
    BY <1>1
  <2>2. Levels(l)[m + 1] = Deeper(Levels(l)[m]) /\ Levels(k)[0] = Direct(k)
    BY <2>1, LevelsStep
  <2>3. Levels(k)[0] \subseteq Levels(l)[m + 1 + 0]
    BY <2>1, <2>2 DEF Deeper
  <2>4. QED
    BY <1>1, <2>3
<1>3. ASSUME NEW i \in 0..n, i < n, i \in T PROVE i + 1 \in T
  <2>1. /\ i \in 0..B /\ i < B /\ m + 1 + i \in 0..B /\ m + 1 + i < B
        /\ m + 1 + (i + 1) = (m + 1 + i) + 1
    BY <1>1, <1>3
  <2>2. /\ Levels(k)[i + 1] = Deeper(Levels(k)[i])
        /\ Levels(l)[(m + 1 + i) + 1] = Deeper(Levels(l)[m + 1 + i])
    BY <2>1, LevelsStep
  <2>3. Levels(k)[i] \subseteq Levels(l)[m + 1 + i]
    BY <1>3
  <2>4. Levels(k)[i + 1] \subseteq Levels(l)[m + 1 + (i + 1)]
    BY <2>1, <2>2, <2>3 DEF Deeper
  <2>5. QED
    BY <1>1, <1>3, <2>4
<1>4. n \in T
  <2>1. n \in 0..n
    BY <1>1
  <2> HIDE DEF T
  <2>2. QED
    BY <1>1, <1>2, <1>3, <2>1, UpTo
<1>5. QED
  BY <1>4

LEMMA LevelsSound ==
  ASSUME NEW l, SoundLine(l)
  PROVE  \A n \in 0..NestingBudget : \A c \in Levels(l)[n] : c.id # <<>> /\ Carries(c) \subseteq Bodies
<1> DEFINE B == NestingBudget
           Ok(cmds) == \A c \in cmds : c.id # <<>> /\ Carries(c) \subseteq Bodies
           T == {n \in 0..B : Ok(Levels(l)[n])}
<1>1. B \in Nat /\ \A k \in Bodies : SoundLine(k)
  BY BudgetAssumption, LinesAssumption DEF SoundLine
<1>2. 0 \in T
  BY <1>1, LevelsStep DEF SoundLine
<1>3. ASSUME NEW n \in 0..B, n < B, n \in T PROVE n + 1 \in T
  <2>1. Levels(l)[n + 1] = Deeper(Levels(l)[n]) /\ n + 1 \in 0..B /\ Ok(Levels(l)[n])
    BY <1>1, <1>3, LevelsStep
  <2>2. Ok(Deeper(Levels(l)[n]))
    BY <1>1, <2>1 DEF Deeper, SoundLine
  <2>3. QED
    BY <2>1, <2>2
<1>4. \A n \in 0..B : n \in T
  <2> HIDE DEF T
  <2>1. QED
    BY <1>1, <1>2, <1>3, UpTo
<1>5. QED
  BY <1>4

-----------------------------------------------------------------------------
\* InnerShell's values: every argv reads a command of some level of the line,
\* with what the levels above have left of the budget.
IsInner(inner) ==
  inner = [call \in (0..NestingBudget) \X Bodies |-> FlattenSeq(Pipelines(call[2], call[1], inner))]

Founded(a, l, b, inner) ==
  Empty(a) \/ \E m \in 0..b : \E c \in Levels(l)[m] : Reads(a, c, b - m, inner)
AllFounded(s, l, b, inner) == ListOfArgvs(s) /\ \A a \in Range(s) : Founded(a, l, b, inner)

LEMMA FoundedBelow ==
  ASSUME NEW l, NEW inner, NEW b \in 0..NestingBudget, NEW m \in 0..b, m < b,
         NEW c \in Levels(l)[m], NEW k \in Carries(c),
         NEW a, Founded(a, k, (b - m) - 1, inner)
  PROVE  Founded(a, l, b, inner)
<1>1. NestingBudget \in Nat /\ b \in Nat /\ m \in Nat
  BY BudgetAssumption
<1>2. CASE Empty(a)
  BY <1>2 DEF Founded
<1>3. CASE ~Empty(a)
  <2>1. PICK n \in 0..((b - m) - 1) : \E d \in Levels(k)[n] : Reads(a, d, ((b - m) - 1) - n, inner)
    BY <1>3 DEF Founded
  <2>2. PICK d \in Levels(k)[n] : Reads(a, d, ((b - m) - 1) - n, inner)
    BY <2>1
  <2>3. /\ m \in 0..NestingBudget /\ n \in 0..NestingBudget /\ m + 1 + n <= NestingBudget
        /\ m + 1 + n \in 0..b /\ ((b - m) - 1) - n = b - (m + 1 + n)
    BY <1>1, <2>1
  <2>4. d \in Levels(l)[m + 1 + n]
    BY <2>2, <2>3, LevelsCompose
  <2>5. QED
    BY <2>2, <2>3, <2>4 DEF Founded
<1>4. QED
  BY <1>2, <1>3

LEMMA OneBudget ==
  ASSUME NEW inner, NEW b \in 0..NestingBudget,
         b > 0 => \A k \in Bodies : AllFounded(inner[<<b - 1, k>>], k, b - 1, inner),
         NEW l, SoundLine(l)
  PROVE  LET s == FlattenSeq(Pipelines(l, b, inner)) IN
         /\ AllCarried(b, inner) /\ AllFounded(s, l, b, inner)
         /\ \A c \in Direct(l) : \E a \in Range(s) : Reads(a, c, b, inner)
<1> DEFINE s == FlattenSeq(Pipelines(l, b, inner))
<1>1. NestingBudget \in Nat /\ b \in Nat
  BY BudgetAssumption
<1>2. AllCarried(b, inner)
  <2>1. ListOfArgvs(<<>>)
    BY ListedShort DEF ListOfArgvs
  <2>2. QED
    BY <2>1 DEF AllCarried, Carried, AllFounded
<1>3. /\ ListOfArgvs(s)
      /\ \A a \in Range(s) : Stands(a, Direct(l), b, inner)
      /\ \A c \in Direct(l) : \E a \in Range(s) : Reads(a, c, b, inner)
  BY <1>2, PipelinesFacts
<1> HIDE DEF s
<1>4. ASSUME NEW a \in Range(s) PROVE Founded(a, l, b, inner)
  <2>1. CASE Empty(a)
    BY <2>1 DEF Founded
  <2>2. CASE \E c \in Direct(l) : Reads(a, c, b, inner)
    <3>1. b - 0 = b /\ 0 \in 0..b /\ Levels(l)[0] = Direct(l)
      BY <1>1, LevelsStep
    <3>2. PICK c \in Levels(l)[0] : Reads(a, c, b - 0, inner)
      BY <2>2, <3>1
    <3>3. QED
      BY <3>1, <3>2 DEF Founded
  <2>3. CASE \E c \in Direct(l) : \E x \in Range(Carried(c.sink, b, inner)) : Alike(a, x)
    <3>1. PICK c \in Direct(l) : \E x \in Range(Carried(c.sink, b, inner)) : Alike(a, x)
      BY <2>3
    <3>2. PICK x \in Range(Carried(c.sink, b, inner)) : Alike(a, x)
      BY <3>1
    <3>3. b > 0 /\ x \in Range(inner[<<b - 1, c.sink>>])
      BY <3>2, ListedShort DEF Carried
    <3>4. c.sink \in Carries(c) /\ c.sink \in Bodies
      BY DEF Carries, SoundLine
    <3>5. Founded(x, c.sink, b - 1, inner)
      BY <3>3, <3>4 DEF AllFounded
    <3>6. c \in Levels(l)[0] /\ 0 \in 0..b /\ 0 < b /\ (b - 0) - 1 = b - 1
      BY <1>1, <3>3, LevelsStep
    <3>7. Founded(x, l, b, inner)
      BY <3>4, <3>5, <3>6, FoundedBelow
    <3>8. QED
      BY <3>2, <3>7 DEF Founded, Alike, Empty, Reads
  <2>4. QED
    BY <1>3, <2>1, <2>2, <2>3 DEF Stands
<1>5. QED
  BY <1>2, <1>3, <1>4 DEF AllFounded, s

LEMMA InnerFounded ==
  ASSUME NEW inner, IsInner(inner)
  PROVE  \A b \in 0..NestingBudget : \A k \in Bodies : AllFounded(inner[<<b, k>>], k, b, inner)
<1> DEFINE B == NestingBudget
           T == {b \in 0..B : \A k \in Bodies : AllFounded(inner[<<b, k>>], k, b, inner)}
<1>1. B \in Nat /\ \A k \in Bodies : SoundLine(k)
  BY BudgetAssumption, LinesAssumption DEF SoundLine
<1>2. ASSUME NEW b \in 0..B, NEW k \in Bodies PROVE inner[<<b, k>>] = FlattenSeq(Pipelines(k, b, inner))
  <2>1. \A call \in (0..B) \X Bodies : inner[call] = FlattenSeq(Pipelines(call[2], call[1], inner))
    BY DEF IsInner
  <2>2. <<b, k>> \in (0..B) \X Bodies
    OBVIOUS
  <2>3. inner[<<b, k>>] = FlattenSeq(Pipelines(<<b, k>>[2], <<b, k>>[1], inner))
    BY <2>1, <2>2
  <2>4. QED
    BY <2>3
<1>3. 0 \in T
  <2>1. 0 \in 0..B
    BY <1>1
  <2>2. ASSUME NEW k \in Bodies PROVE AllFounded(inner[<<0, k>>], k, 0, inner)
    <3>1. SoundLine(k) /\ inner[<<0, k>>] = FlattenSeq(Pipelines(k, 0, inner)) /\ ~(0 > 0)
      BY <1>1, <1>2, <2>1
    <3>2. AllFounded(FlattenSeq(Pipelines(k, 0, inner)), k, 0, inner)
      BY <2>1, <3>1, OneBudget
    <3>3. QED
      BY <3>1, <3>2
  <2>3. QED
    BY <2>1, <2>2
<1>4. ASSUME NEW n \in 0..B, n < B, n \in T PROVE n + 1 \in T
  <2>1. n + 1 \in 0..B /\ (n + 1) - 1 = n
    BY <1>1, <1>4
  <2>2. \A k \in Bodies : AllFounded(inner[<<(n + 1) - 1, k>>], k, (n + 1) - 1, inner)
    BY <1>4, <2>1
  <2>3. ASSUME NEW k \in Bodies PROVE AllFounded(inner[<<n + 1, k>>], k, n + 1, inner)
    <3>1. SoundLine(k) /\ inner[<<n + 1, k>>] = FlattenSeq(Pipelines(k, n + 1, inner))
      BY <1>1, <1>2, <2>1
    <3>2. AllFounded(FlattenSeq(Pipelines(k, n + 1, inner)), k, n + 1, inner)
      BY <2>1, <2>2, <3>1, OneBudget
    <3>3. QED
      BY <3>1, <3>2
  <2>4. QED
    BY <2>1, <2>3
<1>5. \A b \in 0..B : b \in T
  <2> HIDE DEF T
  <2>1. QED
    BY <1>1, <1>3, <1>4, UpTo
<1>6. QED
  BY <1>5

-----------------------------------------------------------------------------
\* Bash::commands: the argvs of a list level by level.
Called(argvs) == UNION {Range(a.inner) \cup Range(a.subst) : a \in argvs}
IsReached(f, s) ==
  f = [n \in 0..NestingBudget |-> IF n = 0 THEN Range(s) ELSE Called(f[n - 1])]
Reached(s) == CHOOSE f : IsReached(f, s)

LEMMA ReachedDef ==
  ASSUME NEW s
  PROVE  IsReached(Reached(s), s) /\ Commands(s) = UNION {Reached(s)[n] : n \in 0..NestingBudget}
<1> DEFINE B == NestingBudget
           Is(f, n) == f = [i \in 0..n |-> IF i = 0 THEN Range(s) ELSE Called(f[i - 1])]
           T == {n \in 0..B : \E f : Is(f, n)}
<1>1. B \in Nat
  BY BudgetAssumption
<1>2. 0 \in T
  <2>1. Is([i \in 0..0 |-> Range(s)], 0)
    OBVIOUS
  <2> HIDE DEF Is
  <2>2. QED
    BY <1>1, <2>1
<1>3. ASSUME NEW n \in 0..B, n < B, n \in T PROVE n + 1 \in T
  <2>1. PICK f : Is(f, n)
    BY <1>3
  <2> DEFINE g == [i \in 0..(n + 1) |-> IF i = n + 1 THEN Called(f[n]) ELSE f[i]]
  <2>2. Is(g, n + 1)
    BY <2>1
  <2> HIDE DEF Is, g
  <2>3. \E h : Is(h, n + 1)
    BY <2>2
  <2>4. n + 1 \in 0..B
    BY <1>1, <1>3
  <2>5. QED
    BY <2>3, <2>4
<1>4. \E f : Is(f, B)
  <2>1. B \in 0..B
    BY <1>1
  <2>2. B \in T
    <3> HIDE DEF T, B
    <3>1. QED
      BY <1>1, <1>2, <1>3, <2>1, UpTo
  <2> HIDE DEF Is
  <2>3. QED
    BY <2>2
<1>5. \E f : IsReached(f, s)
  BY <1>4 DEF IsReached
<1>6. IsReached(Reached(s), s)
  BY <1>5 DEF Reached
<1>7. Commands(s) = UNION {Reached(s)[n] : n \in 0..B}
  BY DEF Commands, Reached, IsReached, Called
<1>8. QED
  BY <1>6, <1>7

LEMMA ReachedStep ==
  ASSUME NEW s
  PROVE  /\ Reached(s)[0] = Range(s)
         /\ \A n \in 0..NestingBudget : n < NestingBudget => Reached(s)[n + 1] = Called(Reached(s)[n])
<1> DEFINE f == Reached(s)
<1>1. \A n \in 0..NestingBudget : f[n] = IF n = 0 THEN Range(s) ELSE Called(f[n - 1])
  BY ReachedDef DEF IsReached
<1> HIDE DEF f
<1>2. NestingBudget \in Nat
  BY BudgetAssumption
<1>3. f[0] = Range(s)
  BY <1>1, <1>2
<1>4. ASSUME NEW n \in 0..NestingBudget, n < NestingBudget PROVE f[n + 1] = Called(f[n])
  <2>1. n + 1 \in 0..NestingBudget /\ n + 1 # 0 /\ (n + 1) - 1 = n
    BY <1>2, <1>4
  <2>2. QED
    BY <1>1, <2>1
<1>5. QED
  BY <1>3, <1>4 DEF f

\* What an argv that reads a command leads to: the carried lines' argvs.
LEMMA CalledFacts ==
  ASSUME NEW inner, NEW b, AllCarried(b, inner),
         NEW c, Carries(c) \subseteq Bodies, NEW a, Reads(a, c, b, inner)
  PROVE  Range(a.inner) \cup Range(a.subst) = UNION {Range(Carried(k, b, inner)) : k \in Carries(c)}
<1>1. /\ Listed(Carried(c.code, b, inner)) /\ Listed(Carried(c.subst, b, inner))
      /\ Listed(Carried(c.sink, b, inner))
  BY DEF AllCarried, ListOfArgvs, Carries
<1>2. Range(a.subst) = Range(Carried(c.subst, b, inner)) \cup Range(Carried(c.sink, b, inner))
  BY <1>1, ListedConcat DEF Reads
<1>3. Range(a.inner) = Range(Carried(c.code, b, inner))
  BY DEF Reads
<1>4. QED
  BY <1>2, <1>3 DEF Carries

\* Nothing invented: every argv reached reads a command of the line, or none.
LEMMA NothingInvented ==
  ASSUME NEW inner, IsInner(inner), NEW l, SoundLine(l)
  PROVE  LET s == FlattenSeq(Pipelines(l, NestingBudget, inner)) IN
         \A n \in 0..NestingBudget : \A a \in Reached(s)[n] : Founded(a, l, NestingBudget, inner)
<1> DEFINE B == NestingBudget
           s == FlattenSeq(Pipelines(l, B, inner))
           Ok(argvs) == \A a \in argvs : Founded(a, l, B, inner)
           T == {n \in 0..B : Ok(Reached(s)[n])}
<1>1. B \in Nat /\ B \in 0..B
  BY BudgetAssumption
<1>2. \A b \in 0..B : \A k \in Bodies : AllFounded(inner[<<b, k>>], k, b, inner)
  BY InnerFounded
<1>3. \A b \in 0..B : b > 0 => \A k \in Bodies : AllFounded(inner[<<b - 1, k>>], k, b - 1, inner)
  <2>1. \A b \in 0..B : b > 0 => b - 1 \in 0..B
    BY <1>1
  <2>2. QED
    BY <1>2, <2>1
<1>4. \A b \in 0..B : AllCarried(b, inner)
  BY <1>3, OneBudget
<1>5. AllFounded(s, l, B, inner)
  BY <1>1, <1>3, OneBudget
<1> HIDE DEF s
<1>6. 0 \in T
  BY <1>1, <1>5, ReachedStep DEF AllFounded
<1>7. ASSUME NEW n \in 0..B, n < B, n \in T PROVE n + 1 \in T
  <2>1. Reached(s)[n + 1] = Called(Reached(s)[n]) /\ n + 1 \in 0..B /\ Ok(Reached(s)[n])
    BY <1>1, <1>7, ReachedStep
  <2>2. ASSUME NEW a \in Reached(s)[n], NEW x \in Range(a.inner) \cup Range(a.subst)
        PROVE  Founded(x, l, B, inner)
    <3>1. ~Empty(a)
      BY <2>2, ListedShort DEF Empty
    <3>2. PICK m \in 0..B : \E c \in Levels(l)[m] : Reads(a, c, B - m, inner)
      BY <2>1, <2>2, <3>1 DEF Founded
    <3>3. PICK c \in Levels(l)[m] : Reads(a, c, B - m, inner)
      BY <3>2
    <3>4. Carries(c) \subseteq Bodies
      BY <3>2, LevelsSound
    <3>5. B - m \in 0..B
      BY <1>1, <3>2
    <3>6. PICK k \in Carries(c) : x \in Range(Carried(k, B - m, inner))
      BY <1>4, <2>2, <3>3, <3>4, <3>5, CalledFacts
    <3>7. B - m > 0 /\ x \in Range(inner[<<(B - m) - 1, k>>])
      BY <3>6, ListedShort DEF Carried
    <3>8. Founded(x, k, (B - m) - 1, inner)
      BY <1>3, <3>4, <3>5, <3>6, <3>7 DEF AllFounded
    <3>9. m < B
      BY <1>1, <3>2, <3>7
    <3>10. QED
      BY <1>1, <3>3, <3>6, <3>8, <3>9, FoundedBelow
  <2>3. Ok(Called(Reached(s)[n]))
    BY <2>2 DEF Called
  <2>4. QED
    BY <2>1, <2>3
<1>8. \A n \in 0..B : n \in T
  <2> HIDE DEF T
  <2>1. QED
    BY <1>1, <1>6, <1>7, UpTo
<1>9. QED
  BY <1>8 DEF s

\* Nothing lost: every command of the line, down to the budget, has an argv that
\* reads it, no deeper among the argvs than it is among the commands.
LEMMA NothingMissed ==
  ASSUME NEW inner, IsInner(inner), NEW l, SoundLine(l)
  PROVE  LET s == FlattenSeq(Pipelines(l, NestingBudget, inner)) IN
         \A m \in 0..NestingBudget : \A c \in Levels(l)[m] :
           \E n \in 0..m : \E a \in Reached(s)[n] : Reads(a, c, NestingBudget - m, inner)
<1> DEFINE B == NestingBudget
           s == FlattenSeq(Pipelines(l, B, inner))
           Ok(m) == \A c \in Levels(l)[m] :
                      \E n \in 0..m : \E a \in Reached(s)[n] : Reads(a, c, B - m, inner)
           T == {m \in 0..B : Ok(m)}
<1>1. B \in Nat /\ B \in 0..B /\ \A k \in Bodies : SoundLine(k)
  BY BudgetAssumption, LinesAssumption DEF SoundLine
<1>2. \A b \in 0..B : b > 0 => \A k \in Bodies : AllFounded(inner[<<b - 1, k>>], k, b - 1, inner)
  <2>1. \A b \in 0..B : b > 0 => b - 1 \in 0..B
    BY <1>1
  <2>2. QED
    BY <2>1, InnerFounded
<1>3. \A b \in 0..B : AllCarried(b, inner)
  BY <1>1, <1>2, OneBudget
<1>4. 0 \in T
  <2>1. \A c \in Direct(l) : \E a \in Range(s) : Reads(a, c, B, inner)
    BY <1>1, <1>2, OneBudget
  <2> HIDE DEF s
  <2>2. Levels(l)[0] = Direct(l) /\ Reached(s)[0] = Range(s) /\ 0 \in 0..0 /\ B - 0 = B /\ 0 \in 0..B
    BY <1>1, LevelsStep, ReachedStep
  <2>3. Ok(0)
    BY <2>1, <2>2
  <2>4. QED
    BY <2>2, <2>3
<1> HIDE DEF s
<1>5. ASSUME NEW m \in 0..B, m < B, m \in T PROVE m + 1 \in T
  <2>1. Levels(l)[m + 1] = Deeper(Levels(l)[m]) /\ m + 1 \in 0..B /\ Ok(m)
    BY <1>1, <1>5, LevelsStep
  <2>2. /\ B - m \in 0..B /\ B - m > 0
        /\ (B - m) - 1 = B - (m + 1) /\ (B - m) - 1 \in 0..B
    BY <1>1, <1>5
  <2>3. ASSUME NEW d \in Deeper(Levels(l)[m])
        PROVE  \E n \in 0..(m + 1) : \E x \in Reached(s)[n] : Reads(x, d, B - (m + 1), inner)
    <3>1. PICK c \in Levels(l)[m] : \E k \in Carries(c) : d \in Direct(k)
      BY DEF Deeper
    <3>2. PICK k \in Carries(c) : d \in Direct(k)
      BY <3>1
    <3>3. Carries(c) \subseteq Bodies /\ SoundLine(k)
      BY <1>1, <3>2, LevelsSound
    <3>4. PICK n \in 0..m : \E a \in Reached(s)[n] : Reads(a, c, B - m, inner)
      BY <2>1
    <3>5. PICK a \in Reached(s)[n] : Reads(a, c, B - m, inner)
      BY <3>4
    <3>6. inner[<<(B - m) - 1, k>>] = FlattenSeq(Pipelines(k, (B - m) - 1, inner))
      <4> DEFINE b == (B - m) - 1
      <4>1. \A call \in (0..B) \X Bodies : inner[call] = FlattenSeq(Pipelines(call[2], call[1], inner))
        BY DEF IsInner
      <4>2. <<b, k>> \in (0..B) \X Bodies
        BY <2>2, <3>2, <3>3
      <4> HIDE DEF b
      <4>3. inner[<<b, k>>] = FlattenSeq(Pipelines(<<b, k>>[2], <<b, k>>[1], inner))
        BY <4>1, <4>2
      <4>4. QED
        BY <4>3 DEF b
    <3>7. PICK x \in Range(inner[<<(B - m) - 1, k>>]) : Reads(x, d, (B - m) - 1, inner)
      BY <1>2, <2>2, <3>2, <3>3, <3>6, OneBudget
    <3>8. x \in Range(Carried(k, B - m, inner))
      BY <2>2, <3>7 DEF Carried
    <3>9. x \in Range(a.inner) \cup Range(a.subst)
      BY <1>3, <2>2, <3>2, <3>3, <3>5, <3>8, CalledFacts
    <3>10. n + 1 \in 0..(m + 1) /\ n \in 0..B /\ n < B
      BY <1>1, <1>5, <3>4
    <3>11. x \in Reached(s)[n + 1]
      BY <3>5, <3>9, <3>10, ReachedStep DEF Called
    <3>12. QED
      BY <2>2, <3>7, <3>10, <3>11
  <2>4. Ok(m + 1)
    BY <2>1, <2>3
  <2>5. QED
    BY <2>1, <2>4
<1>6. \A m \in 0..B : m \in T
  <2> HIDE DEF T
  <2>1. QED
    BY <1>1, <1>4, <1>5, UpTo
<1>7. QED
  BY <1>6 DEF s

\* Of any line the facts have the commands it holds down to the budget.
LEMMA ParsedCommands ==
  ASSUME NEW l, SoundLine(l)
  PROVE  {a.id : a \in Commands(FlattenSeq(ParseWithDepth(l, NestingBudget)))} \ {<<>>}
           = Within(l, NestingBudget)
<1> DEFINE B == NestingBudget
           ids == {a.id : a \in Commands(FlattenSeq(ParseWithDepth(l, B)))} \ {<<>>}
<1>1. PICK inner : IsInner(inner) /\ \A k, b : ParseWithDepth(k, b) = Pipelines(k, b, inner)
  BY InnerShellDef DEF IsInner
<1> DEFINE s == FlattenSeq(Pipelines(l, B, inner))
<1>2. ids = {a.id : a \in Commands(s)} \ {<<>>}
  BY <1>1
<1>3. Commands(s) = UNION {Reached(s)[n] : n \in 0..B}
  BY ReachedDef
<1>4. Within(l, B) = {c.id : c \in UNION {Levels(l)[n] : n \in 0..B}}
  BY LevelsDef
<1>5. \A n \in 0..B : \A a \in Reached(s)[n] : Founded(a, l, B, inner)
  BY <1>1, NothingInvented
<1>6. \A m \in 0..B : \A c \in Levels(l)[m] :
        \E n \in 0..m : \E a \in Reached(s)[n] : Reads(a, c, B - m, inner)
  BY <1>1, NothingMissed
<1> HIDE DEF s, ids
<1>7. ASSUME NEW i \in ids PROVE i \in Within(l, B)
  <2>1. PICK n \in 0..B : \E a \in Reached(s)[n] : i = a.id
    BY <1>2, <1>3
  <2>2. PICK a \in Reached(s)[n] : i = a.id
    BY <2>1
  <2>3. ~Empty(a)
    BY <1>2, <2>2 DEF Empty
  <2>4. \E m \in 0..B : \E c \in Levels(l)[m] : Reads(a, c, B - m, inner)
    BY <1>5, <2>2, <2>3 DEF Founded
  <2>5. \E m \in 0..B : \E c \in Levels(l)[m] : i = c.id
    BY <2>2, <2>4 DEF Reads
  <2>6. QED
    BY <1>4, <2>5
<1>8. ASSUME NEW i \in Within(l, B) PROVE i \in ids
  <2>1. PICK m \in 0..B : \E c \in Levels(l)[m] : i = c.id
    BY <1>4
  <2>2. PICK c \in Levels(l)[m] : i = c.id
    BY <2>1
  <2>3. i # <<>>
    BY <2>2, LevelsSound
  <2>4. PICK n \in 0..m : \E a \in Reached(s)[n] : Reads(a, c, B - m, inner)
    BY <1>6, <2>2
  <2>5. PICK a \in Reached(s)[n] : Reads(a, c, B - m, inner)
    BY <2>4
  <2>6. a.id = i /\ n \in 0..B
    BY <2>2, <2>4, <2>5, BudgetAssumption DEF Reads
  <2>7. QED
    BY <1>2, <1>3, <2>3, <2>5, <2>6
<1>9. QED
  BY <1>7, <1>8 DEF ids

-----------------------------------------------------------------------------
\* The line is one of those given, and once it is parsed `bash` is what it is
\* parsed into.
Parsed ==
  /\ \E some \in Lines : line \in some
  /\ pc # "parse" => bash = ParseWithDepth(line, NestingBudget)

\* The parse is the whole of what happens to the line: what uses the facts,
\* conditions and rules, leaves them as they are.
THEOREM ParsedHolds ==
  ParseSpec => []Parsed
<1>1. ParseInit => Parsed
  BY DEF ParseInit, Parsed
<1>2. Parsed /\ [ParseNext]_parse => Parsed'
  BY DEF Parsed, ParseNext, Parse, Use, parse
<1>3. QED
  BY <1>1, <1>2, PTL DEF ParseSpec

\* NothingLost, for every set of lines and every budget: however a line nests
\* its groups, pipes and carried lines, the facts that the rules are asked
\* about hold each of its commands down to the nesting budget, and no command
\* that the line does not hold.
THEOREM NothingIsLost ==
  ParseSpec => []NothingLost
<1>1. Parsed => NothingLost
  <2> SUFFICES ASSUME Parsed, pc # "parse"
               PROVE  {argv.id : argv \in Commands(FlattenSeq(bash))} \ {<<>>}
                        = Within(line, NestingBudget)
    BY DEF NothingLost
  <2>1. bash = ParseWithDepth(line, NestingBudget) /\ SoundLine(line)
    BY LinesAssumption DEF Parsed, SoundLine
  <2>2. QED
    BY <2>1, ParsedCommands
<1>2. QED
  BY <1>1, ParsedHolds, PTL
=============================================================================
