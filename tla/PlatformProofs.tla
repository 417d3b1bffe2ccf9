--------------------------- MODULE PlatformProofs ---------------------------
(***************************************************************************)
(* Proofs about Platform: for every instruction set string and pointer and *)
(* page size, the kernel reads back the string that firmware provides, and *)
(* the copy ends where OverrunBounded says.                                *)
(***************************************************************************)
EXTENDS Platform, FiniteSetTheorems, SequenceTheorems, TLAPS

----------------------------------------------------------------------------
(* The inductive invariant.                                                *)

\* parse_isa_string is at work on a string, or has finished one.
Parsing == pc = "loop" \/ (pc = "done" /\ isa_len > 0)

\* What a string is made of.
Characters == Letters \cup {Underscore}

\* The offset of the first string after the pointers.
First == FirstString(isa_string_len, extention_count)

\* The string that the kernel is meant to read: without an underscore, the first letter
\* becomes one.
Published == IF Underscores # {} THEN isa_string ELSE <<Underscore>> \o Tail(isa_string)

\* The underscores that the loop has passed.
Passed == {o \in Underscores : isa_string_len < o /\ o < p}

ParserTypes ==
    /\ fw \in Machines
    /\ isa_string_len \in Nat /\ extention_count \in Nat /\ cursor \in Nat /\ p \in Nat
    /\ ext_index \in Nat /\ pointers \in Seq(Nat) /\ Len(pointers) = ext_index
    /\ DOMAIN buffer = 0..MaxOffset
    /\ pc \in {"entry", "acpi", "levels", "extensions", "parse"} => ext_index = 0

\* Where the loop is, in the string and in the buffer.
PlaceInv ==
    /\ Parsing => /\ isa_string_len = BaseLength /\ extention_count = Cardinality(Underscores)
                  /\ isa_string_len < isa_len
    /\ pc = "loop" => /\ isa_string_len < p /\ p <= isa_len
                      /\ Published[p] = Underscore
                      /\ cursor = First + (p - (isa_string_len + 1))
                      /\ ext_index <= Cardinality(Passed)
    /\ pc = "done" /\ isa_len > 0 =>
         /\ cursor <= First + (isa_len - isa_string_len)
         /\ ext_index <= extention_count + 1
    /\ OverrunBounded

\* What is found in a buffer b at an offset.
Found(b, o) ==
    LET end == Min({e \in o..MaxOffset : b[e] = "NUL"} \cup {MaxOffset})
    IN  [k \in 1..(end - o) |-> b[o + k - 1]]

\* The first n extensions that the kernel reads there through pointers q.
Pieces(b, q, n) == [k \in 1..n |-> <<Underscore>> \o Found(b, q[k])]

\* What has been stored.  The strings so far end before the cursor, and together they
\* are what the loop has passed.
ContentInv ==
    Parsing =>
        /\ buffer[isa_string_len] = "NUL"
        /\ \A o \in extensions..(extensions + ext_index * POINTER - 1) : buffer[o] = "pointer"
        /\ \A k \in 1..ext_index :
              /\ First <= pointers[k]
              /\ \E e \in pointers[k]..(cursor - 1) : e <= MaxOffset /\ buffer[e] = "NUL"
        /\ Found(buffer, 0) \in Seq(Characters)
        /\ \A k \in 1..ext_index : Found(buffer, pointers[k]) \in Seq(Characters)
        /\ pc = "loop" => ReadBack = SubSeq(Published, 1, p - 1)
        /\ pc = "done" => ReadBack = WithoutLast(Published)

----------------------------------------------------------------------------
(* Numbers.                                                                *)

\* Rounding up reaches the number, by less than the unit.
LEMMA AlignUp ==
  ASSUME NEW x \in Nat, NEW a \in Nat \ {0}
  PROVE  MATH_ALIGN_UP(x, a) \in Nat /\ x <= MATH_ALIGN_UP(x, a) /\ MATH_ALIGN_UP(x, a) < x + a
<1> DEFINE y == x + a - 1
<1>1. y \in Nat
  OBVIOUS
<1>2. y = a * (y \div a) + (y % a) /\ y % a \in 0..(a - 1) /\ y \div a \in Nat
  <2> HIDE DEF y
  <2> QED BY <1>1
<1>3. (y \div a) * a = a * (y \div a) /\ (y \div a) * a \in Nat
  <2> HIDE DEF y
  <2> QED BY <1>2
<1> QED BY <1>2, <1>3 DEF MATH_ALIGN_UP

\* A set of numbers has a least one.
LEMMA LeastNumber ==
  ASSUME NEW S \in SUBSET Nat, S # {}
  PROVE  \E m \in S : \A k \in S : m <= k
<1> DEFINE T == {S \cap (0..k) : k \in S}
<1>1. IsWellFoundedOn(StrictSubsetOrdering(Nat), FiniteSubsetsOf(Nat))
  BY FS_StrictSubsetOrderingWellFounded
<1>2. T # {}
  OBVIOUS
<1>3. T \subseteq FiniteSubsetsOf(Nat)
  <2> SUFFICES ASSUME NEW k \in S PROVE S \cap (0..k) \in FiniteSubsetsOf(Nat)
    OBVIOUS
  <2>1. IsFiniteSet(0..k)
    BY FS_Interval
  <2>2. IsFiniteSet(S \cap (0..k))
    BY <2>1, FS_Subset
  <2> QED BY <2>2 DEF FiniteSubsetsOf
<1>4. PICK x \in T : \A y \in T : ~(<<y, x>> \in StrictSubsetOrdering(Nat))
  <2> HIDE DEF T
  <2> QED BY <1>1, <1>2, <1>3, WFMin
<1>5. PICK m \in S : x = S \cap (0..m)
  OBVIOUS
<1>6. ASSUME NEW k \in S, k < m PROVE FALSE
  <2> DEFINE y == S \cap (0..k)
  <2>1. y \in SUBSET Nat /\ x \in SUBSET Nat
    BY <1>5
  <2>2. m \in x /\ m \notin y /\ y \subseteq x
    BY <1>5, <1>6
  <2>3. <<y, x>> \in StrictSubsetOrdering(Nat)
    <3> HIDE DEF y
    <3> QED BY <2>1, <2>2 DEF StrictSubsetOrdering
  <2> QED BY <2>3, <1>4
<1> QED BY <1>6

\* So it has a minimum.
LEMMA MinFacts ==
  ASSUME NEW S \in SUBSET Nat, S # {}
  PROVE  Min(S) \in S /\ \A k \in S : Min(S) <= k
<1>1. \E m \in S : \A k \in S : m <= k
  BY LeastNumber
<1> QED BY <1>1, Zenon DEF Min

----------------------------------------------------------------------------
(* The string.                                                             *)

\* The underscore does not end a string.
LEMMA UnderscoreCharacter == Underscore \in Characters /\ Underscore # "NUL"
<1>1. Underscore # "NUL"
  BY Zenon DEF Underscore
<1> QED BY <1>1 DEF Characters

\* No character of the string ends it.
LEMMA StringFacts ==
  ASSUME fw \in Machines
  PROVE  /\ isa_string \in Seq(Characters)
         /\ isa_len = Len(isa_string) /\ isa_len \in Nat
         /\ At(isa_len) = "NUL"
         /\ \A o \in 0..(isa_len - 1) : At(o) = isa_string[o + 1] /\ At(o) # "NUL"
         /\ isa_len + (isa_len + 2) * POINTER <= MaxOffset
<1>1. /\ isa_string \in Seq(Characters)
      /\ Len(isa_string) + (Len(isa_string) + 2) * POINTER <= MaxOffset
  BY Zenon, PlatformAssumption DEF isa_string, Characters
<1>2. Len(isa_string) \in Nat /\ \A k \in 1..Len(isa_string) : isa_string[k] \in Characters
  BY <1>1
<1>3. \A c \in Characters : c # "NUL"
  BY PlatformAssumption, UnderscoreCharacter DEF Characters
<1> QED BY <1>1, <1>2, <1>3 DEF isa_len, At

\* The underscores are finitely many, and the base ends at the first that may end it.
LEMMA UnderscoreFacts ==
  ASSUME fw \in Machines
  PROVE  /\ Underscores \subseteq 0..(isa_len - 1)
         /\ IsFiniteSet(Underscores)
         /\ Cardinality(Underscores) \in 0..isa_len
         /\ BaseLength \in Nat
         /\ isa_len > 0 => BaseLength < isa_len
         /\ BaseLength > 0 => BaseLength \in Underscores
         /\ BaseLength = 0 => Underscores \subseteq {0}
<1>1. isa_len \in Nat
  BY StringFacts
<1>2. Underscores \subseteq 0..(isa_len - 1)
  BY DEF Underscores
<1>3. IsFiniteSet(0..(isa_len - 1)) /\ Cardinality(0..(isa_len - 1)) = isa_len
  <2>1. 0 \in Int /\ isa_len - 1 \in Int
    BY <1>1
  <2> QED BY <2>1, <1>1, FS_Interval
<1>4. IsFiniteSet(Underscores) /\ Cardinality(Underscores) <= isa_len
  BY <1>2, <1>3, FS_Subset
<1>5. Cardinality(Underscores) \in Nat
  BY <1>4, FS_CardinalityType
<1>6. CASE Underscores \ {0} = {}
  BY <1>1, <1>2, <1>4, <1>5, <1>6 DEF BaseLength
<1>7. CASE Underscores \ {0} # {}
  <2> DEFINE S == Underscores \ {0}
  <2>1. S \in SUBSET Nat /\ S # {}
    BY <1>2, <1>7
  <2>2. Min(S) \in S
    <3> HIDE DEF S
    <3> QED BY <2>1, MinFacts
  <2>3. BaseLength = Min(S)
    BY <1>7 DEF BaseLength
  <2>4. BaseLength \in Underscores /\ BaseLength # 0
    <3> HIDE DEF S
    <3>1. BaseLength \in S
      BY <2>2, <2>3
    <3> QED BY <3>1 DEF S
  <2> QED BY <2>4, <1>1, <1>2, <1>4, <1>5
<1> QED BY <1>6, <1>7

\* The characters of the string that is published.
LEMMA PublishedFacts ==
  ASSUME fw \in Machines, isa_len > 0
  PROVE  /\ Published \in Seq(Characters) /\ Len(Published) = isa_len
         /\ Published[BaseLength + 1] = Underscore
         /\ \A k \in 1..isa_len : k # BaseLength + 1 => Published[k] = isa_string[k]
<1>1. isa_string \in Seq(Characters) /\ Len(isa_string) = isa_len /\ isa_len \in Nat
  BY StringFacts
<1>2. CASE Underscores # {}
  <2>1. Published = isa_string
    BY <1>2 DEF Published
  <2>2. BaseLength \in Underscores
    BY <1>2, UnderscoreFacts
  <2>3. isa_string[BaseLength + 1] = Underscore
    BY <2>2, StringFacts DEF Underscores
  <2> QED BY <1>1, <2>1, <2>3
<1>3. CASE Underscores = {}
  <2>1. Published = <<Underscore>> \o Tail(isa_string) /\ BaseLength = 0
    BY <1>3 DEF Published, BaseLength
  <2>2. <<Underscore>> \in Seq(Characters) /\ Len(<<Underscore>>) = 1
    <3>1. Underscore \in Characters
      BY UnderscoreCharacter
    <3> QED BY <3>1
  <2>3. isa_string # <<>>
    BY <1>1
  <2>4. /\ Tail(isa_string) \in Seq(Characters) /\ Len(Tail(isa_string)) = isa_len - 1
        /\ \A k \in 1..(isa_len - 1) : Tail(isa_string)[k] = isa_string[k + 1]
    <3> HIDE DEF isa_string
    <3> QED BY <1>1, <2>3, HeadTailProperties
  <2>5. /\ Published \in Seq(Characters) /\ Len(Published) = isa_len
        /\ \A k \in 1..isa_len :
              Published[k] = IF k <= 1 THEN <<Underscore>>[k] ELSE Tail(isa_string)[k - 1]
    <3> DEFINE s == <<Underscore>>
               t == Tail(isa_string)
    <3>1. /\ s \o t \in Seq(Characters) /\ Len(s \o t) = Len(s) + Len(t)
          /\ \A k \in 1..(Len(s) + Len(t)) :
                (s \o t)[k] = IF k <= Len(s) THEN s[k] ELSE t[k - Len(s)]
      <4> HIDE DEF s, t
      <4> QED BY <2>2, <2>4, ConcatProperties DEF s, t
    <3>2. Len(s) = 1 /\ Len(t) = isa_len - 1
      BY <2>2, <2>4
    <3>3. Published = s \o t
      BY <2>1
    <3> HIDE DEF s, t
    <3>4. \A k \in 1..isa_len : Published[k] = IF k <= 1 THEN s[k] ELSE t[k - 1]
      BY <1>1, <3>1, <3>2, <3>3
    <3>5. Len(Published) = isa_len
      BY <1>1, <3>1, <3>2, <3>3
    <3> QED BY <3>1, <3>3, <3>4, <3>5 DEF s, t
  <2>6. <<Underscore>>[1] = Underscore
    OBVIOUS
  <2>7. \A k \in 1..isa_len : k > 1 => Published[k] = isa_string[k]
    BY <1>1, <2>4, <2>5
  <2>8. Published[1] = Underscore
    BY <1>1, <2>5, <2>6
  <2> QED BY <1>1, <2>1, <2>5, <2>7, <2>8
<1> QED BY <1>2, <1>3

\* The end of an extension.
LEMMA NextEndFacts ==
  ASSUME fw \in Machines, p \in Nat, p <= isa_len
  PROVE  /\ NextEnd \in p..isa_len
         /\ At(NextEnd) = "NUL" <=> NextEnd = isa_len
         /\ At(NextEnd) # "NUL" => At(NextEnd) = Underscore /\ NextEnd \in Underscores
         /\ \A o \in p..(NextEnd - 1) : At(o) # Underscore /\ At(o) # "NUL"
<1> DEFINE S == {o \in p..isa_len : At(o) \in {Underscore, "NUL"}}
<1>1. isa_len \in Nat /\ isa_len \in S /\ Underscore # "NUL"
  BY StringFacts, UnderscoreCharacter
<1>2. S \in SUBSET Nat /\ S # {}
  BY <1>1
<1>3. NextEnd \in S /\ \A o \in S : NextEnd <= o
  <2>1. NextEnd = Min(S)
    BY DEF NextEnd
  <2> HIDE DEF S
  <2> QED BY <1>2, <2>1, MinFacts
<1>4. \A o \in p..(NextEnd - 1) : o \notin S /\ o \in p..isa_len
  BY <1>1, <1>3
<1>5. At(NextEnd) = "NUL" <=> NextEnd = isa_len
  BY <1>1, <1>3, StringFacts
<1> QED BY <1>1, <1>3, <1>4, <1>5 DEF Underscores

----------------------------------------------------------------------------
(* What the kernel finds in the buffer.                                    *)

\* The first NUL comes after n characters.
EndsAfter(b, o, n) ==
    /\ o + n <= MaxOffset /\ b[o + n] = "NUL"
    /\ \A x \in o..(o + n - 1) : b[x] # "NUL"

Text(b, o, n) == [k \in 1..n |-> b[o + k - 1]]

\* A string ends at the first NUL.
LEMMA StringFound ==
  ASSUME NEW b, NEW o \in Nat, NEW n \in Nat, EndsAfter(b, o, n)
  PROVE  Found(b, o) = Text(b, o, n)
<1> DEFINE S == {e \in o..MaxOffset : b[e] = "NUL"} \cup {MaxOffset}
           m == Min(S)
<1>1. MaxOffset \in Nat
  BY PlatformAssumption
<1>2. S \in SUBSET Nat /\ o + n \in S /\ \A e \in S : e >= o
  BY <1>1 DEF EndsAfter
<1>3. m \in S /\ m <= o + n
  <2> HIDE DEF S
  <2> QED BY <1>2, MinFacts
<1>4. Found(b, o) = [k \in 1..(m - o) |-> b[o + k - 1]]
  BY DEF Found
<1> HIDE DEF m
<1>5. m = o + n
  BY <1>1, <1>2, <1>3 DEF EndsAfter
<1>6. m - o = n
  BY <1>5
<1> QED BY <1>4, <1>6 DEF Text

\* It ends at a NUL that is there, or before it.
LEMMA FoundShorter ==
  ASSUME NEW b, NEW o \in Nat, NEW e \in o..MaxOffset, b[e] = "NUL"
  PROVE  \E n \in Nat : o + n <= e /\ EndsAfter(b, o, n)
<1> DEFINE S == {x \in o..e : b[x] = "NUL"}
<1>1. S \in SUBSET Nat /\ e \in S
  BY PlatformAssumption
<1>2. PICK m \in S : \A x \in S : m <= x
  <2> HIDE DEF S
  <2> QED BY <1>1, LeastNumber
<1>3. m - o \in Nat /\ o + (m - o) = m /\ m <= e /\ b[m] = "NUL"
  BY <1>1, <1>2
<1>4. \A x \in o..(m - 1) : b[x] # "NUL"
  BY <1>1, <1>2, <1>3
<1>5. EndsAfter(b, o, m - o)
  BY <1>3, <1>4, PlatformAssumption DEF EndsAfter
<1> QED BY <1>3, <1>5

\* It stays what it is if nothing is stored in it.
LEMMA FoundAgain ==
  ASSUME NEW b, NEW c, NEW o \in Nat, NEW e \in o..MaxOffset, b[e] = "NUL",
         \A x \in o..e : c[x] = b[x]
  PROVE  Found(c, o) = Found(b, o)
<1>1. PICK n \in Nat : o + n <= e /\ EndsAfter(b, o, n)
  BY FoundShorter
<1>2. o + n \in o..e /\ \A x \in o..(o + n - 1) : x \in o..e
  BY <1>1, PlatformAssumption
<1>3. EndsAfter(c, o, n)
  BY <1>1, <1>2 DEF EndsAfter
<1>4. Found(b, o) = Text(b, o, n) /\ Found(c, o) = Text(c, o, n)
  BY <1>1, <1>3, StringFound
<1>5. \A k \in 1..n : o + k - 1 \in o..e
  BY <1>2
<1> QED BY <1>4, <1>5 DEF Text

----------------------------------------------------------------------------
(* Sequences of strings.                                                   *)

\* The first of the strings, one after the other.
Joined(s, n, f) ==
    f = [k \in 1..n |-> IF k = 1 THEN s[k] ELSE f[k - 1] \o s[k]]

LEMMA JoinedUnique ==
  ASSUME NEW s, NEW n \in Nat, NEW f, Joined(s, n, f), NEW m \in n..(n + 1), NEW g, Joined(s, m, g)
  PROVE  \A k \in 1..n : f[k] = g[k]
<1> DEFINE S == {k \in 1..n : f[k] # g[k]}
<1>1. SUFFICES ASSUME S # {} PROVE FALSE
  OBVIOUS
<1>2. PICK k \in S : \A j \in S : k <= j
  <2>1. S \in SUBSET Nat
    OBVIOUS
  <2> HIDE DEF S
  <2> QED BY <1>1, <2>1, LeastNumber
<1>3. f[k] = IF k = 1 THEN s[k] ELSE f[k - 1] \o s[k]
  BY DEF Joined
<1>4. g[k] = IF k = 1 THEN s[k] ELSE g[k - 1] \o s[k]
  <2>1. k \in 1..m
    OBVIOUS
  <2> QED BY <2>1 DEF Joined
<1>5. k # 1 => f[k - 1] = g[k - 1]
  BY <1>2
<1> QED BY <1>2, <1>3, <1>4, <1>5

LEMMA JoinedExists ==
  ASSUME NEW C, NEW s, NEW n \in Nat, \A k \in 1..n : s[k] \in Seq(C)
  PROVE  \E f : Joined(s, n, f) /\ \A k \in 1..n : f[k] \in Seq(C)
<1> DEFINE Good(m) == \E f : Joined(s, m, f) /\ \A k \in 1..m : f[k] \in Seq(C)
           S == {m \in 0..n : ~Good(m)}
<1>1. SUFFICES ASSUME S # {} PROVE FALSE
  <2>1. n \in 0..n /\ (S = {} => Good(n))
    OBVIOUS
  <2> QED BY <2>1
<1>2. PICK m \in S : \A j \in S : m <= j
  <2>1. S \in SUBSET Nat
    OBVIOUS
  <2> HIDE DEF S
  <2> QED BY <1>1, <2>1, LeastNumber
<1>3. m # 0
  <2>1. Joined(s, 0, <<>>)
    BY DEF Joined
  <2> QED BY <2>1
<1>4. m - 1 \in 0..n /\ Good(m - 1) /\ m \in 1..n
  BY <1>2, <1>3
<1>5. PICK f : Joined(s, m - 1, f) /\ \A k \in 1..(m - 1) : f[k] \in Seq(C)
  BY <1>4
<1> DEFINE last == IF m = 1 THEN s[m] ELSE f[m - 1] \o s[m]
           g == [k \in 1..m |-> IF k = m THEN last ELSE f[k]]
<1>6. last \in Seq(C)
  <2>1. CASE m = 1
    BY <1>4, <2>1
  <2>2. CASE m # 1
    <3>1. f[m - 1] \in Seq(C) /\ s[m] \in Seq(C)
      BY <1>4, <1>5, <2>2
    <3> QED BY <2>2, <3>1, ConcatProperties
  <2> QED BY <2>1, <2>2
<1>7. \A k \in 1..m : g[k] = IF k = 1 THEN s[k] ELSE g[k - 1] \o s[k]
  <2> TAKE k \in 1..m
  <2>1. CASE k = m
    BY <1>4, <2>1
  <2>2. CASE k # m
    <3>1. f[k] = IF k = 1 THEN s[k] ELSE f[k - 1] \o s[k]
      <4>1. k \in 1..(m - 1)
        BY <1>4, <2>2
      <4> QED BY <1>5, <4>1 DEF Joined
    <3> QED BY <1>4, <2>2, <3>1
  <2> QED BY <2>1, <2>2
<1>8. Joined(s, m, g)
  BY <1>7, Zenon DEF Joined
<1>9. \A k \in 1..m : g[k] \in Seq(C)
  BY <1>5, <1>6
<1> QED BY <1>4, <1>8, <1>9

\* What FlattenSeq gives is joined in this way.
LEMMA FlattenJoined ==
  ASSUME NEW s, Len(s) \in Nat \ {0}, NEW f, Joined(s, Len(s), f)
  PROVE  FlattenSeq(s) = f[Len(s)]
<1> DEFINE n == Len(s)
           c == CHOOSE g : g = [i \in 1..n |-> IF i = 1 THEN s[i] ELSE g[i - 1] \o s[i]]
<1>1. FlattenSeq(s) = c[n]
  BY DEF FlattenSeq
<1>2. Joined(s, n, c)
  BY Zenon DEF Joined
<1> HIDE DEF c
<1>3. n \in n..(n + 1) /\ n \in 1..n
  OBVIOUS
<1>4. \A k \in 1..n : c[k] = f[k]
  BY <1>2, <1>3, JoinedUnique
<1> QED BY <1>1, <1>3, <1>4

\* One string more is one more to join.
OneMore(C, n, s, t) ==
    /\ n \in Nat /\ Len(s) = n /\ \A k \in 1..n : s[k] \in Seq(C)
    /\ n = 0 => s = <<>>
    /\ Len(t) = n + 1 /\ t[n + 1] \in Seq(C) /\ \A k \in 1..n : t[k] = s[k]

LEMMA FlattenMore ==
  ASSUME NEW C, NEW n, NEW s, NEW t, OneMore(C, n, s, t)
  PROVE  FlattenSeq(s) \in Seq(C) /\ FlattenSeq(t) = FlattenSeq(s) \o t[n + 1]
<1>0. /\ n \in Nat /\ Len(s) = n /\ \A k \in 1..n : s[k] \in Seq(C)
      /\ n = 0 => s = <<>>
      /\ Len(t) = n + 1 /\ t[n + 1] \in Seq(C) /\ \A k \in 1..n : t[k] = s[k]
  BY DEF OneMore
<1> USE <1>0
<1>1. \A k \in 1..(n + 1) : t[k] \in Seq(C)
  <2> TAKE k \in 1..(n + 1)
  <2>1. CASE k = n + 1
    BY <2>1
  <2>2. CASE k # n + 1
    <3>1. k \in 1..n
      BY <2>2
    <3> QED BY <3>1
  <2> QED BY <2>1, <2>2
<1>2. n + 1 \in Nat \ {0} /\ n + 1 \in 1..(n + 1)
  OBVIOUS
<1>3. PICK g : Joined(t, n + 1, g) /\ \A k \in 1..(n + 1) : g[k] \in Seq(C)
  BY <1>1, <1>2, JoinedExists
<1>4. FlattenSeq(t) = g[n + 1]
  BY <1>2, <1>3, FlattenJoined
<1>5. g[n + 1] = IF n + 1 = 1 THEN t[n + 1] ELSE g[(n + 1) - 1] \o t[n + 1]
  BY <1>2, <1>3 DEF Joined
<1>6. CASE n = 0
  <2>1. FlattenSeq(s) = <<>>
    BY <1>6 DEF FlattenSeq
  <2>2. <<>> \o t[n + 1] = t[n + 1] /\ <<>> \in Seq(C)
    BY ConcatEmptySeq
  <2> QED BY <1>4, <1>5, <1>6, <2>1, <2>2
<1>7. CASE n # 0
  <2>1. n \in Nat \ {0} /\ n \in 1..n /\ n \in 1..(n + 1) /\ (n + 1) - 1 = n /\ n + 1 # 1
    BY <1>7
  <2> DEFINE f == [k \in 1..n |-> g[k]]
  <2>2. \A k \in 1..n : g[k] = IF k = 1 THEN t[k] ELSE g[k - 1] \o t[k]
    <3> TAKE k \in 1..n
    <3>1. k \in 1..(n + 1)
      OBVIOUS
    <3> QED BY <1>3, <3>1 DEF Joined
  <2>3. \A k \in 1..n : k # 1 => k - 1 \in 1..n
    OBVIOUS
  <2>4. Joined(s, n, f)
    BY <2>2, <2>3 DEF Joined
  <2>5. FlattenSeq(s) = f[n]
    <3> HIDE DEF f
    <3> QED BY <2>1, <2>4, FlattenJoined
  <2>6. f[n] = g[n]
    BY <2>1
  <2> HIDE DEF f
  <2> QED BY <1>3, <1>4, <1>5, <2>1, <2>5, <2>6
<1> QED BY <1>6, <1>7

\* A start of a sequence, and what follows it.
LEMMA StartMore ==
  ASSUME NEW C, NEW s \in Seq(C), NEW a \in 1..Len(s), NEW b \in a..Len(s),
         NEW t \in Seq(C), Len(t) = b - a, \A k \in 1..(b - a) : t[k] = s[a + k]
  PROVE  SubSeq(s, 1, a - 1) \o (<<s[a]>> \o t) = SubSeq(s, 1, b)
<1>1. Len(s) \in Nat /\ a \in Nat /\ b \in Nat /\ 1 \in Int /\ a + 1 \in Int /\ b \in Int
  OBVIOUS
<1>2. \A k \in (a + 1)..b : s[k] \in C
  OBVIOUS
<1>3. /\ SubSeq(s, a + 1, b) \in Seq(C)
      /\ Len(SubSeq(s, a + 1, b)) = IF a + 1 <= b THEN b - (a + 1) + 1 ELSE 0
      /\ \A k \in 1..(b - (a + 1) + 1) : SubSeq(s, a + 1, b)[k] = s[(a + 1) + k - 1]
  BY <1>1, <1>2, SubSeqProperties
<1>4. t = SubSeq(s, a + 1, b)
  <2> DEFINE u == SubSeq(s, a + 1, b)
  <2>1. Len(u) = Len(t) /\ u \in Seq(C)
    BY <1>3
  <2>2. \A k \in 1..Len(t) : t[k] = u[k]
    BY <1>3
  <2> HIDE DEF u
  <2> QED BY <2>1, <2>2, SeqEqual
<1>5. <<s[a]>> \o t = SubSeq(s, a, b)
  BY <1>4, SubSeqRecursiveFirst
<1>6. /\ 1 \in 1..(Len(s) + 1) /\ a - 1 \in (1 - 1)..Len(s) /\ b \in (a - 1)..Len(s)
      /\ (a - 1) + 1 = a
  BY <1>1
<1>7. SubSeq(s, 1, a - 1) \o SubSeq(s, (a - 1) + 1, b) = SubSeq(s, 1, b)
  BY <1>6, ConcatAdjacentSubSeq
<1> QED BY <1>5, <1>6, <1>7

----------------------------------------------------------------------------
(* The layout of the buffer.                                               *)

LEMMA Product ==
  ASSUME NEW a \in Nat, NEW b \in Nat, a <= b, NEW c \in Nat
  PROVE  a * c \in Nat /\ b * c \in Nat /\ a * c <= b * c
<1>1. a * c \in Nat /\ b * c \in Nat /\ (b - a) * c \in Nat
  OBVIOUS
<1>2. b * c = a * c + (b - a) * c
  OBVIOUS
<1> QED BY <1>1, <1>2

\* The strings begin after the pointers, and end in the part of the buffer that is
\* looked at and less than a pointer after what was allocated.
LEMMA Layout ==
  ASSUME fw \in Machines, NEW len, len = BaseLength, NEW count, count = Cardinality(Underscores)
  PROVE  /\ len \in Nat /\ count \in Nat /\ len <= isa_len
         /\ MATH_ALIGN_UP(len + 1, POINTER) \in Nat /\ len + 1 <= MATH_ALIGN_UP(len + 1, POINTER)
         /\ FirstString(len, count) = MATH_ALIGN_UP(len + 1, POINTER) + (count + 1) * POINTER
         /\ FirstString(len, count) \in Nat
         /\ FirstString(len, count) + (isa_len - len) <= MaxOffset
         /\ FirstString(len, count) + (isa_len - len)
              < MATH_ALIGN_UP(isa_len + 1 + (count + 1) * POINTER, PTM_PAGE_GRANULARITY) + POINTER
<1>1. isa_len \in Nat /\ isa_len + (isa_len + 2) * POINTER <= MaxOffset /\ MaxOffset \in Nat
      /\ POINTER \in Nat \ {0} /\ PTM_PAGE_GRANULARITY \in Nat \ {0}
  BY StringFacts, PlatformAssumption
<1>2. len \in Nat /\ count \in 0..isa_len
  BY UnderscoreFacts
<1>3. len <= isa_len
  <2>1. CASE isa_len > 0
    BY <1>1, <1>2, <2>1, UnderscoreFacts
  <2>2. CASE isa_len = 0
    <3>1. Underscores = {}
      BY <2>2, UnderscoreFacts
    <3>2. len = 0
      BY <3>1 DEF BaseLength
    <3> QED BY <2>2, <3>2
  <2> QED BY <1>1, <2>1, <2>2
<1> DEFINE e == MATH_ALIGN_UP(len + 1, POINTER)
           q == (count + 1) * POINTER
<1>4. e \in Nat /\ len + 1 <= e /\ e < len + 1 + POINTER
  <2>1. len + 1 \in Nat
    BY <1>2
  <2> QED BY <1>1, <2>1, AlignUp
<1>5. q \in Nat /\ q <= (isa_len + 1) * POINTER /\ (isa_len + 1) * POINTER \in Nat
  <2>1. count + 1 \in Nat /\ isa_len + 1 \in Nat /\ count + 1 <= isa_len + 1
    BY <1>1, <1>2
  <2> QED BY <1>1, <2>1, Product
<1>6. (isa_len + 2) * POINTER = (isa_len + 1) * POINTER + POINTER
  BY <1>1
<1>7. FirstString(len, count) = e + q
  BY DEF FirstString
<1>8. isa_len + 1 + q <= MATH_ALIGN_UP(isa_len + 1 + q, PTM_PAGE_GRANULARITY)
      /\ MATH_ALIGN_UP(isa_len + 1 + q, PTM_PAGE_GRANULARITY) \in Nat
  <2> HIDE DEF q
  <2>1. isa_len + 1 + q \in Nat
    BY <1>1, <1>5
  <2> QED BY <1>1, <2>1, AlignUp
<1>9. /\ e + q \in Nat /\ e + q + (isa_len - len) <= MaxOffset
      /\ e + q + (isa_len - len) < MATH_ALIGN_UP(isa_len + 1 + q, PTM_PAGE_GRANULARITY) + POINTER
  <2> HIDE DEF q, e
  <2> DEFINE r == (isa_len + 1) * POINTER
             y == MATH_ALIGN_UP(isa_len + 1 + q, PTM_PAGE_GRANULARITY)
  <2>1. r \in Nat /\ q <= r /\ isa_len + r + POINTER <= MaxOffset /\ y \in Nat /\ isa_len + 1 + q <= y
    BY <1>1, <1>5, <1>6, <1>8
  <2> HIDE DEF r, y
  <2>2. e + q + (isa_len - len) <= isa_len + POINTER + q
    BY <1>1, <1>2, <1>3, <1>4, <1>5
  <2>3. e + q + (isa_len - len) <= MaxOffset /\ e + q + (isa_len - len) < y + POINTER /\ e + q \in Nat
    BY <1>1, <1>2, <1>3, <1>4, <1>5, <2>1, <2>2
  <2> QED BY <2>3 DEF y
<1> QED BY <1>2, <1>3, <1>4, <1>7, <1>9

----------------------------------------------------------------------------
(* The steps.                                                              *)

\* Everything that is known, of one state.
ParseInv == ParserTypes /\ PlaceInv /\ ContentInv

\* The string stays what it is.
LEMMA FirmwareKept ==
  ASSUME fw' = fw
  PROVE  /\ isa_string' = isa_string /\ isa_len' = isa_len
         /\ Underscores' = Underscores /\ BaseLength' = BaseLength /\ Published' = Published
<1>1. isa_string' = isa_string /\ isa_len' = isa_len
  BY DEF isa_string, isa_len
<1>2. Underscores' = Underscores
  BY <1>1 DEF Underscores, At
<1> QED BY <1>1, <1>2 DEF BaseLength, Published

\* What the kernel reads, before and after a step.
LEMMA Reading ==
  /\ ReadBack = Found(buffer, 0) \o FlattenSeq(Pieces(buffer, pointers, ext_index))
  /\ ReadBack' = Found(buffer', 0) \o FlattenSeq(Pieces(buffer', pointers', ext_index'))
BY DEF StringAt, Found, ReadBack, Pieces

\* Buffer c is b with n characters of the string, from one offset, copied to another.
Copied(c, b, to, from, n) ==
    /\ c[to + n] = "NUL"
    /\ \A x \in 0..(n - 1) : c[to + x] = At(from + x)
    /\ \A o \in 0..MaxOffset : o < to \/ to + n < o => c[o] = b[o]

LEMMA StoredCopies ==
  ASSUME NEW b, NEW to \in Nat, NEW from \in Nat, NEW n \in Nat, to + n <= MaxOffset
  PROVE  Copied(Stored(b, to, from, n), b, to, from, n)
<1> DEFINE c == Stored(b, to, from, n)
<1>0. MaxOffset \in Nat
  BY PlatformAssumption
<1>1. \A o \in 0..MaxOffset : c[o] = IF o = to + n THEN "NUL"
         ELSE IF o \in to..(to + n - 1) THEN At(from + o - to) ELSE b[o]
  BY DEF Stored
<1> HIDE DEF c
<1>2. to + n \in 0..MaxOffset
  BY <1>0
<1>3. ASSUME NEW x \in 0..(n - 1) PROVE c[to + x] = At(from + x)
  <2>1. /\ from + (to + x) - to = from + x /\ to + x # to + n /\ to + x \in to..(to + n - 1)
        /\ to + x \in 0..MaxOffset
    BY <1>0
  <2> QED BY <1>1, <2>1
<1>4. ASSUME NEW o \in 0..MaxOffset, o < to \/ to + n < o PROVE c[o] = b[o]
  <2>1. o # to + n /\ o \notin to..(to + n - 1)
    BY <1>4
  <2> QED BY <1>1, <2>1
<1>5. c[to + n] = "NUL"
  BY <1>1, <1>2
<1> QED BY <1>3, <1>4, <1>5 DEF Copied, c

\* Up to the loop.
LEMMA StartStep ==
  ASSUME ParserTypes, StartParse
  PROVE  ParserTypes' /\ PlaceInv' /\ ContentInv'
<1> DEFINE len == BaseLength
           count == Cardinality(Underscores)
<1>1. /\ fw \in Machines /\ fw' = fw /\ ext_index = 0 /\ ext_index' = 0
      /\ pointers' = pointers /\ pointers \in Seq(Nat) /\ Len(pointers) = 0
      /\ extention_count' = count /\ isa_string_len' = len
      /\ cursor' = FirstString(len, count) /\ buffer' = Stored(buffer, 0, 0, len)
      /\ p' = len + 1
      /\ isa_len = 0 => pc' \in {"wild", "done"}
      /\ isa_len # 0 => pc' = "loop"
  BY DEF ParserTypes, StartParse
<1>2. /\ isa_string' = isa_string /\ isa_len' = isa_len
      /\ Underscores' = Underscores /\ BaseLength' = BaseLength /\ Published' = Published
  BY <1>1, FirmwareKept
<1>3. /\ len \in Nat /\ count \in Nat /\ len <= isa_len
      /\ FirstString(len, count) \in Nat
      /\ FirstString(len, count) + (isa_len - len) <= MaxOffset
      /\ FirstString(len, count) + (isa_len - len)
           < MATH_ALIGN_UP(isa_len + 1 + (count + 1) * POINTER, PTM_PAGE_GRANULARITY) + POINTER
      /\ MATH_ALIGN_UP(len + 1, POINTER) \in Nat /\ len + 1 <= MATH_ALIGN_UP(len + 1, POINTER)
  BY <1>1, Layout
<1>4. isa_len \in Nat /\ MaxOffset \in Nat
  BY <1>1, StringFacts, PlatformAssumption
<1>5. First' = FirstString(len, count)
  BY <1>1 DEF First, FirstString, MATH_ALIGN_UP
<1>6. info_size' = MATH_ALIGN_UP(isa_len + 1 + (count + 1) * POINTER, PTM_PAGE_GRANULARITY)
  BY <1>1, <1>2 DEF info_size, MATH_ALIGN_UP
<1>7. ParserTypes'
  <2>1. DOMAIN buffer' = 0..MaxOffset
    BY <1>1 DEF Stored
  <2>2. p' \in Nat
    BY <1>1, <1>3
  <2> QED BY <1>1, <1>3, <2>1, <2>2 DEF ParserTypes
<1>8. OverrunBounded'
  <2>1. cursor' < info_size' + POINTER
    <3> DEFINE f == FirstString(len, count)
               w == info_size' + POINTER
    <3>1. f \in Nat /\ f + (isa_len - len) < w /\ cursor' = f
      BY <1>1, <1>3, <1>6, SMTT(20)
    <3>2. w \in Int
      <4>1. /\ POINTER \in Nat \ {0} /\ PTM_PAGE_GRANULARITY \in Nat \ {0}
            /\ isa_len + 1 + (count + 1) * POINTER \in Nat
        BY <1>3, <1>4, PlatformAssumption
      <4>2. info_size' \in Nat
        BY <4>1, <1>6, AlignUp
      <4> QED BY <4>1, <4>2
    <3> HIDE DEF f, w, len
    <3>3. f <= f + (isa_len - len)
      BY <1>3, <1>4, <3>1
    <3>4. f < w
      BY <1>3, <1>4, <3>1, <3>2, <3>3
    <3> QED BY <3>1, <3>4 DEF w
  <2> QED BY <2>1 DEF OverrunBounded
<1>9. CASE isa_len = 0
  <2>1. ~Parsing' /\ pc' # "loop"
    BY <1>1, <1>2, <1>9 DEF Parsing
  <2>2. ~(pc' = "done" /\ isa_len' > 0)
    BY <1>2, <1>9
  <2> QED BY <1>7, <1>8, <2>1, <2>2 DEF PlaceInv, ContentInv
<1>10. CASE isa_len # 0
  <2>0. isa_len > 0 /\ pc' = "loop"
    BY <1>1, <1>4, <1>10
  <2>1. len < isa_len
    BY <1>1, <2>0, UnderscoreFacts
  <2>2. /\ Published \in Seq(Characters) /\ Len(Published) = isa_len
        /\ Published[len + 1] = Underscore
        /\ \A k \in 1..isa_len : k # len + 1 => Published[k] = isa_string[k]
    BY <1>1, <2>0, PublishedFacts
  <2>3. PlaceInv'
    <3>1. Cardinality(Passed') >= 0
      <4>1. Passed' \subseteq Underscores
        BY <1>2 DEF Passed
      <4>2. IsFiniteSet(Passed')
        BY <1>1, <4>1, UnderscoreFacts, FS_Subset
      <4>3. Cardinality(Passed') \in Nat
        BY <4>2, FS_CardinalityType
      <4> QED BY <4>3
    <3>2. len < p' /\ p' <= isa_len /\ cursor' = First' + (p' - (len + 1))
      BY <1>1, <1>3, <1>4, <1>5, <2>1
    <3>3. Published'[p'] = Underscore
      BY <1>1, <1>2, <2>2
    <3> QED BY <1>1, <1>2, <1>8, <2>0, <2>1, <3>1, <3>2, <3>3, Zenon DEF PlaceInv
  <2>4. len <= MaxOffset
    <3>1. isa_len + (isa_len + 2) * POINTER <= MaxOffset /\ (isa_len + 2) * POINTER \in Nat
      BY <1>1, <1>4, StringFacts, PlatformAssumption
    <3> HIDE DEF len
    <3> QED BY <1>3, <1>4, <3>1
  <2>5. buffer'[len] = "NUL" /\ \A o \in 0..(len - 1) : buffer'[o] = At(o)
    <3>0. PICK z \in Nat : z = 0
      OBVIOUS
    <3>1. buffer' = Stored(buffer, z, z, len)
      BY <1>1, <3>0
    <3> HIDE DEF len
    <3>2. z + len <= MaxOffset
      BY <1>3, <2>4, <3>0
    <3>3. Copied(buffer', buffer, z, z, len)
      BY <1>3, <3>1, <3>2, StoredCopies
    <3>4. buffer'[z + len] = "NUL" /\ \A o \in 0..(len - 1) : buffer'[z + o] = At(z + o)
      BY <3>3 DEF Copied
    <3> QED BY <1>3, <3>0, <3>4
  <2>6. \A o \in 0..(len - 1) : buffer'[o] = isa_string[o + 1] /\ buffer'[o] \in Characters
                               /\ buffer'[o] # "NUL"
    <3> TAKE o \in 0..(len - 1)
    <3>1. o \in 0..MaxOffset /\ o # len /\ o \in 0..(isa_len - 1)
      BY <1>3, <1>4, <2>4
    <3>2. buffer'[o] = At(o)
      BY <2>5
    <3>3. At(o) = isa_string[o + 1] /\ At(o) # "NUL"
      BY <1>1, <3>1, StringFacts
    <3>4. isa_string[o + 1] \in Characters
      <4>1. isa_string \in Seq(Characters) /\ Len(isa_string) = isa_len /\ o + 1 \in 1..isa_len
        BY <1>1, <1>4, <3>1, StringFacts
      <4> QED BY <4>1
    <3> QED BY <3>2, <3>3, <3>4
  <2>7. Found(buffer', 0) = Text(buffer', 0, len)
    <3>1. EndsAfter(buffer', 0, len)
      BY <1>3, <1>4, <2>4, <2>5, <2>6 DEF EndsAfter
    <3> QED BY <1>3, <3>1, StringFound
  <2>8. /\ Text(buffer', 0, len) \in Seq(Characters) /\ Len(Text(buffer', 0, len)) = len
        /\ \A k \in 1..len : Text(buffer', 0, len)[k] = isa_string[k]
    <3>1. \A k \in 1..len : 0 + k - 1 = k - 1 /\ k - 1 \in 0..(len - 1) /\ (k - 1) + 1 = k
      BY <1>3
    <3>2. \A k \in 1..len : buffer'[0 + k - 1] \in Characters
      BY <2>6, <3>1
    <3> DEFINE s == Text(buffer', 0, len)
    <3>3. s \in Seq(Characters) /\ Len(s) = len
      BY <1>3, <3>2 DEF Text
    <3>4. \A k \in 1..len : s[k] = buffer'[0 + k - 1]
      BY DEF Text
    <3> HIDE DEF s
    <3>5. \A k \in 1..len : s[k] = isa_string[k]
      BY <2>6, <3>1, <3>4
    <3> QED BY <3>3, <3>5 DEF s
  <2>9. ReadBack' = SubSeq(Published, 1, len)
    <3>1. ReadBack' = Text(buffer', 0, len) \o FlattenSeq(Pieces(buffer', pointers', 0))
      BY <1>1, <2>7, Reading
    <3>2. Pieces(buffer', pointers', 0) = <<>>
      BY DEF Pieces
    <3>3. FlattenSeq(<<>>) = <<>>
      BY DEF FlattenSeq
    <3>4. ReadBack' = Text(buffer', 0, len)
      BY <3>1, <3>2, <3>3, <2>8, ConcatEmptySeq
    <3>5. /\ SubSeq(Published, 1, len) \in Seq(Characters)
          /\ Len(SubSeq(Published, 1, len)) = len
          /\ \A k \in 1..len : SubSeq(Published, 1, len)[k] = Published[k]
      <4>1. \A k \in 1..len : Published[k] \in Characters
        BY <1>3, <1>4, <2>1, <2>2
      <4>2. 1 \in Int /\ len \in Int
        BY <1>3
      <4>3. /\ SubSeq(Published, 1, len) \in Seq(Characters)
            /\ Len(SubSeq(Published, 1, len)) = IF 1 <= len THEN len - 1 + 1 ELSE 0
            /\ \A k \in 1..(len - 1 + 1) : SubSeq(Published, 1, len)[k] = Published[1 + k - 1]
        BY <4>1, <4>2, SubSeqProperties
      <4> HIDE DEF len
      <4> QED BY <1>3, <4>3
    <3>6. \A k \in 1..len : Text(buffer', 0, len)[k] = SubSeq(Published, 1, len)[k]
      <4> TAKE k \in 1..len
      <4>1. k \in 1..isa_len /\ k # len + 1
        BY <1>3, <1>4
      <4>2. Published[k] = isa_string[k]
        BY <2>2, <4>1
      <4>3. Text(buffer', 0, len)[k] = isa_string[k]
        BY <2>8
      <4>4. SubSeq(Published, 1, len)[k] = Published[k]
        BY <3>5
      <4> QED BY <4>2, <4>3, <4>4
    <3> QED BY <2>8, <3>4, <3>5, <3>6, SeqEqual
  <2>10. ContentInv'
    <3>1. buffer'[isa_string_len'] = "NUL"
      BY <1>1, <1>3, <1>4, <2>4, <2>5
    <3>2. \A o \in extensions'..(extensions' + ext_index' * POINTER - 1) : FALSE
      <4>1. extensions' \in Nat
        BY <1>1, <1>3 DEF extensions, MATH_ALIGN_UP
      <4>2. ext_index' * POINTER = 0
        BY <1>1, PlatformAssumption
      <4> HIDE DEF len
      <4> QED BY <4>1, <4>2
    <3>3. \A k \in 1..ext_index' : FALSE
      BY <1>1
    <3>4. Found(buffer', 0) \in Seq(Characters)
      BY <2>7, <2>8
    <3>5. p' - 1 = len
      BY <1>1, <1>3
    <3> HIDE DEF len
    <3> QED BY <1>2, <2>0, <2>9, <3>1, <3>2, <3>3, <3>4, <3>5, Zenon DEF ContentInv, Found
  <2> QED BY <1>7, <2>3, <2>10
<1> QED BY <1>9, <1>10

\* What the loop knows before an iteration.
LEMMA LoopFacts ==
  ASSUME ParserTypes, PlaceInv, pc = "loop"
  PROVE  /\ isa_len \in Nat /\ MaxOffset \in Nat /\ POINTER \in Nat \ {0}
         /\ isa_string_len = BaseLength /\ isa_string_len \in Nat /\ isa_string_len < p
         /\ p \in Nat /\ p <= isa_len /\ isa_len > 0
         /\ cursor = First + (p - (isa_string_len + 1)) /\ cursor \in Nat /\ First \in Nat
         /\ extensions \in Nat /\ isa_string_len + 1 <= extensions
         /\ First = extensions + (extention_count + 1) * POINTER /\ extention_count \in Nat
         /\ First + (isa_len - isa_string_len) <= MaxOffset
         /\ First + (isa_len - isa_string_len) < info_size + POINTER /\ info_size \in Nat
         /\ ext_index \in Nat /\ ext_index <= Cardinality(Passed)
         /\ Cardinality(Passed) \in Nat /\ Cardinality(Passed) <= extention_count
         /\ IsFiniteSet(Passed)
<1>1. /\ fw \in Machines /\ isa_string_len = BaseLength
      /\ extention_count = Cardinality(Underscores) /\ isa_string_len < isa_len
      /\ isa_string_len < p /\ p <= isa_len
      /\ cursor = First + (p - (isa_string_len + 1)) /\ ext_index <= Cardinality(Passed)
      /\ p \in Nat /\ cursor \in Nat /\ ext_index \in Nat
  BY DEF ParserTypes, PlaceInv, Parsing
<1>2. isa_len \in Nat /\ MaxOffset \in Nat /\ POINTER \in Nat \ {0} /\ PTM_PAGE_GRANULARITY \in Nat \ {0}
  BY <1>1, StringFacts, PlatformAssumption
<1>3. /\ isa_string_len \in Nat /\ extention_count \in Nat
      /\ extensions \in Nat /\ isa_string_len + 1 <= extensions
      /\ First = extensions + (extention_count + 1) * POINTER /\ First \in Nat
      /\ First + (isa_len - isa_string_len) <= MaxOffset
      /\ First + (isa_len - isa_string_len) < info_size + POINTER
  BY <1>1, Layout DEF First, extensions, info_size
<1>4. info_size \in Nat
  <2>1. isa_len + 1 + (extention_count + 1) * POINTER \in Nat
    BY <1>2, <1>3
  <2> QED BY <1>2, <2>1, AlignUp DEF info_size
<1>5. IsFiniteSet(Passed) /\ Cardinality(Passed) <= Cardinality(Underscores)
  <2>1. Passed \subseteq Underscores /\ IsFiniteSet(Underscores)
    BY <1>1, UnderscoreFacts DEF Passed
  <2> QED BY <2>1, FS_Subset
<1>6. Cardinality(Passed) \in Nat
  BY <1>5, FS_CardinalityType
<1>7. isa_len > 0
  BY <1>1, <1>2, <1>3
<1> QED BY <1>1, <1>2, <1>3, <1>4, <1>5, <1>6, <1>7

\* The end of the string: the underscore before it is not read back.
LEMMA EndStep ==
  ASSUME ParserTypes, PlaceInv, ContentInv, EndParse
  PROVE  ParserTypes' /\ PlaceInv' /\ ContentInv'
<1>1. /\ pc = "loop" /\ pc' = "done" /\ At(p) = "NUL" /\ UNCHANGED <<fw, parser>>
      /\ fw \in Machines
  BY DEF EndParse, ParserTypes
<1>2. UNCHANGED <<fw, isa_string_len, extention_count, buffer, cursor, p, ext_index, pointers>>
  BY <1>1 DEF parser
<1>3. /\ isa_string' = isa_string /\ isa_len' = isa_len
      /\ Underscores' = Underscores /\ BaseLength' = BaseLength /\ Published' = Published
  BY <1>1, FirmwareKept
<1>4. First' = First /\ extensions' = extensions /\ info_size' = info_size /\ ReadBack' = ReadBack
  <2>1. extensions' = extensions /\ First' = First
    BY <1>2 DEF extensions, MATH_ALIGN_UP, First, FirstString
  <2>2. info_size' = info_size
    BY <1>2, <1>3 DEF info_size, MATH_ALIGN_UP
  <2>3. ReadBack' = ReadBack
    BY <1>2, Reading
  <2> QED BY <2>1, <2>2, <2>3
<1>5. p = isa_len
  <2>1. p \in Nat /\ p <= isa_len /\ isa_len \in Nat
    BY <1>1, LoopFacts
  <2>2. ~(p \in 0..(isa_len - 1))
    BY <1>1, StringFacts
  <2> QED BY <2>1, <2>2
<1>6. Parsing /\ (Parsing' <=> isa_len > 0) /\ isa_len > 0
  <2>1. isa_len > 0
    BY <1>1, LoopFacts
  <2> QED BY <1>1, <1>3, <2>1 DEF Parsing
<1>7. ParserTypes'
  BY <1>1, <1>2 DEF ParserTypes
<1>8. PlaceInv'
  <2>1. cursor' <= First' + (isa_len' - isa_string_len')
    BY <1>1, <1>2, <1>3, <1>4, <1>5, LoopFacts
  <2>2. ext_index' <= extention_count' + 1
    BY <1>1, <1>2, LoopFacts
  <2>3. OverrunBounded'
    <3>1. cursor < info_size + POINTER
      BY <1>1, <1>5, LoopFacts
    <3> QED BY <1>2, <1>4, <3>1 DEF OverrunBounded
  <2>4. /\ isa_string_len' = BaseLength' /\ extention_count' = Cardinality(Underscores')
        /\ isa_string_len' < isa_len'
    BY <1>2, <1>3, <1>6 DEF PlaceInv
  <2>5. pc' # "loop"
    BY <1>1
  <2> QED BY <2>1, <2>2, <2>3, <2>4, <2>5, Zenon DEF PlaceInv
<1>9. ContentInv'
  <2>1. ReadBack = WithoutLast(Published)
    <3>1. ReadBack = SubSeq(Published, 1, isa_len - 1) /\ Published[isa_len] = Underscore
      BY <1>1, <1>5, <1>6 DEF ContentInv, PlaceInv
    <3>2. Published \in Seq(Characters) /\ Len(Published) = isa_len
      BY <1>1, <1>6, PublishedFacts
    <3>3. Published # <<>>
      BY <1>6, <3>2
    <3> QED BY <3>1, <3>2, <3>3, Zenon DEF WithoutLast
  <2>2. pc' # "loop"
    BY <1>1
  <2>3. ReadBack' = WithoutLast(Published')
    BY <1>3, <1>4, <2>1
  <2>4. /\ buffer[isa_string_len] = "NUL"
        /\ \A o \in extensions..(extensions + ext_index * POINTER - 1) : buffer[o] = "pointer"
        /\ \A k \in 1..ext_index :
              /\ First <= pointers[k]
              /\ \E e \in pointers[k]..(cursor - 1) : e <= MaxOffset /\ buffer[e] = "NUL"
        /\ Found(buffer, 0) \in Seq(Characters)
        /\ \A k \in 1..ext_index : Found(buffer, pointers[k]) \in Seq(Characters)
    BY <1>6, Zenon DEF ContentInv
  <2>5. /\ buffer'[isa_string_len'] = "NUL"
        /\ \A o \in extensions'..(extensions' + ext_index' * POINTER - 1) : buffer'[o] = "pointer"
        /\ \A k \in 1..ext_index' :
              /\ First' <= pointers'[k]
              /\ \E e \in pointers'[k]..(cursor' - 1) : e <= MaxOffset /\ buffer'[e] = "NUL"
        /\ Found(buffer', 0) \in Seq(Characters)
        /\ \A k \in 1..ext_index' : Found(buffer', pointers'[k]) \in Seq(Characters)
    BY <1>2, <1>4, <2>4
  <2> QED BY <2>2, <2>3, <2>5, Zenon DEF ContentInv, Found
<1> QED BY <1>7, <1>8, <1>9

\* The strings of an iteration: what was there stays, and the next one is the part of
\* the string up to the next underscore.
LEMMA CopyStrings ==
  ASSUME ParserTypes, PlaceInv, ContentInv, CopyExtension
  PROVE  /\ NextEnd \in p..isa_len /\ p < isa_len
         /\ buffer'[isa_string_len] = "NUL"
         /\ \A o \in extensions..(extensions + (ext_index + 1) * POINTER - 1) :
               buffer'[o] = "pointer"
         /\ \A k \in 1..ext_index : \A e \in pointers[k]..(cursor - 1) :
               e <= MaxOffset /\ buffer[e] = "NUL" =>
                   buffer'[e] = "NUL" /\ Found(buffer', pointers[k]) = Found(buffer, pointers[k])
         /\ cursor + (NextEnd - p) <= MaxOffset /\ buffer'[cursor + (NextEnd - p)] = "NUL"
         /\ Found(buffer', 0) = Found(buffer, 0)
         /\ Found(buffer', cursor) \in Seq(Characters)
         /\ Len(Found(buffer', cursor)) = NextEnd - p
         /\ \A k \in 1..(NextEnd - p) : Found(buffer', cursor)[k] = Published[p + k]
<1> DEFINE end == NextEnd
           slot == extensions + ext_index * POINTER
           last == slot + POINTER - 1
           b == [o \in 0..MaxOffset |-> IF o \in slot..last THEN "pointer" ELSE buffer[o]]
<1>1. /\ pc = "loop" /\ At(p) # "NUL" /\ fw \in Machines
      /\ buffer' = Stored(b, cursor, p, end - p)
  BY DEF CopyExtension, ParserTypes
<1>2. /\ isa_len \in Nat /\ MaxOffset \in Nat /\ POINTER \in Nat \ {0}
      /\ isa_string_len = BaseLength /\ isa_string_len \in Nat /\ isa_string_len < p
      /\ p \in Nat /\ p <= isa_len /\ isa_len > 0
      /\ cursor = First + (p - (isa_string_len + 1)) /\ cursor \in Nat /\ First \in Nat
      /\ extensions \in Nat /\ isa_string_len + 1 <= extensions
      /\ First = extensions + (extention_count + 1) * POINTER /\ extention_count \in Nat
      /\ First + (isa_len - isa_string_len) <= MaxOffset
      /\ ext_index \in Nat /\ ext_index <= extention_count
  <2>1. /\ ext_index \in Nat /\ ext_index <= Cardinality(Passed)
        /\ Cardinality(Passed) \in Nat /\ Cardinality(Passed) <= extention_count
        /\ extention_count \in Nat
    BY <1>1, LoopFacts
  <2>2. ext_index <= extention_count
    BY <2>1
  <2> QED BY <1>1, <2>1, <2>2, LoopFacts
<1>3. p < isa_len
  <2>1. p # isa_len
    BY <1>1, StringFacts
  <2> QED BY <1>2, <2>1
<1>4. end \in p..isa_len /\ end \in Nat /\ end - p \in Nat
      /\ \A o \in p..(end - 1) : At(o) # "NUL"
  <2>1. end \in p..isa_len /\ \A o \in p..(end - 1) : At(o) # "NUL"
    BY <1>1, <1>2, NextEndFacts
  <2> HIDE DEF end
  <2> QED BY <1>2, <2>1
<1> HIDE DEF end
<1>5. /\ slot \in Nat /\ extensions <= slot /\ last + 1 <= First /\ last \in Nat /\ slot <= last
      /\ extensions + (ext_index + 1) * POINTER - 1 = last
  <2>1. ext_index * POINTER \in Nat /\ (ext_index + 1) * POINTER = ext_index * POINTER + POINTER
    BY <1>2
  <2>2. (ext_index + 1) * POINTER <= (extention_count + 1) * POINTER
        /\ (extention_count + 1) * POINTER \in Nat
    <3>1. ext_index + 1 \in Nat /\ extention_count + 1 \in Nat /\ ext_index + 1 <= extention_count + 1
      BY <1>2
    <3> QED BY <1>2, <3>1, Product
  <2> DEFINE u == ext_index * POINTER
             v == (extention_count + 1) * POINTER
             w == (ext_index + 1) * POINTER
  <2>3. u \in Nat /\ v \in Nat /\ w = u + POINTER /\ w <= v /\ First = extensions + v
    BY <1>2, <2>1, <2>2
  <2>4. slot = extensions + u
    OBVIOUS
  <2> HIDE DEF u, v, w, slot
  <2>5. /\ slot \in Nat /\ extensions <= slot /\ last + 1 <= First /\ last \in Nat /\ slot <= last
        /\ extensions + w - 1 = last
    BY <1>2, <2>3, <2>4
  <2> QED BY <2>5 DEF w
<1> HIDE DEF slot, last
<1>6. cursor + (end - p) <= MaxOffset /\ First <= cursor /\ isa_string_len < slot
  BY <1>2, <1>4, <1>5
<1>7. Copied(buffer', b, cursor, p, end - p)
  <2> HIDE DEF b
  <2> QED BY <1>1, <1>2, <1>4, <1>6, StoredCopies
<1>8. \A o \in 0..MaxOffset : b[o] = IF o \in slot..last THEN "pointer" ELSE buffer[o]
  OBVIOUS
<1> HIDE DEF b
<1>9. \A o \in 0..MaxOffset : o < cursor /\ (o < slot \/ last < o) => buffer'[o] = buffer[o]
  BY <1>2, <1>4, <1>5, <1>7, <1>8 DEF Copied
<1>10. \A o \in slot..last : buffer'[o] = "pointer"
  <2> TAKE o \in slot..last
  <2>1. o \in 0..MaxOffset /\ o < cursor
    BY <1>2, <1>3, <1>4, <1>5, <1>6
  <2> QED BY <1>7, <1>8, <2>1 DEF Copied
<1>11. buffer'[cursor + (end - p)] = "NUL"
  BY <1>7 DEF Copied
<1>12. Parsing
  BY <1>1 DEF Parsing
<1>13. /\ buffer[isa_string_len] = "NUL"
       /\ \A o \in extensions..(extensions + ext_index * POINTER - 1) : buffer[o] = "pointer"
       /\ \A k \in 1..ext_index : First <= pointers[k] /\ pointers[k] \in Nat
  <2>1. /\ buffer[isa_string_len] = "NUL"
        /\ \A o \in extensions..(extensions + ext_index * POINTER - 1) : buffer[o] = "pointer"
        /\ \A k \in 1..ext_index : First <= pointers[k]
    BY <1>12, Zenon DEF ContentInv
  <2>2. \A k \in 1..ext_index : pointers[k] \in Nat
    BY DEF ParserTypes
  <2> QED BY <2>1, <2>2
<1>14. \A o \in 0..isa_string_len : o \in 0..MaxOffset /\ buffer'[o] = buffer[o]
  <2> TAKE o \in 0..isa_string_len
  <2>1. o \in 0..MaxOffset /\ o < cursor /\ o < slot
    BY <1>2, <1>4, <1>5, <1>6
  <2> QED BY <1>9, <2>1
<1>15. buffer'[isa_string_len] = "NUL" /\ Found(buffer', 0) = Found(buffer, 0)
  <2>1. isa_string_len \in 0..isa_string_len /\ isa_string_len \in 0..MaxOffset
    BY <1>2, <1>14
  <2> QED BY <1>13, <1>14, <2>1, FoundAgain
<1>16. \A o \in extensions..last : buffer'[o] = "pointer"
  <2> TAKE o \in extensions..last
  <2>1. CASE o >= slot
    BY <1>2, <1>5, <1>10, <2>1
  <2>2. CASE o < slot
    <3>1. buffer[o] = "pointer"
      BY <1>2, <1>5, <1>13, <2>2 DEF slot
    <3>2. o \in 0..MaxOffset /\ o < cursor
      BY <1>2, <1>4, <1>5, <1>6, <2>2
    <3> QED BY <1>9, <2>2, <3>1, <3>2
  <2> QED BY <1>2, <1>5, <2>1, <2>2
<1>17. ASSUME NEW k \in 1..ext_index, NEW e \in pointers[k]..(cursor - 1),
              e <= MaxOffset, buffer[e] = "NUL"
       PROVE  buffer'[e] = "NUL" /\ Found(buffer', pointers[k]) = Found(buffer, pointers[k])
  <2>1. pointers[k] \in Nat /\ First <= pointers[k]
    BY <1>13
  <2>2. e \in pointers[k]..MaxOffset /\ e \in pointers[k]..e
    BY <1>2, <1>17, <2>1
  <2>3. \A x \in pointers[k]..e : buffer'[x] = buffer[x]
    <3> TAKE x \in pointers[k]..e
    <3>1. x \in 0..MaxOffset /\ x < cursor /\ last < x
      BY <1>2, <1>5, <1>17, <2>1
    <3> QED BY <1>9, <3>1
  <2> QED BY <1>17, <2>1, <2>2, <2>3, FoundAgain
<1>18. \A x \in 0..((end - p) - 1) :
          buffer'[cursor + x] = isa_string[p + x + 1] /\ buffer'[cursor + x] # "NUL"
  <2> TAKE x \in 0..((end - p) - 1)
  <2>1. p + x \in p..(end - 1) /\ p + x \in 0..(isa_len - 1)
    BY <1>2, <1>4
  <2>2. buffer'[cursor + x] = At(p + x)
    BY <1>7 DEF Copied
  <2>3. At(p + x) = isa_string[(p + x) + 1] /\ At(p + x) # "NUL"
    BY <1>1, <2>1, StringFacts
  <2> QED BY <2>2, <2>3
<1>19. Found(buffer', cursor) = Text(buffer', cursor, end - p)
  <2>1. \A x \in cursor..(cursor + (end - p) - 1) : buffer'[x] # "NUL"
    <3> TAKE x \in cursor..(cursor + (end - p) - 1)
    <3>1. x - cursor \in 0..((end - p) - 1) /\ cursor + (x - cursor) = x
      BY <1>2, <1>4
    <3> QED BY <1>18, <3>1
  <2>2. EndsAfter(buffer', cursor, end - p)
    BY <1>6, <1>11, <2>1 DEF EndsAfter
  <2> QED BY <1>2, <1>4, <2>2, StringFound
<1>20. \A k \in 1..(end - p) : buffer'[cursor + k - 1] = Published[p + k]
                               /\ buffer'[cursor + k - 1] \in Characters
  <2> TAKE k \in 1..(end - p)
  <2>1. /\ k - 1 \in 0..((end - p) - 1) /\ cursor + (k - 1) = cursor + k - 1
        /\ p + (k - 1) + 1 = p + k /\ p + k \in 1..isa_len /\ p + k # isa_string_len + 1
    BY <1>2, <1>4
  <2>2. buffer'[cursor + k - 1] = isa_string[p + k]
    BY <1>18, <2>1
  <2>3. /\ Published \in Seq(Characters) /\ Len(Published) = isa_len
        /\ Published[p + k] = isa_string[p + k]
    BY <1>1, <1>2, <2>1, PublishedFacts
  <2>4. Published[p + k] \in Characters
    BY <2>1, <2>3
  <2> QED BY <2>2, <2>3, <2>4
<1>21. /\ Text(buffer', cursor, end - p) \in Seq(Characters)
       /\ Len(Text(buffer', cursor, end - p)) = end - p
       /\ \A k \in 1..(end - p) : Text(buffer', cursor, end - p)[k] = Published[p + k]
  <2> DEFINE n == end - p
  <2>1. n \in Nat /\ \A k \in 1..n : buffer'[cursor + k - 1] = Published[p + k]
                                   /\ buffer'[cursor + k - 1] \in Characters
    BY <1>4, <1>20
  <2> HIDE DEF n
  <2>2. /\ Text(buffer', cursor, n) \in Seq(Characters) /\ Len(Text(buffer', cursor, n)) = n
        /\ \A k \in 1..n : Text(buffer', cursor, n)[k] = buffer'[cursor + k - 1]
    BY <2>1 DEF Text
  <2> QED BY <2>1, <2>2 DEF n
<1> QED BY <1>3, <1>4, <1>5, <1>6, <1>11, <1>15, <1>16, <1>17, <1>19, <1>21 DEF end

\* One more string, and the kernel reads on to the next underscore.
LEMMA CopyReads ==
  ASSUME ParserTypes, PlaceInv, ContentInv, CopyExtension
  PROVE  ReadBack' = SubSeq(Published, 1, NextEnd)
<1> DEFINE s == Pieces(buffer, pointers, ext_index)
           t == Pieces(buffer', pointers', ext_index + 1)
           text == Found(buffer', cursor)
           base == Found(buffer, 0)
<1>1. /\ pc = "loop" /\ fw \in Machines /\ ext_index \in Nat /\ ext_index' = ext_index + 1
      /\ pointers \in Seq(Nat) /\ Len(pointers) = ext_index /\ cursor \in Nat
      /\ pointers' = Append(pointers, cursor) /\ Parsing
  BY DEF CopyExtension, ParserTypes, Parsing
<1>2. /\ pointers'[ext_index + 1] = cursor
      /\ \A k \in 1..ext_index : pointers'[k] = pointers[k]
  BY <1>1
<1>3. /\ NextEnd \in p..isa_len /\ p \in Nat /\ isa_len \in Nat /\ isa_len > 0
      /\ isa_string_len < p /\ isa_string_len \in Nat
  BY <1>1, CopyStrings, LoopFacts
<1>4. /\ Published \in Seq(Characters) /\ Len(Published) = isa_len /\ Published[p] = Underscore
  BY <1>1, <1>3, PublishedFacts DEF PlaceInv
<1>5. /\ text \in Seq(Characters) /\ Len(text) = NextEnd - p
      /\ \A k \in 1..(NextEnd - p) : text[k] = Published[p + k]
  BY CopyStrings
<1>6. /\ base \in Seq(Characters)
      /\ \A k \in 1..ext_index : Found(buffer, pointers[k]) \in Seq(Characters)
      /\ ReadBack = SubSeq(Published, 1, p - 1)
      /\ \A k \in 1..ext_index :
            \E e \in pointers[k]..(cursor - 1) : e <= MaxOffset /\ buffer[e] = "NUL"
  BY <1>1, Zenon DEF ContentInv
<1>7. Found(buffer', 0) = base /\ \A k \in 1..ext_index :
         Found(buffer', pointers'[k]) = Found(buffer, pointers[k])
  BY <1>2, <1>6, CopyStrings
<1> HIDE DEF text, base
<1>8. <<Underscore>> \in Seq(Characters)
  BY UnderscoreCharacter
<1>9. /\ Len(s) = ext_index /\ (ext_index = 0 => s = <<>>)
      /\ \A k \in 1..ext_index : s[k] = <<Underscore>> \o Found(buffer, pointers[k])
  BY <1>1 DEF Pieces
<1>10. \A k \in 1..ext_index : s[k] \in Seq(Characters)
  <2> TAKE k \in 1..ext_index
  <2>1. Found(buffer, pointers[k]) \in Seq(Characters)
    BY <1>6
  <2>2. <<Underscore>> \o Found(buffer, pointers[k]) \in Seq(Characters)
    BY <1>8, <2>1, ConcatProperties
  <2> QED BY <1>9, <2>2
<1>11. /\ Len(t) = ext_index + 1
       /\ \A k \in 1..(ext_index + 1) : t[k] = <<Underscore>> \o Found(buffer', pointers'[k])
  <2> DEFINE m == ext_index + 1
  <2>1. m \in Nat
    BY <1>1
  <2> HIDE DEF m
  <2>2. /\ Len(Pieces(buffer', pointers', m)) = m
        /\ \A k \in 1..m :
              Pieces(buffer', pointers', m)[k] = <<Underscore>> \o Found(buffer', pointers'[k])
    BY <2>1 DEF Pieces
  <2> QED BY <2>2 DEF m
<1> HIDE DEF s, t
<1>12. \A k \in 1..ext_index : t[k] = s[k]
  <2> TAKE k \in 1..ext_index
  <2>1. k \in 1..(ext_index + 1)
    BY <1>1
  <2> QED BY <1>7, <1>9, <1>11, <2>1
<1>13. t[ext_index + 1] = <<Underscore>> \o text /\ t[ext_index + 1] \in Seq(Characters)
  <2>1. ext_index + 1 \in 1..(ext_index + 1)
    BY <1>1
  <2>2. t[ext_index + 1] = <<Underscore>> \o text
    BY <1>2, <1>11, <2>1 DEF text
  <2> QED BY <1>5, <1>8, <2>2, ConcatProperties
<1>14. FlattenSeq(s) \in Seq(Characters) /\ FlattenSeq(t) = FlattenSeq(s) \o t[ext_index + 1]
  <2> DEFINE n == ext_index
  <2>1. /\ n \in Nat /\ Len(s) = n /\ \A k \in 1..n : s[k] \in Seq(Characters)
    BY <1>1, <1>9, <1>10
  <2>2. n = 0 => s = <<>>
    BY <1>9
  <2>3. Len(t) = n + 1 /\ t[n + 1] \in Seq(Characters) /\ \A k \in 1..n : t[k] = s[k]
    BY <1>11, <1>12, <1>13
  <2> HIDE DEF n
  <2>4. OneMore(Characters, n, s, t)
    BY <2>1, <2>2, <2>3 DEF OneMore
  <2>5. FlattenSeq(s) \in Seq(Characters) /\ FlattenSeq(t) = FlattenSeq(s) \o t[n + 1]
    BY <2>4, FlattenMore
  <2> QED BY <2>5 DEF n
<1>15. ReadBack = base \o FlattenSeq(s) /\ ReadBack' = base \o FlattenSeq(t)
  <2>1. ReadBack' = Found(buffer', 0) \o FlattenSeq(t)
    BY <1>1, Reading DEF t
  <2>2. ReadBack = base \o FlattenSeq(s)
    BY Reading DEF s, base
  <2> QED BY <1>7, <2>1, <2>2
<1>16. ReadBack' = SubSeq(Published, 1, p - 1) \o (<<Underscore>> \o text)
  <2> DEFINE v == FlattenSeq(s)
             w == <<Underscore>> \o text
  <2>1. base \in Seq(Characters) /\ v \in Seq(Characters) /\ w \in Seq(Characters)
    BY <1>6, <1>13, <1>14
  <2>2. ReadBack' = base \o (v \o w) /\ ReadBack = base \o v
    BY <1>13, <1>14, <1>15
  <2> HIDE DEF v, w
  <2>3. (base \o v) \o w = base \o (v \o w)
    BY <2>1, ConcatAssociative
  <2>4. ReadBack' = ReadBack \o w
    BY <2>2, <2>3
  <2> QED BY <1>6, <2>4 DEF w
<1>17. p \in 1..Len(Published) /\ NextEnd \in p..Len(Published)
  BY <1>3, <1>4
<1> QED BY <1>4, <1>5, <1>16, <1>17, StartMore

\* An iteration: to the next underscore, or to the end of the string.
LEMMA CopyStep ==
  ASSUME ParserTypes, PlaceInv, ContentInv, CopyExtension
  PROVE  ParserTypes' /\ PlaceInv' /\ ContentInv'
<1> DEFINE end == NextEnd
<1>1. /\ pc = "loop" /\ fw \in Machines /\ fw' = fw
      /\ isa_string_len' = isa_string_len /\ extention_count' = extention_count
      /\ ext_index \in Nat /\ ext_index' = ext_index + 1
      /\ pointers \in Seq(Nat) /\ Len(pointers) = ext_index
      /\ pointers' = Append(pointers, cursor) /\ Parsing
      /\ cursor' = cursor + (end - p) + 1
      /\ p' = IF At(end) = "NUL" THEN p ELSE end + 1
      /\ pc' = IF At(end) = "NUL" THEN "done" ELSE "loop"
      /\ DOMAIN buffer' = 0..MaxOffset
  BY DEF CopyExtension, ParserTypes, Parsing, Stored
<1>2. /\ isa_string' = isa_string /\ isa_len' = isa_len
      /\ Underscores' = Underscores /\ BaseLength' = BaseLength /\ Published' = Published
  BY <1>1, FirmwareKept
<1>3. /\ extensions' = extensions /\ First' = First /\ info_size' = info_size
  BY <1>1, <1>2 DEF extensions, MATH_ALIGN_UP, First, FirstString, info_size
<1>4. /\ isa_len \in Nat /\ MaxOffset \in Nat /\ POINTER \in Nat \ {0}
      /\ isa_string_len = BaseLength /\ isa_string_len \in Nat /\ isa_string_len < p
      /\ p \in Nat /\ p <= isa_len /\ isa_len > 0
      /\ cursor = First + (p - (isa_string_len + 1)) /\ cursor \in Nat /\ First \in Nat
      /\ First + (isa_len - isa_string_len) < info_size + POINTER /\ info_size \in Nat
      /\ ext_index <= Cardinality(Passed)
      /\ Cardinality(Passed) \in Nat /\ Cardinality(Passed) <= extention_count
      /\ extention_count \in Nat /\ IsFiniteSet(Passed)
  BY <1>1, LoopFacts
<1>5. /\ end \in p..isa_len /\ (At(end) = "NUL" <=> end = isa_len)
      /\ end # isa_len => At(end) = Underscore /\ end \in Underscores
  BY <1>1, <1>4, NextEndFacts
<1>6. end \in p..isa_len /\ p < isa_len /\ cursor + (end - p) <= MaxOffset
      /\ buffer'[cursor + (end - p)] = "NUL"
  BY CopyStrings
<1>7. ReadBack' = SubSeq(Published, 1, end)
  BY CopyReads
<1> HIDE DEF end
<1>8. end \in Nat /\ p <= end /\ end <= isa_len /\ end - p \in Nat
  BY <1>4, <1>6
<1>9. cursor' = First + (end - isa_string_len) /\ cursor' \in Nat
      /\ cursor' <= First + (isa_len - isa_string_len)
  BY <1>1, <1>4, <1>8
<1>10. ParserTypes'
  <2>1. pointers' \in Seq(Nat) /\ Len(pointers') = ext_index'
    BY <1>1, <1>4
  <2>2. p' \in Nat /\ ext_index' \in Nat /\ pc' \in {"done", "loop"}
    BY <1>1, <1>4, <1>8
  <2>3. isa_string_len' \in Nat /\ extention_count' \in Nat
    BY <1>1, <1>4
  <2>4. fw' \in Machines
    BY <1>1
  <2> QED BY <1>1, <1>9, <2>1, <2>2, <2>3, <2>4 DEF ParserTypes
<1>11. OverrunBounded'
  <2>1. cursor' < info_size + POINTER
    BY <1>4, <1>8, <1>9
  <2> QED BY <1>3, <2>1 DEF OverrunBounded
<1>12. isa_string_len' = BaseLength' /\ extention_count' = Cardinality(Underscores')
       /\ isa_string_len' < isa_len'
  BY <1>1, <1>2 DEF PlaceInv
<1>13. /\ buffer'[isa_string_len'] = "NUL"
       /\ \A o \in extensions'..(extensions' + ext_index' * POINTER - 1) : buffer'[o] = "pointer"
       /\ \A k \in 1..ext_index' :
             /\ First' <= pointers'[k]
             /\ \E e \in pointers'[k]..(cursor' - 1) : e <= MaxOffset /\ buffer'[e] = "NUL"
       /\ Found(buffer', 0) \in Seq(Characters)
       /\ \A k \in 1..ext_index' : Found(buffer', pointers'[k]) \in Seq(Characters)
  <2>1. buffer'[isa_string_len'] = "NUL"
    BY <1>1, CopyStrings
  <2>2. \A o \in extensions'..(extensions' + ext_index' * POINTER - 1) : buffer'[o] = "pointer"
    BY <1>1, <1>3, CopyStrings
  <2>3. /\ Found(buffer, 0) \in Seq(Characters)
        /\ \A k \in 1..ext_index :
              /\ First <= pointers[k]
              /\ \E e \in pointers[k]..(cursor - 1) : e <= MaxOffset /\ buffer[e] = "NUL"
              /\ Found(buffer, pointers[k]) \in Seq(Characters)
    BY <1>1, Zenon DEF ContentInv
  <2>4. Found(buffer', 0) \in Seq(Characters)
    BY <2>3, CopyStrings
  <2>5. ASSUME NEW k \in 1..ext_index'
        PROVE  /\ First' <= pointers'[k]
               /\ \E e \in pointers'[k]..(cursor' - 1) : e <= MaxOffset /\ buffer'[e] = "NUL"
               /\ Found(buffer', pointers'[k]) \in Seq(Characters)
    <3>1. CASE k = ext_index + 1
      <4>1. pointers'[k] = cursor
        BY <1>1, <3>1
      <4>2. First <= cursor /\ cursor + (end - p) \in cursor..(cursor' - 1)
        BY <1>1, <1>4, <1>8, <1>9
      <4> QED BY <1>3, <1>6, <4>1, <4>2, CopyStrings
    <3>2. CASE k # ext_index + 1
      <4>1. k \in 1..ext_index /\ pointers'[k] = pointers[k] /\ pointers[k] \in Nat
        BY <1>1, <3>2
      <4>2. PICK e \in pointers[k]..(cursor - 1) : e <= MaxOffset /\ buffer[e] = "NUL"
        BY <2>3, <4>1
      <4>3. buffer'[e] = "NUL" /\ Found(buffer', pointers[k]) = Found(buffer, pointers[k])
        BY <4>1, <4>2, CopyStrings
      <4>4. e \in pointers'[k]..(cursor' - 1)
        BY <1>1, <1>4, <1>8, <4>1
      <4> QED BY <1>3, <2>3, <4>1, <4>2, <4>3, <4>4
    <3> QED BY <3>1, <3>2
  <2> QED BY <2>1, <2>2, <2>4, <2>5
<1>14. CASE end = isa_len
  <2>1. pc' = "done"
    BY <1>1, <1>5, <1>14
  <2>2. ext_index' <= extention_count' + 1
    BY <1>1, <1>4
  <2>3. PlaceInv'
    BY <1>1, <1>2, <1>3, <1>9, <1>11, <1>12, <2>1, <2>2, Zenon DEF PlaceInv
  <2>4. WithoutLast(Published) = SubSeq(Published, 1, isa_len)
    <3>1. Published \in Seq(Characters) /\ Len(Published) = isa_len
      BY <1>1, <1>4, PublishedFacts
    <3>2. Published[isa_len] # Underscore
      <4>1. isa_len \in 1..isa_len /\ isa_len # BaseLength + 1 /\ isa_len - 1 \in p..(end - 1)
            /\ isa_len - 1 \in 0..(isa_len - 1) /\ (isa_len - 1) + 1 = isa_len
        BY <1>4, <1>6, <1>8, <1>14
      <4>2. At(isa_len - 1) # Underscore
        BY <1>1, <1>4, <4>1, NextEndFacts DEF end
      <4>3. At(isa_len - 1) = isa_string[isa_len]
        BY <1>1, <4>1, StringFacts
      <4> QED BY <1>1, <1>4, <4>1, <4>2, <4>3, PublishedFacts
    <3>3. Published = SubSeq(Published, 1, Len(Published))
      BY <3>1, SubSeqFull
    <3> QED BY <3>1, <3>2, <3>3 DEF WithoutLast
  <2>5. ReadBack' = WithoutLast(Published')
    BY <1>2, <1>7, <1>14, <2>4
  <2>6. pc' # "loop"
    BY <2>1
  <2>7. ContentInv'
    BY <1>13, <2>5, <2>6, Zenon DEF ContentInv, Found
  <2> QED BY <1>10, <2>3, <2>7
<1>15. CASE end # isa_len
  <2>1. pc' = "loop" /\ p' = end + 1 /\ p' - 1 = end
    BY <1>1, <1>5, <1>8, <1>15
  <2>2. isa_string_len' < p' /\ p' <= isa_len'
    BY <1>1, <1>2, <1>4, <1>8, <1>15, <2>1
  <2>3. Published'[p'] = Underscore
    <3>1. end \in 0..(isa_len - 1) /\ end + 1 \in 1..isa_len /\ end + 1 # BaseLength + 1
      BY <1>4, <1>8, <1>15
    <3>2. isa_string[end + 1] = Underscore
      BY <1>1, <1>5, <1>15, <3>1, StringFacts
    <3> QED BY <1>1, <1>2, <1>4, <2>1, <3>1, <3>2, PublishedFacts
  <2>4. cursor' = First' + (p' - (isa_string_len' + 1))
    BY <1>1, <1>3, <1>4, <1>8, <1>9, <2>1
  <2>5. ext_index' <= Cardinality(Passed')
    <3>1. Passed \cup {end} \subseteq Passed'
      BY <1>1, <1>2, <1>4, <1>5, <1>8, <1>15, <2>1, UnderscoreFacts DEF Passed
    <3>2. end \notin Passed
      BY <1>4, <1>8 DEF Passed
    <3>3. IsFiniteSet(Passed') /\ Passed' \subseteq Underscores
      <4>1. Passed' \subseteq Underscores
        BY <1>2 DEF Passed
      <4> QED BY <1>1, <4>1, UnderscoreFacts, FS_Subset
    <3>4. Cardinality(Passed \cup {end}) = Cardinality(Passed) + 1
      BY <1>4, <3>2, FS_AddElement
    <3>5. Cardinality(Passed \cup {end}) <= Cardinality(Passed')
      BY <3>1, <3>3, FS_Subset
    <3>6. Cardinality(Passed') \in Nat
      BY <3>3, FS_CardinalityType
    <3> QED BY <1>1, <1>4, <3>4, <3>5, <3>6
  <2>6. PlaceInv'
    BY <1>1, <1>2, <1>3, <1>11, <1>12, <2>1, <2>2, <2>3, <2>4, <2>5, Zenon DEF PlaceInv
  <2>7. ReadBack' = SubSeq(Published', 1, p' - 1)
    BY <1>2, <1>7, <2>1
  <2>8. pc' # "done"
    BY <2>1
  <2>9. ContentInv'
    BY <1>13, <2>7, <2>8, Zenon DEF ContentInv, Found
  <2> QED BY <1>10, <2>6, <2>9
<1> QED BY <1>14, <1>15

\* Before the string is parsed, nothing is known but that the loop has not begun.
LEMMA OtherStep ==
  ASSUME ParserTypes, fw' = fw, UNCHANGED parser,
         pc' \in {"panic", "fault", "acpi", "levels", "extensions", "parse"},
         pc \in {"entry", "acpi", "levels", "extensions", "parse"}
  PROVE  ParserTypes' /\ PlaceInv' /\ ContentInv'
<1>1. UNCHANGED <<isa_string_len, extention_count, buffer, cursor, p, ext_index, pointers>>
  BY DEF parser
<1>2. ParserTypes'
  BY <1>1 DEF ParserTypes
<1>3. pc' # "loop" /\ pc' # "done"
  OBVIOUS
<1>4. PlaceInv' /\ ContentInv'
  BY <1>3 DEF PlaceInv, ContentInv, OverrunBounded, Parsing
<1> QED BY <1>2, <1>4

\* Every step keeps what is known.
LEMMA ParseNext ==
  ASSUME ParseInv, [Next]_vars
  PROVE  ParseInv'
<1>1. ParserTypes /\ PlaceInv /\ ContentInv
  BY DEF ParseInv
<1>2. CASE Entry
  BY <1>1, <1>2, OtherStep DEF Entry, ParseInv
<1>3. CASE SetupAcpi
  BY <1>1, <1>3, OtherStep DEF SetupAcpi, ParseInv
<1>4. CASE DetectLevels
  BY <1>1, <1>4, OtherStep DEF DetectLevels, ParseInv
<1>5. CASE ParseAcpi
  BY <1>1, <1>5, OtherStep DEF ParseAcpi, ParseInv
<1>6. CASE ParseFdt
  BY <1>1, <1>6, OtherStep DEF ParseFdt, ParseInv
<1>7. CASE StartParse
  BY <1>1, <1>7, StartStep DEF ParseInv
<1>8. CASE CopyExtension
  BY <1>1, <1>8, CopyStep DEF ParseInv
<1>9. CASE EndParse
  BY <1>1, <1>9, EndStep DEF ParseInv
<1>10. CASE UNCHANGED vars
  <2>1. UNCHANGED <<fw, pc, isa_string_len, extention_count, buffer, cursor, p, ext_index, pointers>>
    BY <1>10 DEF vars, parser
  <2>2. /\ isa_string' = isa_string /\ isa_len' = isa_len
        /\ Underscores' = Underscores /\ BaseLength' = BaseLength /\ Published' = Published
    BY <2>1, FirmwareKept
  <2>3. /\ extensions' = extensions /\ First' = First /\ info_size' = info_size
        /\ Passed' = Passed /\ (Parsing' <=> Parsing)
    BY <2>1, <2>2 DEF extensions, MATH_ALIGN_UP, First, FirstString, info_size, Passed, Parsing
  <2>4. ReadBack' = ReadBack
    BY <2>1, Reading
  <2>5. ParserTypes'
    BY <1>1, <2>1 DEF ParserTypes
  <2>6. OverrunBounded'
    BY <1>1, <2>1, <2>3 DEF PlaceInv, OverrunBounded
  <2>7. PlaceInv'
    BY <1>1, <2>1, <2>2, <2>3, <2>6 DEF PlaceInv
  <2>8. ContentInv'
    <3>1. CASE ~Parsing
      BY <2>3, <3>1 DEF ContentInv
    <3>2. CASE Parsing
      <4>1. /\ buffer[isa_string_len] = "NUL"
            /\ \A o \in extensions..(extensions + ext_index * POINTER - 1) : buffer[o] = "pointer"
            /\ \A k \in 1..ext_index :
                  /\ First <= pointers[k]
                  /\ \E e \in pointers[k]..(cursor - 1) : e <= MaxOffset /\ buffer[e] = "NUL"
            /\ Found(buffer, 0) \in Seq(Characters)
            /\ \A k \in 1..ext_index : Found(buffer, pointers[k]) \in Seq(Characters)
            /\ pc = "loop" => ReadBack = SubSeq(Published, 1, p - 1)
            /\ pc = "done" => ReadBack = WithoutLast(Published)
        BY <1>1, <3>2, Zenon DEF ContentInv
      <4>2. /\ buffer'[isa_string_len'] = "NUL"
            /\ \A o \in extensions'..(extensions' + ext_index' * POINTER - 1) :
                  buffer'[o] = "pointer"
            /\ \A k \in 1..ext_index' :
                  /\ First' <= pointers'[k]
                  /\ \E e \in pointers'[k]..(cursor' - 1) : e <= MaxOffset /\ buffer'[e] = "NUL"
            /\ Found(buffer', 0) \in Seq(Characters)
            /\ \A k \in 1..ext_index' : Found(buffer', pointers'[k]) \in Seq(Characters)
            /\ pc' = "loop" => ReadBack' = SubSeq(Published', 1, p' - 1)
            /\ pc' = "done" => ReadBack' = WithoutLast(Published')
        BY <2>1, <2>2, <2>3, <2>4, <4>1
      <4> QED BY <4>2, Zenon DEF ContentInv, Found
    <3> QED BY <3>1, <3>2
  <2> QED BY <2>5, <2>7, <2>8 DEF ParseInv
<1> QED BY <1>2, <1>3, <1>4, <1>5, <1>6, <1>7, <1>8, <1>9, <1>10 DEF Next

\* From the entry on, the parser's state is what ParseInv says (isa.c:12-61).
THEOREM ParserPositions == Spec => []ParseInv
<1>1. Init => ParseInv
  <2> SUFFICES ASSUME Init PROVE ParseInv
    OBVIOUS
  <2>1. ParserTypes
    BY PlatformAssumption DEF Init, ParserTypes
  <2>2. pc # "loop" /\ pc # "done"
    BY DEF Init
  <2> QED BY <2>1, <2>2 DEF ParseInv, PlaceInv, ContentInv, OverrunBounded, Parsing
<1>2. ParseInv /\ [Next]_vars => ParseInv'
  BY ParseNext
<1> QED BY <1>1, <1>2, PTL DEF Spec

\* Whatever string firmware provides, the kernel reads it back, less an underscore at its
\* end, through pointers that no string has overwritten; of a string without an underscore
\* the first letter is lost and the rest is taken for an extension (isa.c:12-61).
THEOREM IsaAlwaysKept == Spec => []IsaKept
<1>1. ParseInv => IsaKept
  <2> SUFFICES ASSUME ParseInv, pc = "done", isa_len > 0
               PROVE  /\ ReadBack = WithoutLast(Published)
                      /\ \A o \in extensions..(extensions + ext_index * POINTER - 1) :
                            buffer[o] = "pointer"
    BY Zenon DEF IsaKept, Published
  <2>1. Parsing
    BY DEF Parsing
  <2> QED BY <2>1, Zenon DEF ParseInv, ContentInv
<1> QED BY <1>1, ParserPositions, PTL

\* Whatever the string, the page and the pointer, the copy ends less than a pointer after
\* what was allocated: the size does not count the alignment of the pointers (isa.c:17-30).
THEOREM OverrunAlwaysBounded == Spec => []OverrunBounded
<1>1. ParseInv => OverrunBounded
  BY DEF ParseInv, PlaceInv
<1> QED BY <1>1, ParserPositions, PTL
=============================================================================
