--------------------------- MODULE FieldNameProofs ---------------------------
(***************************************************************************)
(* Reading a field name, for every text and every declarator: a declarator *)
(* is read as what it says, and what is accepted is one but for the three  *)
(* slips of the parser.                                                    *)
(***************************************************************************)
EXTENDS FieldName, FiniteSetTheorems, SequenceTheorems, TLAPS
-----------------------------------------------------------------------------
(* The inductive invariant.  The end of the name:                          *)
NameEnd == pointer_count + name_length

(* Two characters that may follow each other behind the name.              *)
Goes(i) ==
  \/ Char(i) = "[" /\ Char(i + 1) \in Digits \cup {"]"}
  \/ Char(i) \in Digits /\ Char(i + 1) \in Digits \cup {"]"}
  \/ Char(i) = "]" /\ Char(i + 1) = "["

NameIsRead ==
  /\ NameEnd <= size
  /\ \A i \in 0 .. pointer_count - 1 : Char(i) = "*"
  /\ IsValidName(Text(pointer_count, NameEnd))
  /\ NameEnd = size \/ Char(NameEnd) = "["

(* From the first bracket on, the scan has seen nothing out of place.      *)
BracketsScanned ==
  /\ types = <<>>
  /\ NameEnd <= name_end /\ name_end < size
  /\ array_begin = NameEnd + 1 /\ Char(NameEnd) = "["
  /\ \A i \in NameEnd .. name_end - 1 : Goes(i)

PartsAreRead ==
  /\ at \in {"function", "name"} => types = <<>>
  /\ at \in {"name", "arrays", "scan", "count"} /\ size > 0 => Char(0) # "("
  /\ at \in {"arrays", "scan", "count"} => NameIsRead
  /\ at = "arrays" =>
       \/ types = <<>> /\ name_end = NameEnd
       \/ types # <<>> /\ name_end = size - 1 /\ NameEnd < size - 2 /\ Brackets(NameEnd)
  /\ at = "scan" =>
       /\ BracketsScanned
       /\ \/ Char(name_end) \in Digits \cup {"["}
          \/ Char(name_end) = "]" /\ name_end = size - 1
  /\ at = "count" => BracketsScanned /\ Char(name_end) = "]" /\ name_end = size - 1

(* What is known when the text is how s is written.                        *)
AsSpelled(s) ==
  /\ at \in {"arrays", "scan", "count"} => pointer_count = s.pointers /\ name_length = Len(s.name)
  /\ at = "arrays" /\ types # <<>> => s.dims # <<>> /\ types = <<ArrayType(Number(s.dims[1]))>>
  /\ at = "done" =>
       /\ field = [from |-> NameAt(s), to |-> NameAt(s) + Len(s.name)]
       /\ types = Built(Declared(s))

IInv ==
  /\ TypeOK
  /\ PartsAreRead
  /\ AcceptedIsWellFormed
  /\ \A s \in Spellings : field_name = Spell(s) => AsSpelled(s)


(* A non-empty set of naturals has a least element: an interval from 0 to  *)
(* one of its elements is finite, and one of these contains no other.      *)
LEMMA LeastElement ==
  ASSUME NEW S \in SUBSET Nat, S # {}
  PROVE  \E k \in S : \A j \in S : k <= j
<1> DEFINE Upto(k) == 0 .. k
           T       == {Upto(k) : k \in S}
<1>1. PICK k \in S : \A j \in S : ~(<<Upto(j), Upto(k)>> \in StrictSubsetOrdering(Nat))
  <2>1. ASSUME NEW k \in S PROVE IsFiniteSet(Upto(k)) /\ Upto(k) \in SUBSET Nat
    BY FS_Interval
  <2>2. T \subseteq FiniteSubsetsOf(Nat) /\ T # {}
    BY <2>1 DEF FiniteSubsetsOf
  <2>3. \E x \in T : \A y \in T : ~(<<y, x>> \in StrictSubsetOrdering(Nat))
    <3> HIDE DEF T
    <3> QED BY <2>2, FS_StrictSubsetOrderingWellFounded, WFMin
  <2> QED BY <2>3
<1>2. ASSUME NEW j \in S, j < k PROVE FALSE
  <2>1. /\ Upto(j) \in SUBSET Nat /\ Upto(k) \in SUBSET Nat
        /\ Upto(j) \subseteq Upto(k) /\ Upto(k) # Upto(j)
    BY <1>2
  <2> HIDE DEF Upto
  <2> QED BY <1>1, <2>1 DEF StrictSubsetOrdering
<1> QED BY <1>2

LEMMA MinIsLeast ==
  ASSUME NEW S \in SUBSET Nat, S # {}
  PROVE  Min(S) \in S /\ \A j \in S : Min(S) <= j
BY LeastElement DEF Min

(* A bounded set of naturals has a greatest element: its distance from the *)
(* bound is the least.                                                     *)
LEMMA MaxIsGreatest ==
  ASSUME NEW bound \in Nat, NEW S \in SUBSET (0 .. bound), S # {}
  PROVE  Max(S) \in S /\ \A j \in S : j <= Max(S)
<1> DEFINE D == {bound - k : k \in S}
<1>1. D \in SUBSET Nat /\ D # {}
  OBVIOUS
<1>2. PICK d \in D : \A j \in D : d <= j
  <2> HIDE DEF D
  <2> QED BY <1>1, LeastElement
<1>3. \E k \in S : \A j \in S : k >= j
  <2>1. PICK k \in S : d = bound - k
    OBVIOUS
  <2>2. ASSUME NEW j \in S PROVE k >= j
    <3>1. d <= bound - j
      BY <1>2
    <3> QED BY <2>1, <3>1
  <2> QED BY <2>2
<1>4. Max(S) \in S /\ \A j \in S : Max(S) >= j
  BY <1>3 DEF Max
<1> QED BY <1>4

(* A number with a property that some have and that the next one of one    *)
(* that has it has too: there is no first one without it.                  *)
LEMMA NoneIsFirst ==
  ASSUME NEW N \in Nat, NEW S, 0 \in S, \A i \in 1 .. N : i - 1 \in S => i \in S
  PROVE  0 .. N \subseteq S
<1> DEFINE Bad == {i \in 0 .. N : i \notin S}
<1>1. Bad \in SUBSET Nat
  OBVIOUS
<1>2. Bad = {}
  <2> SUFFICES ASSUME Bad # {} PROVE FALSE
    OBVIOUS
  <2>1. PICK i \in Bad : \A j \in Bad : i <= j
    <3> HIDE DEF Bad
    <3> QED BY <1>1, LeastElement
  <2>2. i \in 1 .. N /\ i - 1 \in 0 .. N /\ ~(i <= i - 1)
    OBVIOUS
  <2>3. i - 1 \in S
    BY <2>1, <2>2
  <2> QED BY <2>1, <2>2, <2>3
<1> QED BY <1>2

-----------------------------------------------------------------------------
(* A sequence each of whose elements comes from the one before it exists.  *)
Iterates(h, N, start, Step) ==
  h[0] = start /\ \A i \in 1 .. N : h[i] = Step[i][h[i - 1]]

LEMMA Iteration ==
  ASSUME NEW N \in Nat, NEW V, NEW start \in V, NEW Step,
         \A i \in 1 .. N : \A v \in V : Step[i][v] \in V
  PROVE  \E h \in [0 .. N -> V] : Iterates(h, N, start, Step)
<1> DEFINE Is(h, n) == h[0] = start /\ \A i \in 1 .. n : h[i] = Step[i][h[i - 1]]
           S == {n \in 0 .. N : \E h \in [0 .. n -> V] : Is(h, n)}
<1>1. 0 \in S
  <2> DEFINE h == [i \in 0 .. 0 |-> start]
  <2>1. h \in [0 .. 0 -> V] /\ Is(h, 0)
    OBVIOUS
  <2> HIDE DEF Is, h
  <2> QED BY <2>1
<1>2. ASSUME NEW n \in 1 .. N, n - 1 \in S PROVE n \in S
  <2>0. n \in Nat /\ n - 1 \in Nat
    OBVIOUS
  <2>1. PICK h \in [0 .. n - 1 -> V] : Is(h, n - 1)
    <3> HIDE DEF Is
    <3> QED BY <1>2
  <2> DEFINE g == [i \in 0 .. n |-> IF i = n THEN Step[n][h[n - 1]] ELSE h[i]]
  <2>2. g \in [0 .. n -> V]
    <3>1. h[n - 1] \in V
      BY <2>0
    <3>3. Step[n][h[n - 1]] \in V
      BY <3>1
    <3>2. \A i \in 0 .. n : i = n \/ i \in 0 .. n - 1
      BY <2>0
    <3> QED BY <3>3, <3>2
  <2>3. \A i \in 0 .. n - 1 : g[i] = h[i]
    BY <2>0
  <2>4. g[n] = Step[n][h[n - 1]] /\ n - 1 \in 0 .. n - 1
    BY <2>0
  <2> HIDE DEF g
  <2>5. Is(g, n)
    <3>1. g[0] = start
      BY <2>0, <2>1, <2>3
    <3>2. ASSUME NEW i \in 1 .. n PROVE g[i] = Step[i][g[i - 1]]
      <4>1. i - 1 \in 0 .. n - 1 /\ (i = n \/ (i \in 1 .. n - 1 /\ i \in 0 .. n - 1))
        BY <2>0
      <4>2. g[i - 1] = h[i - 1]
        BY <2>3, <4>1
      <4> QED BY <2>1, <2>3, <2>4, <4>1, <4>2
    <3> QED BY <3>1, <3>2
  <2> HIDE DEF Is
  <2> QED BY <2>2, <2>5
<1>3. N \in S
  <2> HIDE DEF S
  <2> QED BY <1>1, <1>2, NoneIsFirst
<1> QED BY <1>3 DEF Iterates

(* So does a function on the subsets of an interval whose value for one    *)
(* comes from that for the set without its greatest element.               *)
FoldsTo(h, n, base, Step) ==
  \A s \in SUBSET (1 .. n) : h[s] = IF s = {} THEN base ELSE Step[Max(s)][h[s \ {Max(s)}]]

LEMMA SubsetRecursion ==
  ASSUME NEW n \in Nat, NEW V, NEW base \in V, NEW Step,
         \A x \in 1 .. n : \A v \in V : Step[x][v] \in V
  PROVE  \E h \in [SUBSET (1 .. n) -> V] : FoldsTo(h, n, base, Step)
<1> DEFINE P == SUBSET (1 .. n)
           W == [P -> V]
           Put(k, v) == [s \in P |-> IF k \in s THEN Step[k][v[s \ {k}]] ELSE v[s]]
           Puts == [k \in 1 .. n |-> [v \in W |-> Put(k, v)]]
           none == [s \in P |-> base]
<1>1. \A k \in 1 .. n : \A v \in W : Puts[k][v] = Put(k, v) /\ Puts[k][v] \in W
  OBVIOUS
<1>2. none \in W
  OBVIOUS
<1>3. PICK h \in [0 .. n -> W] : Iterates(h, n, none, Puts)
  <2>1. \A k \in 1 .. n : \A v \in W : Puts[k][v] \in W
    BY <1>1
  <2> HIDE DEF W, Puts, Put, none
  <2> QED BY <1>2, <2>1, Iteration
<1>4. \A k \in 1 .. n : h[k] = Put(k, h[k - 1])
  <2> HIDE DEF W, Puts, Put, none
  <2>1. \A k \in 1 .. n : h[k - 1] \in W
    <3>1. \A k \in 1 .. n : k - 1 \in 0 .. n
      OBVIOUS
    <3> QED BY <3>1
  <2> QED BY <1>1, <1>3, <2>1 DEF Iterates
<1>5. ASSUME NEW k \in 1 .. n, NEW s \in P
      PROVE  h[k][s] = IF k \in s THEN Step[k][h[k - 1][s \ {k}]] ELSE h[k - 1][s]
  <2> HIDE DEF P
  <2>1. Put(k, h[k - 1])[s] = IF k \in s THEN Step[k][h[k - 1][s \ {k}]] ELSE h[k - 1][s]
    OBVIOUS
  <2> HIDE DEF Put
  <2> QED BY <1>4, <2>1
<1>6. ASSUME NEW m \in 0 .. n, NEW s \in SUBSET (1 .. m) PROVE h[n][s] = h[m][s]
  <2> DEFINE S == {k \in 0 .. n : k >= m => h[k][s] = h[m][s]}
  <2>1. s \in P /\ m \in Nat
    OBVIOUS
  <2>2. 0 \in S
    BY <2>1
  <2>3. ASSUME NEW k \in 1 .. n, k - 1 \in S PROVE k \in S
    <3>1. CASE k > m
      <4>1. k \notin s /\ k - 1 >= m
        BY <2>1, <3>1
      <4>2. h[k - 1][s] = h[m][s]
        BY <2>3, <4>1
      <4>3. h[k][s] = h[k - 1][s]
        BY <1>5, <2>1, <4>1
      <4> QED BY <4>2, <4>3
    <3>2. CASE k <= m
      <4>1. k >= m => k = m
        BY <2>1, <3>2
      <4> QED BY <4>1
    <3> QED BY <2>1, <3>1, <3>2
  <2>4. n \in S
    <3> HIDE DEF S
    <3>1. 0 .. n \subseteq S
      BY <2>2, <2>3, NoneIsFirst
    <3> QED BY <3>1
  <2> QED BY <2>1, <2>4
<1>7. ASSUME NEW s \in P PROVE h[n][s] = IF s = {} THEN base ELSE Step[Max(s)][h[n][s \ {Max(s)}]]
  <2>1. CASE s = {}
    <3>1. h[n][{}] = h[0][{}]
      BY <1>6
    <3>2. h[0][{}] = base
      BY <1>3 DEF Iterates
    <3> QED BY <2>1, <3>1, <3>2
  <2>2. CASE s # {}
    <3> DEFINE x == Max(s)
    <3>1. x \in s /\ \A j \in s : j <= x
      <4>1. s \in SUBSET (0 .. n)
        OBVIOUS
      <4> QED BY <2>2, <4>1, MaxIsGreatest
    <3> HIDE DEF x
    <3>2. x \in 1 .. n /\ x \in 0 .. n /\ x - 1 \in 0 .. n
      BY <3>1
    <3>3. s \in SUBSET (1 .. x) /\ s \ {x} \in SUBSET (1 .. x - 1)
      BY <3>1, <3>2
    <3>4. h[n][s] = h[x][s] /\ h[n][s \ {x}] = h[x - 1][s \ {x}]
      BY <1>6, <3>2, <3>3
    <3>5. h[x][s] = Step[x][h[x - 1][s \ {x}]]
      BY <1>5, <3>1, <3>2
    <3> QED BY <2>2, <3>4, <3>5 DEF x
  <2> QED BY <2>1, <2>2
<1>8. h[n] \in W
  <2> HIDE DEF W
  <2> QED OBVIOUS
<1> QED BY <1>7, <1>8 DEF FoldsTo

-----------------------------------------------------------------------------
(* The operators on texts.                                                 *)
LEMMA NumberType ==
  ASSUME NEW text \in Seq(Digits)
  PROVE  Number(text) \in Nat
<1> DEFINE n == Len(text)
           P == SUBSET (1 .. n)
           Body(h, s) == IF s = {} THEN 0 ELSE (10 * h[s \ {Max(s)}]) + Value[text[Max(s)]]
           Is(h) == h = [s \in SUBSET DOMAIN text |-> Body(h, s)]
           Step == [k \in 1 .. n |-> [v \in Nat |-> (10 * v) + Value[text[k]]]]
           iter == CHOOSE h : Is(h)
<1>1. n \in Nat /\ DOMAIN text = 1 .. n
  BY LenProperties
<1>2. \A k \in 1 .. n : Value[text[k]] \in Nat
  <2>1. \A k \in 1 .. n : text[k] \in Digits
    BY ElementOfSeq
  <2>2. \A c \in Digits : Value[c] \in Nat
    BY DEF Digits, Value
  <2> QED BY <2>1, <2>2
<1>3. \A s \in P : s # {} => Max(s) \in 1 .. n /\ Max(s) \in s
  <2> TAKE s \in P
  <2> HAVE s # {}
  <2>1. s \in SUBSET (0 .. n) /\ s \in SUBSET (1 .. n)
    BY <1>1
  <2>2. Max(s) \in s
    BY <1>1, <2>1, MaxIsGreatest
  <2> QED BY <2>1, <2>2
<1>4. \E h : Is(h)
  <2>1. \A k \in 1 .. n : \A v \in Nat : Step[k][v] = (10 * v) + Value[text[k]] /\ Step[k][v] \in Nat
    BY <1>2
  <2>2. PICK h \in [SUBSET (1 .. n) -> Nat] : FoldsTo(h, n, 0, Step)
    <3> HIDE DEF n, Step
    <3> QED BY <1>1, <2>1, SubsetRecursion
  <2>3. ASSUME NEW s \in P PROVE h[s] = Body(h, s)
    <3> HIDE DEF n, Step
    <3>1. h[s] = IF s = {} THEN 0 ELSE Step[Max(s)][h[s \ {Max(s)}]]
      BY <2>2 DEF FoldsTo
    <3>2. CASE s # {}
      <4>1. Max(s) \in 1 .. n /\ h[s \ {Max(s)}] \in Nat
        BY <1>3, <2>2, <3>2
      <4> QED BY <2>1, <3>1, <3>2, <4>1
    <3> QED BY <3>1, <3>2
  <2>4. h = [s \in P |-> Body(h, s)]
    <3> HIDE DEF Body
    <3> QED BY <2>2, <2>3
  <2> QED BY <1>1, <2>4
<1>5. Is(iter)
  <2> HIDE DEF Is
  <2> QED BY <1>4
<1>6. Number(text) = iter[1 .. n]
  BY <1>1 DEF Number, FoldLeft, MapThenFoldSet
<1> HIDE DEF iter
<1>7. \A s \in P : iter[s] = Body(iter, s)
  <2> HIDE DEF Body
  <2> QED BY <1>1, <1>5
<1> DEFINE S == {k \in 0 .. n : iter[1 .. k] \in Nat}
<1>8. 0 \in S
  <2>1. 1 .. 0 = {} /\ {} \in P
    OBVIOUS
  <2>2. iter[{}] = 0
    BY <1>7, <2>1
  <2>3. iter[1 .. 0] = 0
    BY <2>1, <2>2, Zenon
  <2> QED BY <1>1, <2>3
<1>9. ASSUME NEW k \in 1 .. n, k - 1 \in S PROVE k \in S
  <2>1. /\ 1 .. k \in P /\ 1 .. k # {} /\ 1 .. k \in SUBSET (0 .. n) /\ k \in 1 .. k
        /\ (1 .. k) \ {k} = 1 .. k - 1
    <3>1. k \in 1 .. k /\ \A j \in 1 .. k : j \in 1 .. n /\ j \in 0 .. n
      BY <1>1
    <3>2. (1 .. k) \ {k} = 1 .. k - 1
      BY <1>1
    <3> HIDE DEF n
    <3> QED BY <3>1, <3>2
  <2>2. Max(1 .. k) = k
    <3>1. Max(1 .. k) \in 1 .. k /\ k <= Max(1 .. k)
      BY <1>1, <2>1, MaxIsGreatest
    <3> QED BY <3>1
  <2>3. iter[1 .. k] = (10 * iter[1 .. k - 1]) + Value[text[k]]
    BY <1>7, <2>1, <2>2
  <2> QED BY <1>2, <1>9, <2>3
<1>10. 0 .. n \subseteq S
  <2> HIDE DEF S, n
  <2> QED BY <1>1, <1>8, <1>9, NoneIsFirst
<1> QED BY <1>1, <1>6, <1>10

(* Digits in brackets, one pair of brackets behind the other.              *)
Follows(c, d) ==
  \/ c = "[" /\ d \in Digits
  \/ c \in Digits /\ d \in Digits \cup {"]"}
  \/ c = "]" /\ d = "["

IsBracketed(text) ==
  /\ text \in Seq(Chars)
  /\ Len(text) > 2 /\ text[1] = "[" /\ text[Len(text)] = "]"
  /\ \A i \in 1 .. Len(text) - 1 : Follows(text[i], text[i + 1])

LEMMA BracketsJoin ==
  ASSUME NEW s, NEW t, IsBracketed(s), IsBracketed(t)
  PROVE  /\ IsBracketed(s \o t) /\ Len(s) \in Nat /\ Len(s) <= Len(s \o t)
         /\ \A i \in 1 .. Len(s) : (s \o t)[i] = s[i]
<1>1. /\ s \in Seq(Chars) /\ t \in Seq(Chars) /\ Len(s) \in Nat /\ Len(t) \in Nat
      /\ Len(s) > 2 /\ s[1] = "[" /\ s[Len(s)] = "]" /\ Len(t) > 2 /\ t[1] = "[" /\ t[Len(t)] = "]"
      /\ \A i \in 1 .. Len(s) - 1 : Follows(s[i], s[i + 1])
      /\ \A i \in 1 .. Len(t) - 1 : Follows(t[i], t[i + 1])
  BY LenProperties DEF IsBracketed
<1> DEFINE st == s \o t
<1>2. /\ st \in Seq(Chars) /\ Len(st) = Len(s) + Len(t)
      /\ \A i \in 1 .. Len(s) + Len(t) : st[i] = IF i <= Len(s) THEN s[i] ELSE t[i - Len(s)]
  BY <1>1, ConcatProperties
<1> HIDE DEF st
<1>3. \A i \in 1 .. Len(s) : st[i] = s[i]
  BY <1>1, <1>2
<1>4. ASSUME NEW i \in 1 .. Len(t) PROVE st[Len(s) + i] = t[i]
  <2>1. /\ Len(s) + i \in 1 .. Len(s) + Len(t) /\ ~(Len(s) + i <= Len(s))
        /\ (Len(s) + i) - Len(s) = i
    BY <1>1
  <2> QED BY <1>2, <2>1
<1>5. ASSUME NEW i \in 1 .. Len(st) - 1 PROVE Follows(st[i], st[i + 1])
  <2>1. CASE i < Len(s)
    <3>1. i \in 1 .. Len(s) - 1 /\ i \in 1 .. Len(s) /\ i + 1 \in 1 .. Len(s)
      BY <1>1, <1>2, <2>1
    <3> QED BY <1>1, <1>3, <3>1
  <2>2. CASE i = Len(s)
    <3>1. st[i] = "]" /\ st[i + 1] = "["
      BY <1>1, <1>3, <1>4, <2>2
    <3> QED BY <3>1 DEF Follows
  <2>3. CASE i > Len(s)
    <3>1. PICK j \in 1 .. Len(t) - 1 : i = Len(s) + j
      <4>1. i - Len(s) \in 1 .. Len(t) - 1 /\ i = Len(s) + (i - Len(s))
        BY <1>1, <1>2, <2>3
      <4> QED BY <4>1
    <3>2. j \in 1 .. Len(t) /\ j + 1 \in 1 .. Len(t) /\ i + 1 = Len(s) + (j + 1)
      BY <1>1, <3>1
    <3>3. st[Len(s) + j] = t[j] /\ st[Len(s) + (j + 1)] = t[j + 1]
      BY <1>4, <3>2
    <3> QED BY <1>1, <3>1, <3>2, <3>3
  <2> QED BY <1>1, <1>2, <2>1, <2>2, <2>3
<1>6. st[1] = "[" /\ st[Len(st)] = "]" /\ Len(st) > 2
  <2>1. 1 \in 1 .. Len(s) /\ Len(t) \in 1 .. Len(t) /\ Len(s) + Len(t) > 2
    BY <1>1
  <2> QED BY <1>1, <1>2, <1>3, <1>4, <2>1
<1> QED BY <1>1, <1>2, <1>3, <1>5, <1>6 DEF st, IsBracketed

LEMMA DimensionIs ==
  ASSUME NEW d \in Seq(Digits), d # <<>>
  PROVE  /\ IsBracketed(Dimension(d)) /\ Len(d) \in Nat \ {0} /\ Len(Dimension(d)) = Len(d) + 2
         /\ \A i \in 1 .. Len(d) : Dimension(d)[1 + i] = d[i]
<1> DEFINE n     == Len(d)
           open  == <<"[">>
           close == <<"]">>
           dim   == Dimension(d)
<1>1. /\ d \in Seq(Chars) /\ n \in Nat \ {0} /\ \A i \in 1 .. n : d[i] \in Digits
  <2>1. Digits \subseteq Chars
    BY DEF Chars
  <2>2. d \in Seq(Chars)
    BY <2>1, SeqMonotonic
  <2> QED BY <2>2, LenProperties, ElementOfSeq, EmptySeq
<1>2. open \in Seq(Chars) /\ close \in Seq(Chars) /\ Len(open) = 1 /\ Len(close) = 1 /\ open[1] = "[" /\ close[1] = "]"
  <2>1. "[" \in Chars /\ "]" \in Chars
    BY DEF Chars
  <2> HIDE DEF Chars
  <2> QED BY <2>1
<1> HIDE DEF open, close, n
<1> DEFINE od == open \o d
<1>3. /\ od \in Seq(Chars) /\ Len(od) = n + 1
      /\ \A i \in 1 .. 1 + n : od[i] = IF i <= 1 THEN open[i] ELSE d[i - 1]
  <2>1. /\ od \in Seq(Chars) /\ Len(od) = Len(open) + Len(d)
        /\ \A i \in 1 .. Len(open) + Len(d) : od[i] = IF i <= Len(open) THEN open[i] ELSE d[i - Len(open)]
    BY <1>1, <1>2, ConcatProperties
  <2> HIDE DEF od
  <2> QED BY <1>1, <1>2, <2>1 DEF n
<1>4. dim = od \o close
  BY DEF Dimension, open, close
<1> HIDE DEF od, dim
<1>5. /\ dim \in Seq(Chars) /\ Len(dim) = n + 2
      /\ \A i \in 1 .. (n + 1) + 1 : dim[i] = IF i <= n + 1 THEN od[i] ELSE close[i - (n + 1)]
  <2>1. /\ dim \in Seq(Chars) /\ Len(dim) = Len(od) + Len(close)
        /\ \A i \in 1 .. Len(od) + Len(close) : dim[i] = IF i <= Len(od) THEN od[i] ELSE close[i - Len(od)]
    BY <1>2, <1>3, <1>4, ConcatProperties
  <2> QED BY <1>1, <1>2, <1>3, <2>1
<1>6. dim[1] = "[" /\ dim[n + 2] = "]"
  <2>1. dim[1] = od[1] /\ dim[n + 2] = close[1]
    BY <1>1, <1>5
  <2> QED BY <1>1, <1>2, <1>3, <2>1
<1>7. \A i \in 1 .. n : dim[1 + i] = d[i]
  <2> TAKE i \in 1 .. n
  <2>1. dim[1 + i] = od[1 + i]
    BY <1>1, <1>5
  <2>2. od[1 + i] = d[i]
    BY <1>1, <1>3
  <2> QED BY <2>1, <2>2
<1>8. ASSUME NEW i \in 1 .. Len(dim) - 1 PROVE Follows(dim[i], dim[i + 1])
  <2>0. i \in Nat /\ i >= 1 /\ i <= n + 1
    BY <1>1, <1>5
  <2>1. CASE i = 1
    <3>1. dim[2] = d[1] /\ d[1] \in Digits
      BY <1>1, <1>7
    <3> QED BY <1>6, <2>1, <3>1 DEF Follows
  <2>2. CASE i > 1 /\ i < n + 1
    <3>1. i - 1 \in 1 .. n /\ i \in 1 .. n /\ 1 + (i - 1) = i
      BY <1>1, <2>0, <2>2
    <3>2. dim[i] = d[i - 1] /\ dim[1 + i] = d[i] /\ d[i - 1] \in Digits /\ d[i] \in Digits
      <4>1. dim[1 + (i - 1)] = d[i - 1]
        BY <1>7, <3>1
      <4> QED BY <1>1, <1>7, <3>1, <4>1
    <3> QED BY <2>0, <3>2 DEF Follows
  <2>3. CASE i = n + 1
    <3>1. dim[1 + n] = d[n] /\ d[n] \in Digits /\ i + 1 = n + 2 /\ i = 1 + n
      BY <1>1, <1>7, <2>3
    <3> QED BY <1>6, <3>1 DEF Follows
  <2> QED BY <1>1, <2>0, <2>1, <2>2, <2>3
<1> QED BY <1>1, <1>5, <1>6, <1>7, <1>8 DEF IsBracketed, n, dim

LEMMA FlattenIs ==
  ASSUME NEW texts, NEW n \in Nat \ {0}, Len(texts) = n,
         \A i \in 1 .. n : IsBracketed(texts[i])
  PROVE  /\ IsBracketed(FlattenSeq(texts)) /\ Len(texts[1]) <= Len(FlattenSeq(texts))
         /\ \A j \in 1 .. Len(texts[1]) : FlattenSeq(texts)[j] = texts[1][j]
<1> DEFINE Body(h, i) == IF i = 1 THEN texts[i] ELSE h[i - 1] \o texts[i]
           Is(h) == h = [i \in 1 .. Len(texts) |-> Body(h, i)]
           V     == Seq(Chars)
           Step  == [i \in 1 .. n - 1 |-> [v \in V |-> v \o texts[i + 1]]]
           flat  == CHOOSE h : Is(h)
           t     == texts[1]
           Good(s) == /\ IsBracketed(s) /\ Len(t) <= Len(s)
                      /\ \A j \in 1 .. Len(t) : s[j] = t[j]
<1>1. \A i \in 1 .. n : texts[i] \in V
  BY DEF IsBracketed
<1>2. \E h : Is(h)
  <2>1. \A i \in 1 .. n - 1 : \A v \in V : Step[i][v] = v \o texts[i + 1] /\ Step[i][v] \in V
    <3> TAKE i \in 1 .. n - 1
    <3> TAKE v \in V
    <3>1. texts[i + 1] \in V
      BY <1>1
    <3>2. v \o texts[i + 1] \in V
      BY <3>1, ConcatProperties
    <3>3. Step[i][v] = v \o texts[i + 1]
      <4> HIDE DEF V
      <4> QED OBVIOUS
    <3> QED BY <3>2, <3>3
  <2>2. PICK h \in [0 .. n - 1 -> V] : Iterates(h, n - 1, t, Step)
    <3>1. n - 1 \in Nat /\ t \in V
      BY <1>1
    <3> HIDE DEF V, Step, t
    <3> QED BY <2>1, <3>1, Iteration
  <2> DEFINE g == [i \in 1 .. n |-> h[i - 1]]
  <2>3. ASSUME NEW i \in 1 .. n PROVE g[i] = Body(g, i)
    <3> HIDE DEF V, Step
    <3>1. CASE i = 1
      BY <2>2, <3>1 DEF Iterates
    <3>2. CASE i # 1
      <4>1. i - 1 \in 1 .. n - 1 /\ i - 1 \in 1 .. n /\ i - 1 \in 0 .. n - 1 /\ (i - 1) - 1 \in 0 .. n - 1 /\ (i - 1) + 1 = i
        BY <3>2
      <4>2. h[i - 1] = Step[i - 1][h[(i - 1) - 1]] /\ h[(i - 1) - 1] \in V
        BY <2>2, <4>1 DEF Iterates
      <4>3. h[i - 1] = h[(i - 1) - 1] \o texts[i]
        BY <2>1, <4>1, <4>2
      <4>4. g[i] = h[i - 1] /\ g[i - 1] = h[(i - 1) - 1]
        BY <4>1
      <4> HIDE DEF g
      <4> QED BY <3>2, <4>3, <4>4
    <3> QED BY <3>1, <3>2
  <2>4. g = [i \in 1 .. n |-> Body(g, i)]
    <3>1. g = [i \in 1 .. n |-> g[i]]
      OBVIOUS
    <3> HIDE DEF g, Body
    <3> QED BY <2>3, <3>1
  <2> HIDE DEF g, Body
  <2> QED BY <2>4
<1>3. Is(flat)
  <2> HIDE DEF Is
  <2> QED BY <1>2
<1>4. FlattenSeq(texts) = flat[n]
  BY DEF FlattenSeq
<1> HIDE DEF flat
<1>5. \A i \in 1 .. n : flat[i] = Body(flat, i)
  <2> HIDE DEF Body
  <2> QED BY <1>3
<1> DEFINE S == {k \in 0 .. n : k = 0 \/ Good(flat[k])}
<1>6. ASSUME NEW k \in 1 .. n, k - 1 \in S PROVE k \in S
  <2>1. CASE k = 1
    <3>1. flat[1] = t /\ IsBracketed(t) /\ Len(t) \in Nat
      BY <1>5, LenProperties DEF IsBracketed
    <3> QED BY <2>1, <3>1
  <2>2. CASE k # 1
    <3>1. flat[k] = flat[k - 1] \o texts[k] /\ Good(flat[k - 1]) /\ IsBracketed(texts[k])
      <4>1. flat[k] = flat[k - 1] \o texts[k]
        BY <1>5, <2>2
      <4>2. k - 1 = 0 \/ Good(flat[k - 1])
        <5> HIDE DEF Good
        <5> QED BY <1>6
      <4>3. k - 1 # 0
        BY <2>2
      <4> HIDE DEF Good
      <4> QED BY <4>1, <4>2, <4>3
    <3>2. IsBracketed(t) /\ Len(t) \in Nat
      BY LenProperties DEF IsBracketed
    <3>3. /\ IsBracketed(flat[k]) /\ Len(flat[k - 1]) \in Nat /\ Len(flat[k - 1]) <= Len(flat[k])
          /\ \A i \in 1 .. Len(flat[k - 1]) : flat[k][i] = flat[k - 1][i]
      BY <3>1, BracketsJoin
    <3>4. Len(flat[k]) \in Nat
      BY <3>3, LenProperties DEF IsBracketed
    <3> HIDE DEF t
    <3>5. Good(flat[k])
      BY <3>1, <3>2, <3>3, <3>4
    <3> HIDE DEF Good
    <3> QED BY <3>5
  <2> QED BY <2>1, <2>2
<1>7. n \in S
  <2>1. 0 \in S
    OBVIOUS
  <2> HIDE DEF S
  <2>2. 0 .. n \subseteq S
    BY <1>6, <2>1, NoneIsFirst
  <2> QED BY <2>2
<1> HIDE DEF Good
<1>8. Good(flat[n])
  BY <1>7
<1> QED BY <1>4, <1>8 DEF Good

LEMMA FunctionIsSequence ==
  ASSUME NEW S, NEW n \in Nat, NEW f \in [1 .. n -> S]
  PROVE  f \in Seq(S) /\ Len(f) = n
<1>1. f \in Seq(S)
  OBVIOUS
<1>2. DOMAIN f = 1 .. n /\ DOMAIN f = 1 .. Len(f) /\ Len(f) \in Nat
  BY <1>1, LenProperties
<1> QED BY <1>1, <1>2

-----------------------------------------------------------------------------
(* How a declarator is spelled, character by character.                    *)
LEMMA SpellingFacts ==
  ASSUME NEW s \in Spellings
  PROVE  /\ s.kind \in {"plain", "function"} /\ s.pointers \in Nat
         /\ s.name \in Seq(Chars) /\ Len(s.name) \in Nat \ {0} /\ DOMAIN s.name = 1 .. Len(s.name)
         /\ s.name[1] = "x" /\ \A i \in 1 .. Len(s.name) : s.name[i] \in Digits \cup {"x"}
         /\ Len(s.dims) \in Nat /\ DOMAIN s.dims = 1 .. Len(s.dims)
         /\ s.dims # <<>> => /\ Len(s.dims) > 0 /\ s.dims[1] \in Seq(Digits) /\ s.dims[1] # <<>>
                             /\ Head(s.dims) = s.dims[1] /\ Number(s.dims[1]) <= MaxUsize
         /\ s.dims = <<>> => Len(s.dims) = 0
         /\ \A i \in 1 .. Len(s.dims) : s.dims[i] \in Seq(Digits) /\ s.dims[i] # <<>>
         /\ s.kind = "function" => s.pointers = 1 /\ s.dims = <<>>
<1> DEFINE D == Seq(Digits) \ {<<>>}
<1>1. IsSpelling(s)
  BY FieldNameAssumption
<1>2. s.dims \in Seq(D) /\ s.name \in Seq(Chars)
  BY <1>1 DEF IsSpelling
<1> HIDE DEF D
<1>3. /\ Len(s.dims) \in Nat /\ DOMAIN s.dims = 1 .. Len(s.dims)
      /\ \A i \in 1 .. Len(s.dims) : s.dims[i] \in D
      /\ s.dims # <<>> => Len(s.dims) \in Nat \ {0}
  BY <1>2, LenProperties, ElementOfSeq, EmptySeq
<1>4. Head(s.dims) = s.dims[1] /\ Head(s.name) = s.name[1]
  OBVIOUS
<1>5. Len(s.name) \in Nat \ {0} /\ DOMAIN s.name = 1 .. Len(s.name)
  <2>1. s.name # <<>>
    BY <1>1 DEF IsSpelling, IsValidName
  <2> QED BY <1>2, <2>1, LenProperties, EmptySeq
<1>6. s.name[1] = "x" /\ \A i \in 1 .. Len(s.name) : s.name[i] \in Digits \cup {"x"}
  BY <1>1, <1>4, <1>5 DEF IsSpelling, IsValidName
<1>7. /\ s.kind \in {"plain", "function"} /\ s.pointers \in Nat
      /\ s.kind = "function" => s.pointers = 1 /\ s.dims = <<>>
      /\ s.dims # <<>> => Number(s.dims[1]) <= MaxUsize
  BY <1>1, <1>4 DEF IsSpelling
<1> QED BY <1>2, <1>3, <1>4, <1>5, <1>6, <1>7 DEF D

LEMMA SpelledPlain ==
  ASSUME NEW s \in Spellings, s.kind # "function"
  PROVE  LET t == Spell(s)
             p == s.pointers
             e == s.pointers + Len(s.name)
             k == Len(s.dims[1])
         IN  /\ t \in Seq(Chars) /\ Len(t) \in Nat /\ e <= Len(t)
             /\ \A i \in 1 .. p : t[i] = "*"
             /\ \A i \in 1 .. Len(s.name) : t[p + i] = s.name[i]
             /\ s.dims = <<>> => Len(t) = e
             /\ s.dims # <<>> =>
                  /\ k \in Nat \ {0} /\ e + k + 2 <= Len(t)
                  /\ t[e + 1] = "[" /\ t[e + 1 + k + 1] = "]" /\ t[Len(t)] = "]"
                  /\ \A i \in 1 .. k : t[e + 1 + i] = s.dims[1][i]
                  /\ \A i \in e + 1 .. Len(t) - 1 : Follows(t[i], t[i + 1])
<1> DEFINE p      == s.pointers
           n      == Len(s.name)
           e      == p + n
           k      == Len(s.dims[1])
           stars  == [i \in 1 .. p |-> "*"]
           front  == stars \o s.name
           dims   == [i \in DOMAIN s.dims |-> Dimension(s.dims[i])]
           tail   == FlattenSeq(dims)
           t      == Spell(s)
<1>1. p \in Nat /\ n \in Nat \ {0} /\ s.name \in Seq(Chars) /\ Len(s.dims) \in Nat /\ DOMAIN s.dims = 1 .. Len(s.dims)
  BY SpellingFacts
<1>2. stars \in Seq(Chars) /\ Len(stars) = p /\ \A i \in 1 .. p : stars[i] = "*"
  <2>1. stars \in [1 .. p -> Chars] /\ \A i \in 1 .. p : stars[i] = "*"
    BY DEF Chars
  <2> HIDE DEF stars
  <2>2. stars \in Seq(Chars) /\ Len(stars) = p
    BY <1>1, <2>1, FunctionIsSequence
  <2> QED BY <2>1, <2>2
<1>3. t = front \o tail
  BY DEF Spell
<1> HIDE DEF stars, n, t
<1>4. /\ front \in Seq(Chars) /\ Len(front) = e
      /\ \A i \in 1 .. p : front[i] = "*"
      /\ \A i \in 1 .. n : front[p + i] = s.name[i]
  <2>1. /\ front \in Seq(Chars) /\ Len(front) = p + n
        /\ \A i \in 1 .. p + n : front[i] = IF i <= p THEN stars[i] ELSE s.name[i - p]
    <3>1. /\ stars \o s.name \in Seq(Chars) /\ Len(stars \o s.name) = Len(stars) + Len(s.name)
          /\ \A i \in 1 .. Len(stars) + Len(s.name) :
               (stars \o s.name)[i] = IF i <= Len(stars) THEN stars[i] ELSE s.name[i - Len(stars)]
      BY <1>1, <1>2, ConcatProperties
    <3> QED BY <1>2, <3>1 DEF n
  <2> HIDE DEF front
  <2>2. \A i \in 1 .. p : front[i] = "*"
    BY <1>1, <1>2, <2>1
  <2>3. ASSUME NEW i \in 1 .. n PROVE front[p + i] = s.name[i]
    <3>1. p + i \in 1 .. p + n /\ ~(p + i <= p) /\ (p + i) - p = i
      BY <1>1
    <3> QED BY <2>1, <3>1
  <2> QED BY <2>1, <2>2, <2>3
<1> HIDE DEF front
<1>5. CASE s.dims = <<>>
  <2>1. tail = <<>>
    <3>1. dims = <<>>
      BY <1>5
    <3>2. Len(dims) = 0
      BY <3>1
    <3> HIDE DEF dims
    <3> QED BY <3>1, <3>2 DEF FlattenSeq
  <2>2. t = front
    <3> HIDE DEF tail
    <3>1. front \o <<>> = front
      BY <1>4, ConcatEmptySeq
    <3> QED BY <1>3, <2>1, <3>1
  <2> QED BY <1>1, <1>4, <1>5, <2>2 DEF t, n
<1>6. CASE s.dims # <<>>
  <2> DEFINE m == Len(s.dims)
             d == s.dims[1]
  <2>1. /\ m \in Nat \ {0} /\ d \in Seq(Digits) /\ d # <<>>
        /\ \A i \in 1 .. m : s.dims[i] \in Seq(Digits) /\ s.dims[i] # <<>>
    <3>1. Len(s.dims) > 0 /\ Len(s.dims) \in Nat
      BY <1>6, SpellingFacts
    <3> QED BY <1>6, <3>1, SpellingFacts
  <2>2. /\ Len(dims) = m /\ dims[1] = Dimension(d)
        /\ \A i \in 1 .. m : IsBracketed(dims[i])
    <3>1. \A i \in 1 .. m : dims[i] = Dimension(s.dims[i]) /\ IsBracketed(dims[i])
      BY <1>1, <2>1, DimensionIs
    <3>2. dims \in [1 .. m -> {dims[i] : i \in 1 .. m}]
      BY <1>1
    <3> HIDE DEF dims, m
    <3>3. Len(dims) = m
      BY <2>1, <3>2, FunctionIsSequence
    <3> QED BY <2>1, <3>1, <3>3
  <2> HIDE DEF dims, m
  <2>3. /\ IsBracketed(tail) /\ Len(Dimension(d)) <= Len(tail)
        /\ \A j \in 1 .. Len(Dimension(d)) : tail[j] = Dimension(d)[j]
    BY <2>1, <2>2, FlattenIs
  <2>4. /\ IsBracketed(Dimension(d)) /\ k \in Nat \ {0} /\ Len(Dimension(d)) = k + 2
        /\ \A i \in 1 .. k : Dimension(d)[1 + i] = d[i]
    BY <2>1, DimensionIs
  <2> HIDE DEF tail, d, k
  <2>5. /\ tail \in Seq(Chars) /\ Len(tail) \in Nat /\ k + 2 <= Len(tail)
        /\ tail[1] = "[" /\ tail[Len(tail)] = "]" /\ tail[k + 2] = "]"
        /\ \A i \in 1 .. k : tail[1 + i] = d[i]
        /\ \A i \in 1 .. Len(tail) - 1 : Follows(tail[i], tail[i + 1])
    <3>1. tail \in Seq(Chars) /\ Len(tail) \in Nat /\ tail[1] = "[" /\ tail[Len(tail)] = "]"
          /\ \A i \in 1 .. Len(tail) - 1 : Follows(tail[i], tail[i + 1])
      BY <2>3, LenProperties DEF IsBracketed
    <3>2. Dimension(d)[k + 2] = "]"
      BY <2>4 DEF IsBracketed
    <3>3. k + 2 \in 1 .. k + 2 /\ \A i \in 1 .. k : 1 + i \in 1 .. k + 2
      BY <2>4
    <3> QED BY <2>3, <2>4, <3>1, <3>2, <3>3
  <2>6. /\ t \in Seq(Chars) /\ Len(t) = e + Len(tail)
        /\ \A i \in 1 .. e + Len(tail) : t[i] = IF i <= e THEN front[i] ELSE tail[i - e]
    <3>1. /\ front \o tail \in Seq(Chars) /\ Len(front \o tail) = Len(front) + Len(tail)
          /\ \A i \in 1 .. Len(front) + Len(tail) :
               (front \o tail)[i] = IF i <= Len(front) THEN front[i] ELSE tail[i - Len(front)]
      BY <1>4, <2>5, ConcatProperties
    <3> QED BY <1>3, <1>4, <3>1
  <2>7. e \in Nat /\ Len(t) \in Nat
    BY <1>1, <2>5, <2>6
  <2>8. ASSUME NEW i \in 1 .. Len(tail) PROVE t[e + i] = tail[i]
    <3> HIDE DEF e
    <3>1. e + i \in 1 .. e + Len(tail) /\ ~(e + i <= e) /\ (e + i) - e = i
      BY <2>5, <2>7
    <3> QED BY <2>6, <3>1
  <2>9. \A i \in 1 .. p : t[i] = "*"
    <3>1. \A i \in 1 .. p : i \in 1 .. e + Len(tail) /\ i <= e
      BY <1>1, <2>5
    <3> QED BY <1>4, <2>6, <3>1
  <2>10. \A i \in 1 .. n : t[p + i] = s.name[i]
    <3>1. \A i \in 1 .. n : p + i \in 1 .. e + Len(tail) /\ p + i <= e
      BY <1>1, <2>5
    <3> QED BY <1>4, <2>6, <3>1
  <2> HIDE DEF e
  <2>11. t[e + 1] = "[" /\ t[e + 1 + k + 1] = "]" /\ t[Len(t)] = "]"
    <3>1. 1 \in 1 .. Len(tail) /\ k + 2 \in 1 .. Len(tail) /\ Len(tail) \in 1 .. Len(tail) /\ e + 1 + k + 1 = e + (k + 2)
      BY <2>4, <2>5, <2>7
    <3>2. t[e + 1] = tail[1] /\ t[e + (k + 2)] = tail[k + 2] /\ t[e + Len(tail)] = tail[Len(tail)]
      BY <2>8, <3>1
    <3> QED BY <2>5, <2>6, <3>1, <3>2
  <2>12. ASSUME NEW i \in 1 .. k PROVE t[e + 1 + i] = d[i]
    <3>1. 1 + i \in 1 .. Len(tail) /\ e + 1 + i = e + (1 + i)
      BY <2>4, <2>5, <2>7
    <3>2. t[e + (1 + i)] = tail[1 + i]
      BY <2>8, <3>1
    <3> QED BY <2>5, <3>1, <3>2
  <2>13. ASSUME NEW i \in e + 1 .. Len(t) - 1 PROVE Follows(t[i], t[i + 1])
    <3>1. PICK j \in 1 .. Len(tail) - 1 : i = e + j
      <4>1. i - e \in 1 .. Len(tail) - 1 /\ i = e + (i - e)
        BY <2>5, <2>6, <2>7
      <4> QED BY <4>1
    <3>2. j \in 1 .. Len(tail) /\ j + 1 \in 1 .. Len(tail) /\ i + 1 = e + (j + 1)
      BY <2>5, <2>7, <3>1
    <3>3. t[e + j] = tail[j] /\ t[e + (j + 1)] = tail[j + 1]
      BY <2>8, <3>2
    <3> QED BY <2>5, <3>1, <3>2, <3>3
  <2>14. e <= Len(t) /\ e + k + 2 <= Len(t)
    BY <2>4, <2>5, <2>6, <2>7
  <2> QED BY <1>6, <2>4, <2>6, <2>7, <2>9, <2>10, <2>11, <2>12, <2>13, <2>14 DEF t, n, e, k, d
<1> QED BY <1>5, <1>6

LEMMA SpelledFunction ==
  ASSUME NEW s \in Spellings, s.kind = "function"
  PROVE  /\ Spell(s) \in Seq(Chars) /\ Len(Spell(s)) = Len(s.name) + 5
         /\ Spell(s)[1] = "("
         /\ \A i \in 1 .. Len(s.name) : Spell(s)[2 + i] = s.name[i]
<1> DEFINE n     == Len(s.name)
           open  == <<"(", "*">>
           close == <<")", "(", ")">>
           front == open \o s.name
<1>1. n \in Nat /\ s.name \in Seq(Chars)
  BY SpellingFacts
<1>2. /\ open \in Seq(Chars) /\ Len(open) = 2 /\ open[1] = "("
      /\ close \in Seq(Chars) /\ Len(close) = 3
  <2>1. "(" \in Chars /\ "*" \in Chars /\ ")" \in Chars
    BY DEF Chars
  <2> HIDE DEF Chars
  <2> QED BY <2>1
<1>3. Spell(s) = front \o close
  BY DEF Spell
<1> HIDE DEF open, close
<1>4. /\ front \in Seq(Chars) /\ Len(front) = 2 + n
      /\ \A i \in 1 .. 2 + n : front[i] = IF i <= 2 THEN open[i] ELSE s.name[i - 2]
  <2>1. /\ open \o s.name \in Seq(Chars) /\ Len(open \o s.name) = Len(open) + Len(s.name)
        /\ \A i \in 1 .. Len(open) + Len(s.name) :
             (open \o s.name)[i] = IF i <= Len(open) THEN open[i] ELSE s.name[i - Len(open)]
    BY <1>1, <1>2, ConcatProperties
  <2> QED BY <1>2, <2>1
<1> HIDE DEF front, n
<1>5. /\ Spell(s) \in Seq(Chars) /\ Len(Spell(s)) = (2 + n) + 3
      /\ \A i \in 1 .. (2 + n) + 3 : Spell(s)[i] = IF i <= 2 + n THEN front[i] ELSE close[i - (2 + n)]
  <2>1. /\ front \o close \in Seq(Chars) /\ Len(front \o close) = (2 + n) + 3
        /\ \A i \in 1 .. (2 + n) + 3 : (front \o close)[i] = IF i <= 2 + n THEN front[i] ELSE close[i - (2 + n)]
    <3>1. /\ front \o close \in Seq(Chars) /\ Len(front \o close) = Len(front) + Len(close)
          /\ \A i \in 1 .. Len(front) + Len(close) :
               (front \o close)[i] = IF i <= Len(front) THEN front[i] ELSE close[i - Len(front)]
      BY <1>2, <1>4, ConcatProperties
    <3> QED BY <1>2, <1>4, <3>1
  <2> QED BY <1>3, <2>1, Zenon
<1>6. Spell(s)[1] = "("
  <2>1. Spell(s)[1] = front[1] /\ front[1] = open[1]
    BY <1>1, <1>4, <1>5
  <2> QED BY <1>2, <2>1
<1>7. ASSUME NEW i \in 1 .. n PROVE Spell(s)[2 + i] = s.name[i]
  <2>1. Spell(s)[2 + i] = front[2 + i] /\ front[2 + i] = s.name[i]
    BY <1>1, <1>4, <1>5
  <2> QED BY <2>1
<1> QED BY <1>1, <1>5, <1>6, <1>7 DEF n

-----------------------------------------------------------------------------
(* What the operators on the text at hand return.                          *)
LEMMA TextFacts ==
  ASSUME field_name \in FieldNames
  PROVE  /\ field_name \in Seq(Chars) /\ size \in Nat
         /\ \A i \in 0 .. size - 1 : Char(i) \in Chars
<1>1. field_name \in Seq(Chars)
  <2>1. CASE field_name \in Texts
    BY <2>1, FieldNameAssumption
  <2>2. ASSUME NEW s \in Spellings, field_name = Spell(s) PROVE field_name \in Seq(Chars)
    <3>1. CASE s.kind = "function"
      BY <2>2, <3>1, SpelledFunction
    <3>2. CASE s.kind # "function"
      BY <2>2, <3>2, SpelledPlain
    <3> QED BY <3>1, <3>2
  <2> QED BY <2>1, <2>2 DEF FieldNames
<1>2. size \in Nat
  BY <1>1, LenProperties DEF size
<1>3. ASSUME NEW i \in 0 .. size - 1 PROVE Char(i) \in Chars
  <2>1. i + 1 \in 1 .. Len(field_name)
    BY <1>2 DEF size
  <2> QED BY <1>1, <2>1, ElementOfSeq DEF Char
<1> QED BY <1>1, <1>2, <1>3

LEMMA TextIs ==
  ASSUME field_name \in FieldNames, NEW from \in Nat, NEW to \in Nat, from <= to, to <= size,
         NEW S, \A i \in from .. to - 1 : Char(i) \in S
  PROVE  /\ Text(from, to) \in Seq(S) /\ Len(Text(from, to)) = to - from
         /\ \A i \in 1 .. to - from : Text(from, to)[i] = Char(from + i - 1)
<1>1. \A i \in from + 1 .. to : field_name[i] \in S
  <2> TAKE i \in from + 1 .. to
  <2>1. i - 1 \in from .. to - 1 /\ (i - 1) + 1 = i
    OBVIOUS
  <2> QED BY <2>1 DEF Char
<1>2. /\ Text(from, to) \in Seq(S)
      /\ Len(Text(from, to)) = IF from + 1 <= to THEN to - (from + 1) + 1 ELSE 0
      /\ \A i \in 1 .. to - (from + 1) + 1 : Text(from, to)[i] = field_name[(from + 1) + i - 1]
  BY <1>1, SubSeqProperties DEF Text
<1>3. ASSUME NEW i \in 1 .. to - from PROVE Text(from, to)[i] = Char(from + i - 1)
  <2>1. i \in 1 .. to - (from + 1) + 1 /\ (from + 1) + i - 1 = (from + i - 1) + 1
    OBVIOUS
  <2> QED BY <1>2, <2>1 DEF Char
<1>4. (IF from + 1 <= to THEN to - (from + 1) + 1 ELSE 0) = to - from
  OBVIOUS
<1> QED BY <1>2, <1>3, <1>4

(* A valid name begins with a letter and has letters and digits only.      *)
LEMMA NameIs ==
  ASSUME field_name \in FieldNames, NEW from \in Nat, NEW to \in Nat, from <= to, to <= size,
         IsValidName(Text(from, to))
  PROVE  from < to /\ \A i \in from .. to - 1 : Char(i) \in Digits \cup {"x"}
<1> DEFINE t == Text(from, to)
<1>1. \A i \in from .. to - 1 : Char(i) \in Chars
  BY TextFacts
<1>2. t \in Seq(Chars) /\ Len(t) = to - from /\ \A i \in 1 .. to - from : t[i] = Char(from + i - 1)
  BY <1>1, TextIs
<1>3. t # <<>> /\ \A i \in DOMAIN t : t[i] \in Digits \cup {"x"}
  BY DEF IsValidName
<1> HIDE DEF t
<1>4. DOMAIN t = 1 .. to - from /\ to - from # 0
  BY <1>2, <1>3, LenProperties, EmptySeq
<1>5. ASSUME NEW i \in from .. to - 1 PROVE Char(i) \in Digits \cup {"x"}
  <2>1. i - from + 1 \in 1 .. to - from /\ from + (i - from + 1) - 1 = i
    OBVIOUS
  <2>2. t[i - from + 1] = Char(i)
    BY <1>2, <2>1
  <2> QED BY <1>3, <1>4, <2>1, <2>2
<1> QED BY <1>4, <1>5

(* The text between two offsets is a sequence with these characters.       *)
LEMMA TextEquals ==
  ASSUME field_name \in FieldNames, NEW name \in Seq(Chars), NEW from \in Nat, NEW to \in Nat,
         to = from + Len(name), to <= size, \A i \in 1 .. Len(name) : field_name[from + i] = name[i]
  PROVE  Text(from, to) = name
<1>1. \A i \in from .. to - 1 : Char(i) \in Chars
  BY TextFacts
<1>2. Len(name) \in Nat
  BY LenProperties
<1>3. /\ Text(from, to) \in Seq(Chars) /\ Len(Text(from, to)) = to - from
      /\ \A i \in 1 .. to - from : Text(from, to)[i] = Char(from + i - 1)
  <2>1. from <= to
    BY <1>2
  <2> QED BY <1>1, <2>1, TextIs
<1>4. ASSUME NEW i \in 1 .. Len(name) PROVE Text(from, to)[i] = name[i]
  <2>1. Text(from, to)[i] = Char(from + i - 1)
    BY <1>2, <1>3
  <2>2. (from + i - 1) + 1 = from + i
    BY <1>2
  <2> QED BY <2>1, <2>2 DEF Char
<1> QED BY <1>2, <1>3, <1>4, SeqEqual

LEMMA CountPointersIs ==
  ASSUME field_name \in FieldNames
  PROVE  /\ CountPointers \in 0 .. size
         /\ \A j \in 0 .. CountPointers - 1 : Char(j) = "*"
         /\ \A p \in 0 .. size :
              (\A j \in 0 .. p - 1 : j + 1 < size /\ Char(j) = "*") /\ (p < size => Char(p) # "*")
                => CountPointers = p
<1> DEFINE S == {i \in 0 .. size : \A j \in 0 .. i - 1 : j + 1 < size /\ Char(j) = "*"}
<1>1. size \in Nat
  BY TextFacts
<1>2. 0 \in S /\ S \in SUBSET (0 .. size)
  BY <1>1
<1>3. CountPointers = Max(S)
  BY DEF CountPointers
<1>4. Max(S) \in S /\ \A j \in S : j <= Max(S)
  <2> HIDE DEF S
  <2> QED BY <1>1, <1>2, MaxIsGreatest
<1>5. ASSUME NEW p \in 0 .. size, \A j \in 0 .. p - 1 : j + 1 < size /\ Char(j) = "*",
             p < size => Char(p) # "*"
      PROVE  CountPointers = p
  <2>1. p \in S
    BY <1>5
  <2>2. ~(Max(S) > p)
    <3> SUFFICES ASSUME Max(S) > p PROVE FALSE
      OBVIOUS
    <3>1. p \in 0 .. Max(S) - 1 /\ p < size
      BY <1>1, <1>4
    <3>2. Char(p) = "*"
      BY <1>4, <3>1
    <3> QED BY <1>5, <3>1, <3>2
  <2>3. p <= Max(S) /\ Max(S) \in 0 .. size
    BY <1>4, <2>1
  <2> HIDE DEF S
  <2> QED BY <1>3, <2>2, <2>3
<1> QED BY <1>3, <1>4, <1>5

LEMMA NameLengthIs ==
  ASSUME field_name \in FieldNames, NEW p \in 0 .. size
  PROVE  /\ CalculateNameLength(p) \in 0 .. size - p
         /\ p + CalculateNameLength(p) = size \/ Char(p + CalculateNameLength(p)) = "["
         /\ \A n \in 0 .. size - p :
              (p + n = size \/ Char(p + n) = "[") /\ (\A i \in p .. p + n - 1 : Char(i) # "[")
                => CalculateNameLength(p) = n
<1> DEFINE S == {i \in p .. size : i = size \/ Char(i) = "["}
<1>1. size \in Nat /\ p \in Nat
  BY TextFacts
<1>2. size \in S /\ S \in SUBSET Nat
  BY <1>1
<1>3. CalculateNameLength(p) = Min(S) - p
  BY DEF CalculateNameLength
<1>4. Min(S) \in S /\ \A j \in S : Min(S) <= j
  <2> HIDE DEF S
  <2> QED BY <1>2, MinIsLeast
<1>5. Min(S) \in p .. size /\ (Min(S) = size \/ Char(Min(S)) = "[")
  BY <1>4
<1>6. ASSUME NEW n \in 0 .. size - p, p + n = size \/ Char(p + n) = "[",
             \A i \in p .. p + n - 1 : Char(i) # "["
      PROVE  Min(S) = p + n
  <2>1. p + n \in S
    BY <1>1, <1>6
  <2>2. ~(Min(S) < p + n)
    <3> SUFFICES ASSUME Min(S) < p + n PROVE FALSE
      OBVIOUS
    <3>1. Min(S) \in p .. p + n - 1 /\ Min(S) # size
      BY <1>1, <1>5
    <3> HIDE DEF S
    <3> QED BY <1>5, <1>6, <3>1
  <2>3. Min(S) <= p + n
    BY <1>4, <2>1
  <2> HIDE DEF S
  <2> QED BY <1>1, <1>5, <2>2, <2>3
<1> HIDE DEF S
<1>7. p + (Min(S) - p) = Min(S) /\ \A n \in Nat : Min(S) = p + n => Min(S) - p = n
  BY <1>1, <1>5
<1> QED BY <1>1, <1>3, <1>5, <1>6, <1>7

LEMMA LeadingDigitsIs ==
  ASSUME NEW from \in Nat, NEW to \in Nat, from <= to
  PROVE  /\ LeadingDigits(from, to) \in 0 .. to - from
         /\ \A i \in from .. from + LeadingDigits(from, to) - 1 : Char(i) \in Digits
         /\ \A n \in 0 .. to - from :
              (\A i \in from .. from + n - 1 : Char(i) \in Digits) /\ Char(from + n) \notin Digits
                => LeadingDigits(from, to) = n
<1> DEFINE S == {n \in 0 .. to - from : \A i \in from .. from + n - 1 : Char(i) \in Digits}
<1>1. 0 \in S /\ S \in SUBSET (0 .. to - from) /\ to - from \in Nat
  OBVIOUS
<1>2. LeadingDigits(from, to) = Max(S)
  BY DEF LeadingDigits
<1>3. Max(S) \in S /\ \A j \in S : j <= Max(S)
  <2> HIDE DEF S
  <2> QED BY <1>1, MaxIsGreatest
<1>4. ASSUME NEW n \in 0 .. to - from, \A i \in from .. from + n - 1 : Char(i) \in Digits,
             Char(from + n) \notin Digits
      PROVE  Max(S) = n
  <2>1. n \in S
    BY <1>4
  <2>2. ~(Max(S) > n)
    <3> SUFFICES ASSUME Max(S) > n PROVE FALSE
      OBVIOUS
    <3>1. from + n \in from .. from + Max(S) - 1
      BY <1>3
    <3> QED BY <1>3, <1>4, <3>1
  <2>3. n <= Max(S) /\ Max(S) \in 0 .. to - from
    BY <1>3, <2>1
  <2> HIDE DEF S
  <2> QED BY <2>2, <2>3
<1> QED BY <1>2, <1>3, <1>4

-----------------------------------------------------------------------------
(* The types pushed so far.                                                *)
IsTypes(t) == t \in Seq(Wrappers) /\ \A i \in DOMAIN t : t[i].count <= MaxUsize

LEMMA TypesPushed ==
  /\ IsTypes(<<>>)
  /\ IsTypes(<<FunctionType, PointerType>>)
  /\ \A n \in Nat : n <= MaxUsize => IsTypes(<<ArrayType(n)>>)
  /\ \A t : \A n \in Nat : IsTypes(t) => IsTypes(t \o Pointers(n))
<1>1. 1 <= MaxUsize /\ 0 <= MaxUsize /\ MaxUsize \in Nat
  BY DeclaratorAssumption
<1>2. /\ FunctionType \in Wrappers /\ FunctionType.count <= MaxUsize
      /\ PointerType \in Wrappers /\ PointerType.count <= MaxUsize
  BY <1>1 DEF FunctionType, PointerType, Wrappers
<1>3. IsTypes(<<>>)
  BY DEF IsTypes
<1>4. IsTypes(<<FunctionType, PointerType>>)
  <2> HIDE DEF FunctionType, PointerType
  <2> QED BY <1>2 DEF IsTypes
<1>5. ASSUME NEW n \in Nat, n <= MaxUsize PROVE IsTypes(<<ArrayType(n)>>)
  <2>1. ArrayType(n) \in Wrappers /\ ArrayType(n).count <= MaxUsize
    BY <1>5 DEF ArrayType, Wrappers
  <2> HIDE DEF ArrayType
  <2> QED BY <2>1 DEF IsTypes
<1>6. ASSUME NEW t, IsTypes(t), NEW n \in Nat PROVE IsTypes(t \o Pointers(n))
  <2> DEFINE p == Pointers(n)
  <2>1. p \in Seq(Wrappers) /\ Len(p) = n /\ \A i \in 1 .. n : p[i] = PointerType
    <3>1. p \in [1 .. n -> Wrappers] /\ \A i \in 1 .. n : p[i] = PointerType
      BY <1>2 DEF Pointers
    <3> HIDE DEF p
    <3> QED BY <3>1, FunctionIsSequence
  <2>2. t \in Seq(Wrappers) /\ Len(t) \in Nat /\ \A i \in 1 .. Len(t) : t[i].count <= MaxUsize
    BY <1>6, LenProperties DEF IsTypes
  <2> HIDE DEF p
  <2>3. /\ t \o p \in Seq(Wrappers) /\ Len(t \o p) = Len(t) + Len(p)
        /\ \A i \in 1 .. Len(t) + Len(p) : (t \o p)[i] = IF i <= Len(t) THEN t[i] ELSE p[i - Len(t)]
    BY <2>1, <2>2, ConcatProperties
  <2>4. ASSUME NEW i \in 1 .. Len(t) + n PROVE (t \o p)[i].count <= MaxUsize
    <3>1. CASE i <= Len(t)
      <4>1. i \in 1 .. Len(t) /\ (t \o p)[i] = t[i]
        BY <2>1, <2>2, <2>3, <3>1
      <4> QED BY <2>2, <4>1
    <3>2. CASE ~(i <= Len(t))
      <4>1. i - Len(t) \in 1 .. n
        BY <2>2, <3>2
      <4>2. (t \o p)[i] = p[i - Len(t)]
        BY <2>1, <2>3, <3>2
      <4> QED BY <1>2, <2>1, <4>1, <4>2
    <3> QED BY <3>1, <3>2
  <2>5. DOMAIN (t \o p) = 1 .. Len(t) + n
    BY <2>1, <2>3, LenProperties
  <2> QED BY <2>3, <2>4, <2>5 DEF IsTypes, p
<1> QED BY <1>3, <1>4, <1>5, <1>6

(* What the type invariant says, with the offsets as numbers.              *)
LEMMA TypeFacts ==
  TypeOK <=> /\ field_name \in FieldNames /\ at \in Parsers
             /\ pointer_count \in 0 .. size /\ name_length \in 0 .. size
             /\ name_end \in 0 .. size /\ array_begin \in 0 .. size
             /\ field \in [from : 0 .. size, to : 0 .. size] \cup {Error}
             /\ IsTypes(types)
BY DEF TypeOK, size, IsTypes

(* The count is read from the digits behind the first bracket.             *)
LEMMA CountFacts ==
  ASSUME TypeOK, PartsAreRead, at = "count"
  PROVE  LET length == LeadingDigits(array_begin, name_end)
             text   == Text(array_begin, array_begin + length)
         IN  /\ types = <<>> /\ NameEnd \in Nat /\ array_begin = NameEnd + 1 /\ array_begin <= name_end
             /\ length \in 0 .. name_end - array_begin
             /\ length # 0 => Char(array_begin) \in Digits
             /\ Number(text) \in Nat
<1> DEFINE length == LeadingDigits(array_begin, name_end)
           text   == Text(array_begin, array_begin + length)
<1>1. /\ field_name \in FieldNames /\ size \in Nat /\ pointer_count \in 0 .. size /\ name_length \in 0 .. size
      /\ name_end \in 0 .. size /\ array_begin \in 0 .. size
  BY TypeFacts, TextFacts
<1>2. BracketsScanned /\ Char(name_end) = "]"
  BY DEF PartsAreRead
<1>3. NameEnd \in Nat /\ types = <<>> /\ array_begin = NameEnd + 1 /\ array_begin <= name_end
  <2>1. NameEnd \in Nat /\ NameEnd <= name_end /\ array_begin = NameEnd + 1 /\ Char(NameEnd) = "["
    BY <1>1, <1>2 DEF BracketsScanned, NameEnd
  <2>2. NameEnd # name_end
    BY <1>2, <2>1
  <2> QED BY <1>1, <1>2, <2>1, <2>2 DEF BracketsScanned
<1>4. length \in 0 .. name_end - array_begin /\ \A i \in array_begin .. array_begin + length - 1 : Char(i) \in Digits
  BY <1>1, <1>3, LeadingDigitsIs
<1> HIDE DEF length
<1>5. length # 0 => array_begin \in array_begin .. array_begin + length - 1
  BY <1>1, <1>4
<1>6. text \in Seq(Digits)
  <2>1. array_begin \in Nat /\ array_begin + length \in Nat /\ array_begin <= array_begin + length /\ array_begin + length <= size
    BY <1>1, <1>3, <1>4
  <2> QED BY <1>1, <1>4, <2>1, TextIs
<1>7. Number(text) \in Nat
  <2> HIDE DEF text
  <2> QED BY <1>6, NumberType
<1> QED BY <1>3, <1>4, <1>5, <1>7 DEF length

-----------------------------------------------------------------------------
(* The invariant holds at the beginning.                                   *)
LEMMA InvInit == Init => IInv
<1> SUFFICES ASSUME Init PROVE IInv
  OBVIOUS
<1>1. field_name \in FieldNames /\ size \in Nat
  BY TextFacts DEF Init
<1>2. TypeOK
  BY <1>1, TypeFacts, TypesPushed DEF Init, Parsers, NoField
<1>3. PartsAreRead
  BY DEF Init, PartsAreRead
<1>4. AcceptedIsWellFormed
  BY DEF Init, AcceptedIsWellFormed, IsField
<1>5. \A s \in Spellings : AsSpelled(s)
  BY DEF Init, AsSpelled
<1> QED BY <1>2, <1>3, <1>4, <1>5 DEF IInv

LEMMA TypePreserved == TypeOK /\ PartsAreRead /\ [Next]_vars => TypeOK'
<1> SUFFICES ASSUME TypeOK, PartsAreRead, [Next]_vars PROVE TypeOK'
  OBVIOUS
<1>1. /\ field_name \in FieldNames /\ at \in Parsers /\ size \in Nat
      /\ pointer_count \in 0 .. size /\ name_length \in 0 .. size
      /\ name_end \in 0 .. size /\ array_begin \in 0 .. size
      /\ field \in [from : 0 .. size, to : 0 .. size] \cup {Error}
      /\ IsTypes(types)
  BY TypeFacts, TextFacts
<1>2. field_name' = field_name /\ size' = size
  BY DEF Next, vars, size, ProcessFunctionPointerField, ReadName, BeginArray, ScanDigit, ScanBracket,
         ScanEnds, ReadCount, AddPointers
<1> SUFFICES /\ at' \in Parsers
             /\ pointer_count' \in 0 .. size /\ name_length' \in 0 .. size
             /\ name_end' \in 0 .. size /\ array_begin' \in 0 .. size
             /\ field' \in [from : 0 .. size, to : 0 .. size] \cup {Error}
             /\ IsTypes(types')
  BY <1>1, <1>2 DEF TypeOK, size, IsTypes
<1>3. CASE ProcessFunctionPointerField
  <2>1. /\ at' \in {"name", "done"}
        /\ UNCHANGED <<pointer_count, name_length, name_end, array_begin>>
        /\ types' = types \/ types' = <<FunctionType, PointerType>>
        /\ field' = field \/ field' = Error \/ (size > 5 /\ field' = [from |-> 2, to |-> size - 3])
    <3>1. CASE ~(size > 0 /\ Char(0) = "(")
      BY <1>3, <3>1 DEF ProcessFunctionPointerField
    <3>2. CASE size > 0 /\ Char(0) = "(" /\ size > 5 /\ IsValidName(Text(2, size - 3))
      BY <1>3, <3>2 DEF ProcessFunctionPointerField
    <3>3. CASE size > 0 /\ Char(0) = "(" /\ ~(size > 5 /\ IsValidName(Text(2, size - 3)))
      BY <1>3, <3>3 DEF ProcessFunctionPointerField, Fail
    <3> QED BY <3>1, <3>2, <3>3
  <2>2. field' \in [from : 0 .. size, to : 0 .. size] \cup {Error}
    BY <1>1, <2>1
  <2> QED BY <1>1, <2>1, <2>2, TypesPushed DEF Parsers
<1>4. CASE ReadName
  <2>1. CountPointers \in 0 .. size /\ CalculateNameLength(CountPointers) \in 0 .. size - CountPointers
    BY <1>1, CountPointersIs, NameLengthIs
  <2>2. /\ at' \in {"arrays", "done"} /\ types' = types /\ array_begin' = array_begin
        /\ field' = field \/ field' = Error
        /\ pointer_count' = CountPointers /\ name_length' = CalculateNameLength(CountPointers)
        /\ name_end' = CountPointers + CalculateNameLength(CountPointers)
    BY <1>4 DEF ReadName, Fail
  <2> QED BY <1>1, <2>1, <2>2 DEF Parsers
<1>5. CASE BeginArray
  BY <1>1, <1>5 DEF BeginArray, Fail, Parsers
<1>6. CASE ScanDigit
  BY <1>1, <1>6 DEF ScanDigit, Fail, Parsers
<1>7. CASE ScanBracket
  <2>1. /\ at' \in {at, "done"} /\ field' \in {field, Error}
        /\ UNCHANGED <<pointer_count, name_length, array_begin, types>>
        /\ name_end + 1 < size
        /\ name_end' = name_end + 1 \/ (name_end + 2 < size /\ name_end' = name_end + 2)
    <3>1. CASE name_end + 2 >= size
      BY <1>1, <1>7, <3>1 DEF ScanBracket
    <3>2. CASE ~(name_end + 2 >= size)
      BY <1>1, <1>7, <3>2 DEF ScanBracket, Fail
    <3> QED BY <3>1, <3>2
  <2> QED BY <1>1, <2>1 DEF Parsers
<1>8. CASE ScanEnds
  BY <1>1, <1>8 DEF ScanEnds, Fail, Parsers
<1>9. CASE ReadCount
  <2> DEFINE count == Number(Text(array_begin, array_begin + LeadingDigits(array_begin, name_end)))
  <2>1. count \in Nat /\ types = <<>>
    BY <1>9, CountFacts DEF ReadCount
  <2>2. /\ at' \in {"arrays", "done"} /\ field' \in {field, Error}
        /\ UNCHANGED <<pointer_count, name_length, name_end, array_begin>>
        /\ types' = types \/ (~(count > MaxUsize) /\ types' = Append(types, ArrayType(count)))
    <3>1. CASE LeadingDigits(array_begin, name_end) = 0 \/ count > MaxUsize
      BY <1>9, <3>1 DEF ReadCount, Fail
    <3>2. CASE ~(LeadingDigits(array_begin, name_end) = 0 \/ count > MaxUsize)
      BY <1>9, <3>2 DEF ReadCount
    <3> QED BY <3>1, <3>2
  <2> HIDE DEF count
  <2>3. types' = types \/ (count <= MaxUsize /\ types' = <<ArrayType(count)>>)
    BY <2>1, <2>2, DeclaratorAssumption
  <2>4. IsTypes(types')
    BY <1>1, <2>1, <2>3, TypesPushed
  <2> QED BY <1>1, <2>2, <2>4 DEF Parsers
<1>10. CASE AddPointers
  <2>1. NameEnd <= size
    BY <1>10 DEF AddPointers, PartsAreRead, NameIsRead
  <2>2. /\ at' = "done" /\ types' = types \o Pointers(pointer_count)
        /\ field' = [from |-> pointer_count, to |-> NameEnd]
        /\ UNCHANGED <<pointer_count, name_length, name_end, array_begin>>
    BY <1>10 DEF AddPointers, NameEnd
  <2>3. IsTypes(types')
    BY <1>1, <2>2, TypesPushed
  <2>4. NameEnd \in 0 .. size
    BY <1>1, <2>1 DEF NameEnd
  <2> QED BY <1>1, <2>2, <2>3, <2>4 DEF Parsers
<1>11. CASE UNCHANGED vars
  BY <1>1, <1>11 DEF vars
<1> QED BY <1>3, <1>4, <1>5, <1>6, <1>7, <1>8, <1>9, <1>10, <1>11 DEF Next

-----------------------------------------------------------------------------
(* A step keeps the text, and what is said of it.                          *)
LEMMA TextKept ==
  ASSUME [Next]_vars
  PROVE  /\ field_name' = field_name /\ size' = size
         /\ \A i : Char(i)' = Char(i)
         /\ \A i, j : Text(i, j)' = Text(i, j)
         /\ \A i : Goes(i)' = Goes(i)
         /\ \A i : Brackets(i)' = Brackets(i)
<1>1. field_name' = field_name
  BY DEF Next, vars, ProcessFunctionPointerField, ReadName, BeginArray, ScanDigit, ScanBracket,
         ScanEnds, ReadCount, AddPointers
<1> QED BY <1>1 DEF size, Char, Text, Goes, Brackets

LEMMA NameKept ==
  ASSUME [Next]_vars, UNCHANGED <<pointer_count, name_length>>
  PROVE  NameEnd' = NameEnd /\ NameIsRead' = NameIsRead
<1>1. NameEnd' = NameEnd
  BY DEF NameEnd
<1>2. field_name' = field_name
  BY TextKept
<1>3. pointer_count' = pointer_count
  OBVIOUS
<1> QED BY <1>1, <1>2, <1>3 DEF NameIsRead, size, Char, Text

(* When the scan has come to the end, there are brackets behind the name.  *)
LEMMA BracketsRead ==
  ASSUME TypeOK, BracketsScanned, Char(name_end) = "]", name_end = size - 1,
         Char(NameEnd + 1) \in Digits
  PROVE  NameEnd < size - 2 /\ Brackets(NameEnd)
<1>1. size \in Nat /\ NameEnd \in Nat /\ name_end \in Nat
  <2>1. /\ size \in Nat /\ pointer_count \in 0 .. size /\ name_length \in 0 .. size /\ name_end \in 0 .. size
    BY TypeFacts, TextFacts
  <2> QED BY <2>1 DEF NameEnd
<1>2. NameEnd <= size - 1 /\ Char(NameEnd) = "["
  BY <1>1 DEF BracketsScanned
<1>3. "[" # "]" /\ "]" \notin Digits
  BY DEF Digits, Value
<1>4. NameEnd # size - 1 /\ NameEnd + 1 # size - 1
  BY <1>2, <1>3
<1>5. NameEnd < size - 2
  BY <1>1, <1>2, <1>4
<1>6. \A i \in NameEnd .. size - 2 : Goes(i)
  <2>1. size - 2 = name_end - 1
    BY <1>1
  <2> QED BY <2>1 DEF BracketsScanned
<1> QED BY <1>2, <1>5, <1>6 DEF Brackets, Goes

LEMMA PartsPreserved == TypeOK /\ PartsAreRead /\ [Next]_vars => PartsAreRead'
<1> SUFFICES ASSUME TypeOK, PartsAreRead, [Next]_vars PROVE PartsAreRead'
  OBVIOUS
<1>1. /\ field_name \in FieldNames /\ at \in Parsers /\ size \in Nat
      /\ pointer_count \in 0 .. size /\ name_length \in 0 .. size
      /\ name_end \in 0 .. size /\ array_begin \in 0 .. size /\ NameEnd \in Nat
  <2>1. size \in Nat /\ pointer_count \in 0 .. size /\ name_length \in 0 .. size
    BY TypeFacts, TextFacts
  <2> QED BY <2>1, TypeFacts DEF NameEnd
<1>2. /\ field_name' = field_name /\ size' = size
      /\ \A i : Char(i)' = Char(i)
      /\ \A i, j : Text(i, j)' = Text(i, j)
      /\ \A i : Goes(i)' = Goes(i)
      /\ \A i : Brackets(i)' = Brackets(i)
  BY TextKept
<1>3. CASE at' = "done"
  BY <1>3 DEF PartsAreRead
<1>4. CASE ProcessFunctionPointerField /\ at' # "done"
  <2>1. at' = "name" /\ at = "function" /\ types' = types /\ ~(size > 0 /\ Char(0) = "(")
    BY <1>4 DEF ProcessFunctionPointerField, Fail
  <2>2. types' = <<>> /\ (size' > 0 => Char(0)' # "(")
    BY <1>2, <2>1 DEF PartsAreRead
  <2> QED BY <2>1, <2>2 DEF PartsAreRead
<1>5. CASE ReadName /\ at' # "done"
  <2> DEFINE p == CountPointers
             n == CalculateNameLength(p)
  <2>1. /\ p \in 0 .. size /\ \A j \in 0 .. p - 1 : Char(j) = "*"
        /\ n \in 0 .. size - p /\ (p + n = size \/ Char(p + n) = "[")
    BY <1>1, CountPointersIs, NameLengthIs
  <2>2. /\ pointer_count' = p /\ name_length' = n /\ name_end' = p + n /\ types' = types
        /\ at' = "arrays" /\ at = "name" /\ IsValidName(Text(p, p + n))
    BY <1>5 DEF ReadName, Fail
  <2> HIDE DEF p, n
  <2>3. p + n <= size /\ NameEnd' = p + n
    BY <1>1, <2>1, <2>2 DEF NameEnd
  <2>4. NameIsRead'
    <3>1. Text(pointer_count, NameEnd)' = Text(p, p + n)
      BY <1>2, <2>2, <2>3 DEF Text
    <3>2. Char(NameEnd)' = Char(p + n)
      BY <1>2, <2>3 DEF Char
    <3>3. \A j \in 0 .. (pointer_count - 1)' : Char(j)' = "*"
      BY <1>2, <2>1, <2>2
    <3> QED BY <1>2, <2>1, <2>2, <2>3, <3>1, <3>2, <3>3 DEF NameIsRead
  <2>5. types = <<>> /\ (size > 0 => Char(0) # "(")
    BY <2>2 DEF PartsAreRead
  <2> QED BY <1>2, <2>2, <2>3, <2>4, <2>5 DEF PartsAreRead
<1>6. ASSUME at \in {"arrays", "scan", "count"}, UNCHANGED <<pointer_count, name_length>>
      PROVE  /\ NameIsRead' /\ NameEnd' = NameEnd /\ NameEnd <= size
             /\ size' > 0 => Char(0)' # "("
  <2>1. NameEnd' = NameEnd /\ NameIsRead' = NameIsRead
    BY <1>6, NameKept
  <2>2. NameIsRead /\ (size > 0 => Char(0) # "(")
    BY <1>6 DEF PartsAreRead
  <2> QED BY <1>2, <2>1, <2>2 DEF NameIsRead
<1>7. CASE BeginArray /\ at' # "done"
  <2>1. /\ at' = "scan" /\ at = "arrays" /\ name_end + 1 < size /\ array_begin' = name_end + 1
        /\ UNCHANGED <<pointer_count, name_length, name_end, types>> /\ Char(name_end) = "["
    BY <1>7 DEF BeginArray, Fail
  <2>2. types = <<>> /\ name_end = NameEnd
    BY <1>1, <2>1 DEF PartsAreRead
  <2>3. NameEnd' = NameEnd /\ NameIsRead' /\ (size' > 0 => Char(0)' # "(")
    BY <1>6, <2>1
  <2>4. Char(name_end)' = "[" /\ Char(NameEnd)' = "["
    BY <1>2, <2>1, <2>2, <2>3 DEF Char
  <2>5. BracketsScanned'
    BY <1>1, <1>2, <2>1, <2>2, <2>3, <2>4 DEF BracketsScanned
  <2> QED BY <2>1, <2>3, <2>4, <2>5 DEF PartsAreRead
<1>8. ASSUME BracketsScanned, NEW e \in Nat, NameEnd <= e, e < size, name_end' = e,
             UNCHANGED <<pointer_count, name_length, array_begin, types>>,
             \A i \in NameEnd .. e - 1 : Goes(i)
      PROVE  BracketsScanned'
  <2>1. NameEnd' = NameEnd
    BY <1>8, NameKept
  <2>2. Char(NameEnd)' = Char(NameEnd)
    BY <1>2, <2>1 DEF Char
  <2> QED BY <1>2, <1>8, <2>1, <2>2 DEF BracketsScanned
<1>9. CASE ScanDigit /\ at' # "done"
  <2>1. /\ at' = "scan" /\ at = "scan" /\ name_end + 1 < size /\ name_end' = name_end + 1
        /\ UNCHANGED <<pointer_count, name_length, array_begin, types>> /\ Char(name_end + 1) \in Digits
    BY <1>9 DEF ScanDigit, Fail
  <2>2. BracketsScanned /\ Char(name_end) \in Digits \cup {"["}
    BY <1>1, <2>1 DEF PartsAreRead
  <2>3. Goes(name_end)
    BY <2>1, <2>2 DEF Goes
  <2>4. \A i \in NameEnd .. (name_end + 1) - 1 : Goes(i)
    BY <1>1, <2>2, <2>3 DEF BracketsScanned
  <2>5. BracketsScanned'
    BY <1>1, <1>8, <2>1, <2>2, <2>4 DEF BracketsScanned
  <2>6. Char(name_end)' \in Digits
    BY <1>2, <2>1 DEF Char
  <2>7. NameIsRead' /\ (size' > 0 => Char(0)' # "(")
    BY <1>6, <2>1
  <2> QED BY <2>1, <2>5, <2>6, <2>7 DEF PartsAreRead
<1>10. CASE ScanBracket /\ at' # "done"
  <2>1. /\ at' = "scan" /\ at = "scan" /\ name_end + 1 < size /\ Char(name_end + 1) = "]"
        /\ UNCHANGED <<pointer_count, name_length, array_begin, types>>
        /\ \/ name_end + 2 >= size /\ name_end' = name_end + 1
           \/ name_end + 2 < size /\ name_end' = name_end + 2 /\ Char(name_end + 2) = "["
    <3>1. CASE name_end + 2 >= size
      BY <1>10, <3>1 DEF ScanBracket
    <3>2. CASE ~(name_end + 2 >= size)
      BY <1>1, <1>10, <3>2 DEF ScanBracket, Fail
    <3> QED BY <3>1, <3>2
  <2>2. BracketsScanned /\ Char(name_end) \in Digits \cup {"["}
    BY <1>1, <2>1 DEF PartsAreRead
  <2>3. Goes(name_end)
    BY <2>1, <2>2 DEF Goes
  <2>4. NameIsRead' /\ (size' > 0 => Char(0)' # "(")
    BY <1>6, <2>1
  <2>5. CASE name_end + 2 >= size /\ name_end' = name_end + 1
    <3>1. \A i \in NameEnd .. (name_end + 1) - 1 : Goes(i)
      BY <1>1, <2>2, <2>3 DEF BracketsScanned
    <3>2. BracketsScanned'
      BY <1>1, <1>8, <2>1, <2>2, <2>5, <3>1 DEF BracketsScanned
    <3>3. Char(name_end)' = "]" /\ name_end' = size' - 1
      BY <1>1, <1>2, <2>1, <2>5 DEF Char
    <3> QED BY <2>1, <2>4, <3>2, <3>3 DEF PartsAreRead
  <2>6. CASE name_end + 2 < size /\ name_end' = name_end + 2 /\ Char(name_end + 2) = "["
    <3>1. Goes(name_end + 1)
      <4>1. (name_end + 1) + 1 = name_end + 2
        BY <1>1
      <4> QED BY <2>1, <2>6, <4>1 DEF Goes
    <3>2. \A i \in NameEnd .. (name_end + 2) - 1 : Goes(i)
      BY <1>1, <2>2, <2>3, <3>1 DEF BracketsScanned
    <3>3. BracketsScanned'
      BY <1>1, <1>8, <2>1, <2>2, <2>6, <3>2 DEF BracketsScanned
    <3>4. Char(name_end)' = "["
      BY <1>2, <2>6 DEF Char
    <3> QED BY <2>1, <2>4, <3>3, <3>4 DEF PartsAreRead
  <2> QED BY <2>1, <2>5, <2>6
<1>11. CASE ScanEnds /\ at' # "done"
  <2>1. /\ at' = "count" /\ at = "scan" /\ name_end + 1 >= size /\ Char(name_end) = "]"
        /\ UNCHANGED <<pointer_count, name_length, name_end, array_begin, types>>
    BY <1>11 DEF ScanEnds, Fail
  <2>2. BracketsScanned
    BY <2>1 DEF PartsAreRead
  <2>3. BracketsScanned'
    BY <1>1, <1>8, <2>1, <2>2 DEF BracketsScanned
  <2>4. Char(name_end)' = "]" /\ name_end' = size' - 1
    BY <1>1, <1>2, <2>1, <2>2 DEF Char, BracketsScanned
  <2>5. NameIsRead' /\ (size' > 0 => Char(0)' # "(")
    BY <1>6, <2>1
  <2> QED BY <2>1, <2>3, <2>4, <2>5 DEF PartsAreRead
<1>12. CASE ReadCount /\ at' # "done"
  <2> DEFINE length == LeadingDigits(array_begin, name_end)
             count  == Number(Text(array_begin, array_begin + length))
  <2>1. /\ at' = "arrays" /\ at = "count" /\ length # 0 /\ types' = Append(types, ArrayType(count))
        /\ UNCHANGED <<pointer_count, name_length, name_end, array_begin>>
    BY <1>12 DEF ReadCount, Fail
  <2>2. types = <<>> /\ array_begin = NameEnd + 1 /\ Char(array_begin) \in Digits
    BY <2>1, CountFacts
  <2> HIDE DEF length, count
  <2>3. BracketsScanned /\ Char(name_end) = "]" /\ name_end = size - 1
    BY <2>1 DEF PartsAreRead
  <2>4. NameEnd < size - 2 /\ Brackets(NameEnd)
    BY <2>2, <2>3, BracketsRead
  <2>5. NameEnd' = NameEnd /\ NameIsRead' /\ (size' > 0 => Char(0)' # "(")
    BY <1>6, <2>1
  <2>6. types' # <<>>
    BY <2>1, <2>2
  <2>7. Brackets(NameEnd)'
    BY <1>2, <2>4, <2>5 DEF Brackets, Char
  <2> QED BY <1>2, <2>1, <2>3, <2>4, <2>5, <2>6, <2>7 DEF PartsAreRead
<1>13. CASE AddPointers
  BY <1>3, <1>13 DEF AddPointers
<1>14. CASE UNCHANGED vars
  BY <1>14 DEF vars, PartsAreRead, NameIsRead, BracketsScanned, NameEnd, Goes, Brackets, Char, Text, size
<1> QED BY <1>3, <1>4, <1>5, <1>7, <1>9, <1>10, <1>11, <1>12, <1>13, <1>14 DEF Next

LEMMA AcceptedPreserved == TypeOK /\ PartsAreRead /\ AcceptedIsWellFormed /\ [Next]_vars => AcceptedIsWellFormed'
<1> SUFFICES ASSUME TypeOK, PartsAreRead, AcceptedIsWellFormed, [Next]_vars,
                    IsField'
             PROVE  AcceptedIsWellFormed'
  BY DEF AcceptedIsWellFormed
<1>1. /\ field_name \in FieldNames /\ size \in Nat
      /\ pointer_count \in 0 .. size /\ name_length \in 0 .. size /\ name_end \in 0 .. size /\ NameEnd \in Nat
  <2>1. size \in Nat /\ pointer_count \in 0 .. size /\ name_length \in 0 .. size
    BY TypeFacts, TextFacts
  <2> QED BY <2>1, TypeFacts DEF NameEnd
<1>2. /\ field_name' = field_name /\ size' = size
      /\ \A i : Char(i)' = Char(i)
      /\ \A i, j : Text(i, j)' = Text(i, j)
      /\ \A i : Brackets(i)' = Brackets(i)
  BY TextKept
<1>3. at' = "done" /\ field' # Error
  BY <1>2 DEF IsField, Error
<1>4. CASE ProcessFunctionPointerField
  <2>1. /\ Char(0) = "(" /\ IsValidName(Text(2, size - 3))
        /\ field' = [from |-> 2, to |-> size - 3]
    BY <1>3, <1>4 DEF ProcessFunctionPointerField, Fail
  <2>2. Text(field.from, field.to)' = Text(2, size - 3)
    BY <1>2, <2>1 DEF Text
  <2> QED BY <1>2, <2>1, <2>2 DEF AcceptedIsWellFormed
<1>5. CASE AddPointers
  <2>1. /\ at = "arrays" /\ name_end + 1 >= size
        /\ field' = [from |-> pointer_count, to |-> NameEnd]
    BY <1>5 DEF AddPointers, NameEnd
  <2>2. NameIsRead
    BY <2>1 DEF PartsAreRead
  <2>3. \/ NameEnd = size
        \/ NameEnd = size - 1 /\ Char(NameEnd) = "["
        \/ NameEnd < size - 2 /\ Brackets(NameEnd)
    <3>1. name_end = NameEnd \/ (NameEnd < size - 2 /\ Brackets(NameEnd))
      BY <2>1 DEF PartsAreRead
    <3> QED BY <1>1, <2>1, <2>2, <3>1 DEF NameIsRead
  <2>4. field'.from = pointer_count /\ field'.to = NameEnd
    BY <2>1
  <2> HIDE DEF NameEnd
  <2>5. /\ \A i \in 0 .. field'.from - 1 : Char(i)' = "*"
        /\ IsValidName(Text(field.from, field.to))'
    <3>1. Text(field.from, field.to)' = Text(pointer_count, NameEnd)
      BY <1>2, <2>4 DEF Text
    <3> QED BY <1>2, <2>2, <2>4, <3>1 DEF NameIsRead
  <2>6. /\ Char(field.to)' = Char(NameEnd) /\ Brackets(field.to)' = Brackets(NameEnd)
    BY <1>2, <2>4 DEF Char, Brackets
  <2>7. Char(0) # "("
    <3>1. size # 0
      <4>1. ASSUME size = 0 PROVE FALSE
        <5>1. Text(pointer_count, pointer_count) = <<>> /\ pointer_count = 0
          BY <1>1, <4>1, TextFacts DEF Text, size
        <5>2. NameEnd = pointer_count
          BY <1>1, <2>2, <4>1 DEF NameIsRead
        <5> QED BY <2>2, <5>1, <5>2 DEF NameIsRead, IsValidName
      <4> QED BY <4>1
    <3> QED BY <1>1, <2>1, <3>1 DEF PartsAreRead
  <2> QED BY <1>2, <2>3, <2>4, <2>5, <2>6, <2>7 DEF AcceptedIsWellFormed
<1>6. CASE UNCHANGED vars
  BY <1>6 DEF vars, AcceptedIsWellFormed, IsField, Brackets, Char, Text, size
<1>7. CASE ReadName \/ BeginArray \/ ScanDigit \/ ScanBracket \/ ScanEnds \/ ReadCount
  BY <1>3, <1>7 DEF ReadName, BeginArray, ScanDigit, ScanBracket, ScanEnds, ReadCount, Fail
<1> QED BY <1>4, <1>5, <1>6, <1>7 DEF Next

-----------------------------------------------------------------------------
(* Reading the text that s is written as, one lemma for each way to write. *)

(* A valid name in the text, from the offset where the name of s is.       *)
LEMMA NameOfSpelling ==
  ASSUME NEW s \in Spellings, NEW from \in Nat, field_name \in FieldNames,
         from + Len(s.name) <= size,
         \A i \in 1 .. Len(s.name) : field_name[from + i] = s.name[i]
  PROVE  /\ IsValidName(Text(from, from + Len(s.name)))
         /\ Char(from) = "x"
         /\ \A i \in from .. from + Len(s.name) - 1 : Char(i) \in Digits \cup {"x"}
<1> DEFINE n == Len(s.name)
<1>1. s.name \in Seq(Chars) /\ n \in Nat \ {0} /\ IsValidName(s.name) /\ s.name[1] = "x"
  BY SpellingFacts, FieldNameAssumption DEF IsSpelling
<1> HIDE DEF n
<1>2. Text(from, from + n) = s.name
  <2>1. from + n \in Nat /\ from + n <= size
    BY <1>1 DEF n
  <2> QED BY <1>1, <2>1, TextEquals DEF n
<1>3. IsValidName(Text(from, from + n))
  BY <1>1, <1>2
<1>4. Char(from) = "x"
  <2>1. 1 \in 1 .. n
    BY <1>1
  <2>2. field_name[from + 1] = s.name[1]
    BY <2>1 DEF n
  <2> QED BY <1>1, <2>2 DEF Char
<1>5. \A i \in from .. from + n - 1 : Char(i) \in Digits \cup {"x"}
  <2> DEFINE to == from + n
  <2>1. to \in Nat /\ from <= to /\ to <= size /\ IsValidName(Text(from, to))
    BY <1>1, <1>3 DEF n
  <2> HIDE DEF to
  <2>2. \A i \in from .. to - 1 : Char(i) \in Digits \cup {"x"}
    BY <2>1, NameIs
  <2> QED BY <1>1, <2>2 DEF to
<1> QED BY <1>3, <1>4, <1>5 DEF n

LEMMA BuiltIs ==
  ASSUME NEW s \in Spellings
  PROVE  /\ s.kind = "function" => Built(Declared(s)) = <<FunctionType, PointerType>>
         /\ s.kind # "function" /\ s.dims = <<>> => Built(Declared(s)) = <<>> \o Pointers(s.pointers)
         /\ s.kind # "function" /\ s.dims # <<>> =>
              Built(Declared(s)) = <<ArrayType(Number(s.dims[1]))>> \o Pointers(s.pointers)
<1> DEFINE dims == [i \in DOMAIN s.dims |-> Number(s.dims[i])]
<1>1. Declared(s).kind = s.kind /\ Declared(s).pointers = s.pointers /\ Declared(s).dims = dims
  BY DEF Declared
<1>2. Len(s.dims) \in Nat /\ DOMAIN s.dims = 1 .. Len(s.dims) /\ (s.dims # <<>> => Len(s.dims) > 0)
  BY SpellingFacts
<1>3. CASE s.kind = "function"
  BY <1>1, <1>3 DEF Built
<1>4. CASE s.kind # "function" /\ s.dims = <<>>
  <2>1. dims = <<>>
    BY <1>4
  <2> HIDE DEF dims
  <2> QED BY <1>1, <1>4, <2>1 DEF Built
<1>5. CASE s.kind # "function" /\ s.dims # <<>>
  <2>1. 1 \in DOMAIN s.dims
    BY <1>2, <1>5
  <2>2. dims # <<>> /\ dims[1] = Number(s.dims[1])
    BY <2>1
  <2> HIDE DEF dims
  <2>3. Head(dims) = Number(s.dims[1])
    BY <2>2
  <2> QED BY <1>1, <1>5, <2>2, <2>3 DEF Built
<1> QED BY <1>3, <1>4, <1>5

LEMMA FunctionRead ==
  ASSUME NEW s \in Spellings, s.kind = "function", IInv, field_name = Spell(s), AsSpelled(s), Next
  PROVE  AsSpelled(s)'
<1>1. /\ field_name \in FieldNames /\ size \in Nat /\ size = Len(s.name) + 5 /\ Len(s.name) \in Nat \ {0}
      /\ field_name[1] = "(" /\ \A i \in 1 .. Len(s.name) : field_name[2 + i] = s.name[i]
  BY SpelledFunction, SpellingFacts, TypeFacts, TextFacts DEF IInv, size
<1>2. Char(0) = "("
  BY <1>1 DEF Char
<1>3. at \notin {"name", "arrays", "scan", "count"}
  BY <1>1, <1>2 DEF IInv, PartsAreRead
<1>4. ProcessFunctionPointerField
  BY <1>3 DEF Next, ReadName, BeginArray, ScanDigit, ScanBracket, ScanEnds, ReadCount, AddPointers
<1>5. size - 3 = 2 + Len(s.name) /\ IsValidName(Text(2, size - 3))
  <2>1. size - 3 = 2 + Len(s.name) /\ 2 + Len(s.name) <= size
    BY <1>1
  <2> QED BY <1>1, <2>1, NameOfSpelling
<1>6. /\ at' = "done" /\ types' = <<FunctionType, PointerType>>
      /\ field' = [from |-> 2, to |-> 2 + Len(s.name)]
  <2>1. size > 0 /\ size > 5
    BY <1>1
  <2> QED BY <1>2, <1>4, <1>5, <2>1 DEF ProcessFunctionPointerField
<1>7. NameAt(s) = 2
  BY DEF NameAt
<1> QED BY <1>6, <1>7, BuiltIs DEF AsSpelled

(* The text of a plain declarator, by its offsets.                         *)
LEMMA PlainText ==
  ASSUME NEW s \in Spellings, s.kind # "function", field_name \in FieldNames, field_name = Spell(s)
  PROVE  LET p == s.pointers
             e == s.pointers + Len(s.name)
             k == Len(s.dims[1])
         IN  /\ p \in Nat /\ Len(s.name) \in Nat \ {0} /\ e \in Nat /\ e <= size
             /\ \A i \in 0 .. p - 1 : Char(i) = "*"
             /\ IsValidName(Text(p, e)) /\ Char(p) = "x"
             /\ \A i \in p .. e - 1 : Char(i) \in Digits \cup {"x"}
             /\ s.dims = <<>> => size = e
             /\ s.dims # <<>> =>
                  /\ k \in Nat \ {0} /\ e + k + 2 <= size
                  /\ Char(e) = "[" /\ Char(e + 1 + k) = "]" /\ Char(size - 1) = "]"
                  /\ \A i \in 1 .. k : field_name[(e + 1) + i] = s.dims[1][i]
                  /\ \A i \in e .. size - 2 : Follows(Char(i), Char(i + 1))
<1> DEFINE p == s.pointers
           n == Len(s.name)
           e == p + n
           k == Len(s.dims[1])
<1>1. p \in Nat /\ n \in Nat \ {0} /\ e \in Nat /\ size \in Nat
  BY SpellingFacts, TextFacts
<1>2. /\ e <= size
      /\ \A i \in 1 .. p : field_name[i] = "*"
      /\ \A i \in 1 .. n : field_name[p + i] = s.name[i]
      /\ s.dims = <<>> => size = e
      /\ s.dims # <<>> =>
           /\ k \in Nat \ {0} /\ e + k + 2 <= size
           /\ field_name[e + 1] = "[" /\ field_name[e + 1 + k + 1] = "]" /\ field_name[size] = "]"
           /\ \A i \in 1 .. k : field_name[e + 1 + i] = s.dims[1][i]
           /\ \A i \in e + 1 .. size - 1 : Follows(field_name[i], field_name[i + 1])
  BY SpelledPlain DEF size
<1>3. ASSUME NEW i \in 0 .. p - 1 PROVE Char(i) = "*"
  <2>1. i + 1 \in 1 .. p
    BY <1>1
  <2> QED BY <1>2, <2>1 DEF Char
<1>4. /\ IsValidName(Text(p, e)) /\ Char(p) = "x"
      /\ \A i \in p .. e - 1 : Char(i) \in Digits \cup {"x"}
  <2>1. \A i \in 1 .. Len(s.name) : field_name[p + i] = s.name[i]
    BY <1>2
  <2>2. p + Len(s.name) <= size
    BY <1>2
  <2> HIDE DEF p
  <2> QED BY <1>1, <2>1, <2>2, NameOfSpelling
<1> HIDE DEF p, n, e, k
<1>5. ASSUME s.dims # <<>>
      PROVE  /\ Char(e) = "[" /\ Char(e + 1 + k) = "]" /\ Char(size - 1) = "]"
             /\ \A i \in e .. size - 2 : Follows(Char(i), Char(i + 1))
  <2>1. Char(e) = "[" /\ Char(e + 1 + k) = "]"
    BY <1>2, <1>5 DEF Char
  <2>2. Char(size - 1) = "]"
    <3>1. (size - 1) + 1 = size
      BY <1>1
    <3> QED BY <1>2, <1>5, <3>1 DEF Char
  <2>3. ASSUME NEW i \in e .. size - 2 PROVE Follows(Char(i), Char(i + 1))
    <3>1. i + 1 \in e + 1 .. size - 1
      BY <1>1
    <3> QED BY <1>2, <1>5, <3>1 DEF Char
  <2> QED BY <2>1, <2>2, <2>3
<1> QED BY <1>1, <1>2, <1>3, <1>4, <1>5 DEF p, n, e, k

LEMMA PlainRead ==
  ASSUME NEW s \in Spellings, s.kind # "function", IInv, field_name = Spell(s), AsSpelled(s), Next
  PROVE  AsSpelled(s)'
<1> DEFINE p == s.pointers
           n == Len(s.name)
           e == p + n
           k == Len(s.dims[1])
<1>1. /\ TypeOK /\ PartsAreRead /\ field_name \in FieldNames /\ size \in Nat /\ name_end \in Nat
  BY TypeFacts, TextFacts DEF IInv
<1>2. /\ p \in Nat /\ n \in Nat \ {0} /\ e \in Nat /\ e <= size /\ e = p + n
      /\ \A i \in 0 .. p - 1 : Char(i) = "*"
      /\ IsValidName(Text(p, e)) /\ Char(p) = "x"
      /\ \A i \in p .. e - 1 : Char(i) \in Digits \cup {"x"}
      /\ s.dims = <<>> => size = e
      /\ s.dims # <<>> =>
           /\ k \in Nat \ {0} /\ e + k + 2 <= size
           /\ Char(e) = "[" /\ Char(e + 1 + k) = "]" /\ Char(size - 1) = "]"
           /\ \A i \in 1 .. k : field_name[(e + 1) + i] = s.dims[1][i]
           /\ \A i \in e .. size - 2 : Follows(Char(i), Char(i + 1))
  BY <1>1, PlainText
<1>3. /\ "]" \notin Digits /\ "[" \notin Digits /\ "*" # "x" /\ "[" # "x" /\ "(" # "*" /\ "(" # "x" /\ "[" # "]"
  BY DEF Digits, Value
<1> HIDE DEF p, n, e, k
<1>4. at \in {"arrays", "scan", "count"} => pointer_count = p /\ name_length = n /\ NameEnd = e
  BY <1>2 DEF AsSpelled, NameEnd, p, n
<1>5. CASE ProcessFunctionPointerField
  <2>1. Char(0) # "("
    <3>1. CASE p = 0
      BY <1>2, <1>3, <3>1
    <3>2. CASE p # 0
      <4>1. 0 \in 0 .. p - 1
        BY <1>2, <3>2
      <4> QED BY <1>2, <1>3, <4>1
    <3> QED BY <3>1, <3>2
  <2>2. at' = "name"
    BY <1>5, <2>1 DEF ProcessFunctionPointerField
  <2> QED BY <2>2 DEF AsSpelled
<1>6. CASE ReadName
  <2>1. CountPointers = p
    <3>1. \A j \in 0 .. p - 1 : j + 1 < size /\ Char(j) = "*"
      BY <1>1, <1>2
    <3>2. p \in 0 .. size /\ Char(p) # "*"
      BY <1>1, <1>2, <1>3
    <3> QED BY <1>1, <3>1, <3>2, CountPointersIs
  <2>2. CalculateNameLength(p) = n
    <3>1. p \in 0 .. size /\ n \in 0 .. size - p
      BY <1>1, <1>2
    <3>2. p + n = size \/ Char(p + n) = "["
      BY <1>2
    <3>3. \A i \in p .. p + n - 1 : Char(i) # "["
      BY <1>2, <1>3
    <3> QED BY <1>1, <3>1, <3>2, <3>3, NameLengthIs
  <2>3. at' = "arrays" /\ at = "name" /\ types' = types /\ pointer_count' = p /\ name_length' = n
    BY <1>2, <1>6, <2>1, <2>2 DEF ReadName
  <2>4. types' = <<>>
    BY <1>1, <2>3 DEF PartsAreRead
  <2> QED BY <2>3, <2>4 DEF AsSpelled, p, n
<1>7. ASSUME at' \in {"scan", "count"}, at \in {"arrays", "scan", "count"},
             UNCHANGED <<pointer_count, name_length>>
      PROVE  AsSpelled(s)'
  BY <1>7 DEF AsSpelled
<1>8. CASE BeginArray
  <2>1. at = "arrays" /\ name_end + 1 < size /\ UNCHANGED <<pointer_count, name_length>>
    BY <1>8 DEF BeginArray
  <2>2. name_end = e
    BY <1>1, <1>4, <2>1 DEF PartsAreRead
  <2>3. Char(name_end) = "["
    BY <1>1, <1>2, <2>1, <2>2
  <2>4. at' = "scan"
    BY <1>8, <2>3 DEF BeginArray
  <2> QED BY <1>7, <2>1, <2>4
<1>9. ASSUME at \in {"scan", "count"}
      PROVE  /\ BracketsScanned /\ types = <<>> /\ s.dims # <<>> /\ e <= name_end /\ name_end < size
             /\ array_begin = e + 1
  <2>1. BracketsScanned /\ NameEnd = e
    BY <1>1, <1>4, <1>9 DEF PartsAreRead
  <2> QED BY <1>1, <1>2, <2>1 DEF BracketsScanned
<1>10. CASE ScanDigit
  <2>1. /\ at = "scan" /\ name_end + 1 < size /\ Char(name_end + 1) # "]"
        /\ UNCHANGED <<pointer_count, name_length>>
    BY <1>10 DEF ScanDigit
  <2>2. Char(name_end) \in Digits \cup {"["}
    BY <1>1, <2>1 DEF PartsAreRead
  <2>3. Follows(Char(name_end), Char(name_end + 1))
    BY <1>1, <1>2, <1>9, <2>1
  <2>4. Char(name_end + 1) \in Digits
    BY <1>3, <2>1, <2>2, <2>3 DEF Follows
  <2>5. at' = "scan"
    BY <1>10, <2>1, <2>4 DEF ScanDigit
  <2> QED BY <1>7, <2>1, <2>5
<1>11. CASE ScanBracket
  <2>1. /\ at = "scan" /\ name_end + 1 < size /\ Char(name_end + 1) = "]"
        /\ UNCHANGED <<pointer_count, name_length>>
    BY <1>11 DEF ScanBracket
  <2>2. CASE name_end + 2 >= size
    <3>1. at' = "scan"
      BY <1>11, <2>1, <2>2 DEF ScanBracket
    <3> QED BY <1>7, <2>1, <3>1
  <2>3. CASE ~(name_end + 2 >= size)
    <3>1. name_end + 1 \in e .. size - 2 /\ (name_end + 1) + 1 = name_end + 2
      BY <1>1, <1>2, <1>9, <2>1, <2>3
    <3>2. Follows(Char(name_end + 1), Char(name_end + 2))
      BY <1>2, <1>9, <2>1, <3>1
    <3>3. Char(name_end + 2) = "["
      BY <1>3, <2>1, <3>2 DEF Follows
    <3>4. at' = "scan"
      BY <1>11, <2>1, <2>3, <3>3 DEF ScanBracket
    <3> QED BY <1>7, <2>1, <3>4
  <2> QED BY <2>2, <2>3
<1>12. CASE ScanEnds
  <2>1. at = "scan" /\ name_end + 1 >= size /\ UNCHANGED <<pointer_count, name_length>>
    BY <1>12 DEF ScanEnds
  <2>2. name_end = size - 1
    BY <1>1, <1>9, <2>1
  <2>3. Char(name_end) = "]"
    BY <1>2, <1>9, <2>1, <2>2
  <2>4. at' = "count"
    BY <1>12, <2>3 DEF ScanEnds
  <2> QED BY <1>7, <2>1, <2>4
<1>13. CASE ReadCount
  <2> DEFINE d == s.dims[1]
  <2>1. at = "count"
    BY <1>13 DEF ReadCount
  <2>2. /\ s.dims # <<>> /\ types = <<>> /\ array_begin = e + 1 /\ name_end = size - 1
    BY <1>1, <1>9, <2>1 DEF PartsAreRead
  <2>3. d \in Seq(Digits) /\ d \in Seq(Chars) /\ Len(d) = k /\ k \in Nat \ {0} /\ Number(d) <= MaxUsize /\ Number(d) \in Nat
        /\ \A i \in 1 .. k : d[i] \in Digits
    <3>1. d \in Seq(Digits) /\ Number(d) <= MaxUsize
      BY <2>2, SpellingFacts
    <3>2. Digits \subseteq Chars
      BY DEF Chars
    <3> HIDE DEF d
    <3>3. d \in Seq(Chars)
      BY <3>1, <3>2, SeqMonotonic
    <3>4. Number(d) \in Nat
      BY <3>1, NumberType
    <3>5. Len(d) = k /\ k \in Nat \ {0}
      BY <1>2, <2>2 DEF d, k
    <3>6. \A i \in 1 .. k : d[i] \in Digits
      BY <3>1, <3>5, ElementOfSeq
    <3> QED BY <3>1, <3>3, <3>4, <3>5, <3>6
  <2>4. /\ \A i \in 1 .. k : field_name[(e + 1) + i] = d[i]
        /\ (e + 1) + k <= size - 1 /\ Char((e + 1) + k) = "]"
    BY <1>1, <1>2, <2>2
  <2> HIDE DEF d
  <2>5. LeadingDigits(array_begin, name_end) = k
    <3>1. array_begin \in Nat /\ array_begin <= name_end /\ k \in 0 .. name_end - array_begin
      BY <1>1, <1>2, <2>2, <2>3, <2>4
    <3>2. ASSUME NEW i \in array_begin .. array_begin + k - 1 PROVE Char(i) \in Digits
      <4>1. i - e \in 1 .. k /\ (e + 1) + (i - e) = i + 1
        BY <1>2, <2>2, <2>3
      <4>2. field_name[i + 1] = d[i - e]
        BY <2>4, <4>1
      <4> QED BY <2>3, <4>1, <4>2 DEF Char
    <3>3. Char(array_begin + k) \notin Digits
      BY <1>3, <2>2, <2>4
    <3> QED BY <1>1, <3>1, <3>2, <3>3, LeadingDigitsIs
  <2>6. Text(array_begin, array_begin + k) = d
    <3> DEFINE from == e + 1
               to   == from + k
    <3>1. from \in Nat /\ to \in Nat /\ to = from + Len(d) /\ to <= size
      BY <1>1, <1>2, <2>3, <2>4
    <3>2. \A i \in 1 .. Len(d) : field_name[from + i] = d[i]
      BY <2>3, <2>4
    <3> HIDE DEF from, to
    <3>3. Text(from, to) = d
      BY <1>1, <2>3, <3>1, <3>2, TextEquals
    <3> QED BY <2>2, <3>3 DEF from, to
  <2>7. ~(k = 0 \/ Number(d) > MaxUsize)
    BY <2>3, DeclaratorAssumption
  <2>8. /\ at' = "arrays" /\ types' = Append(types, ArrayType(Number(d)))
        /\ UNCHANGED <<pointer_count, name_length>>
    BY <1>13, <2>5, <2>6, <2>7 DEF ReadCount
  <2>9. types' = <<ArrayType(Number(s.dims[1]))>>
    BY <2>2, <2>8 DEF d
  <2>10. pointer_count' = s.pointers /\ name_length' = Len(s.name)
    BY <1>4, <2>1, <2>8 DEF p, n
  <2> QED BY <2>2, <2>8, <2>9, <2>10 DEF AsSpelled
<1>14. CASE AddPointers
  <2>1. /\ at = "arrays" /\ name_end + 1 >= size /\ at' = "done"
        /\ types' = types \o Pointers(pointer_count)
        /\ field' = [from |-> pointer_count, to |-> pointer_count + name_length]
    BY <1>14 DEF AddPointers
  <2>2. pointer_count = s.pointers /\ name_length = Len(s.name) /\ NameEnd = e
    BY <1>4, <2>1 DEF p, n
  <2>3. types' = Built(Declared(s))
    <3>1. CASE types = <<>>
      <4>1. name_end = e
        BY <1>1, <2>1, <2>2, <3>1 DEF PartsAreRead
      <4>2. s.dims = <<>>
        BY <1>1, <1>2, <2>1, <4>1
      <4> QED BY <2>1, <2>2, <3>1, <4>2, BuiltIs
    <3>2. CASE types # <<>>
      <4>1. s.dims # <<>> /\ types = <<ArrayType(Number(s.dims[1]))>>
        BY <2>1, <3>2 DEF AsSpelled
      <4> QED BY <2>1, <2>2, <4>1, BuiltIs
    <3> QED BY <3>1, <3>2
  <2>4. NameAt(s) = s.pointers
    BY DEF NameAt
  <2> QED BY <2>1, <2>2, <2>3, <2>4 DEF AsSpelled
<1> QED BY <1>5, <1>6, <1>8, <1>10, <1>11, <1>12, <1>13, <1>14 DEF Next

-----------------------------------------------------------------------------
LEMMA InvNext == IInv /\ [Next]_vars => IInv'
<1> SUFFICES ASSUME IInv, [Next]_vars PROVE IInv'
  OBVIOUS
<1>1. TypeOK' /\ PartsAreRead' /\ AcceptedIsWellFormed'
  BY TypePreserved, PartsPreserved, AcceptedPreserved DEF IInv
<1>2. ASSUME NEW s \in Spellings, field_name' = Spell(s) PROVE AsSpelled(s)'
  <2>1. field_name = Spell(s) /\ AsSpelled(s)
    BY <1>2, TextKept DEF IInv
  <2>2. CASE UNCHANGED vars
    BY <2>1, <2>2 DEF vars, AsSpelled
  <2>3. CASE Next
    BY <2>1, <2>3, FunctionRead, PlainRead
  <2> QED BY <2>2, <2>3
<1> QED BY <1>1, <1>2 DEF IInv

THEOREM InvAlways == Spec => []IInv
BY InvInit, InvNext, PTL DEF Spec

(* Every offset lies in the text, and every type is one that can be built. *)
THEOREM TypeCorrect == Spec => []TypeOK
<1>1. IInv => TypeOK
  BY DEF IInv
<1> QED BY <1>1, InvAlways, PTL

(* Every declarator that is well-formed is accepted, with its own name and *)
(* the types that Built says, whatever its name and its dimensions are:    *)
(* ProcessFunctionPointerField and ProcessField lose nothing on the way.   *)
THEOREM DeclaratorsAlwaysRead == Spec => []DeclaratorsAreRead
<1>1. IInv => DeclaratorsAreRead
  BY DEF IInv, DeclaratorsAreRead, AsSpelled
<1> QED BY <1>1, InvAlways, PTL

(* Whatever text is accepted has a valid name, behind stars and before     *)
(* digits in brackets or, if it begins with '(', two characters from the   *)
(* beginning and three from the end; but for the three slips it is a       *)
(* declarator.                                                             *)
THEOREM AcceptedAlwaysWellFormed == Spec => []AcceptedIsWellFormed
<1>1. IInv => AcceptedIsWellFormed
  BY DEF IInv
<1> QED BY <1>1, InvAlways, PTL
=============================================================================
