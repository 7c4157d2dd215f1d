------------------------- MODULE TypeDatabaseProofs -------------------------
(***************************************************************************)
(* The type database for every SDNA: the list it is built in keeps its     *)
(* type, fields lie one behind the other, references lead to the types     *)
(* that the declarators and structs name, and lookups find them.           *)
(***************************************************************************)
EXTENDS TypeDatabase, FiniteSetTheorems, SequenceTheorems, TLAPS

(***************************************************************************)
(* The inductive invariant.  The list is one of types, those of the first  *)
(* pass in front; an array is built around one of these, so that its size  *)
(* is known without those of the types behind.                             *)
(***************************************************************************)
Words == 0 .. MaxUsize
Types ==
  [kind : {"fundamental"}, name : Range(sdna.type_names), size : Words]
    \cup [kind : {"aggregate"}, name : Range(sdna.type_names), size : Words,
          fields : Seq([offset : Words, type : Nat, declarator : Declarators])]
    \cup [kind : {"array", "pointer", "function"}, count : Words, of : Int]

Listed ==
  /\ type_list \in Seq(Types)
  /\ \A i \in DOMAIN type_list :
       /\ type_list[i].kind = "array" => type_list[i].of < type_count
       /\ at = "types" => type_list[i].kind = "fundamental"

Shaped ==
  /\ IsSdna(sdna)
  /\ \A i \in DOMAIN type_list :
       LET t == type_list[i]
       IN  IF i <= type_count
           THEN t.kind \in {"fundamental", "aggregate"} /\ t.size = sdna.type_lengths[i]
           ELSE /\ t \in [kind : {"array", "pointer", "function"}, count : Words, of : NoSlot .. i - 2]
                /\ t.of = NoSlot <=> t.kind = "function"

(* How far the two passes are.                                             *)
Passes ==
  /\ IF at = "types"
     THEN Len(type_list) <= type_count /\ struct_map = <<>> /\ aggregate_fields = <<>>
     ELSE type_count <= Len(type_list)
  /\ Len(struct_map) <= Len(sdna.structs)
  /\ at = "fields" => /\ struct_map # <<>>
                      /\ Len(aggregate_fields) <= Len(Current.fields)
  /\ at = "built" => Len(struct_map) = Len(sdna.structs)

(* The next field begins where the last one ends.                          *)
Followed ==
  at = "fields" =>
    field_offset =
      IF aggregate_fields = <<>> THEN 0
      ELSE LET last == aggregate_fields[Len(aggregate_fields)]
           IN  Wrap(last.offset + GetSize(type_list, last.type))

(* A name is mapped to the first type that has it, a struct to its type.   *)
Mapped ==
  /\ \A i \in 1 .. type_count : i <= Len(type_list) => sdna.type_names[i] \in DOMAIN type_map
  /\ \A name \in DOMAIN type_map :
       /\ type_map[name] < type_count
       /\ sdna.type_names[type_map[name] + 1] = name
       /\ \A i \in 1 .. type_map[name] : sdna.type_names[i] # name
  /\ \A i \in DOMAIN struct_map : struct_map[i] = sdna.structs[i].type_index

(* The structs that the second pass is done with.                          *)
Finished == 1 .. (IF at = "fields" THEN Len(struct_map) - 1 ELSE Len(struct_map))

DeclaratorOf(s, f) == s.field_names[f.name_index + 1]

IsGoodField(s, f) ==
  /\ f.type_index < Len(s.type_lengths)
  /\ f.name_index < Len(s.field_names)
  /\ DeclaratorOf(s, f) # Unreadable

(* The types pushed for a field lie one behind the other, and the first of *)
(* them refers to the type that the struct names.                          *)
IsChain(list, base, wrappers, slot, type) ==
  /\ base + Len(wrappers) <= Len(list)
  /\ type = IF wrappers = <<>> THEN slot ELSE base + Len(wrappers) - 1
  /\ \A i \in 1 .. Len(wrappers) :
       list[base + i] = Around(wrappers[i], IF i = 1 THEN slot ELSE base + i - 2)

Resolves(s, list, field, f) ==
  /\ IsGoodField(s, f)
  /\ field.declarator = DeclaratorOf(s, f)
  /\ \E base \in Nat :
       /\ base >= Len(s.type_lengths)
       /\ IsChain(list, base, Built(DeclaratorOf(s, f)), f.type_index, field.type)

IsOf(s, list, type, struct) ==
  /\ type.kind = "aggregate"
  /\ Len(type.fields) = Len(struct.fields)
  /\ \A i \in 1 .. Len(struct.fields) : Resolves(s, list, type.fields[i], struct.fields[i])

Resolving ==
  /\ at = "fields" =>
       \A i \in 1 .. Len(aggregate_fields) :
         Resolves(sdna, type_list, aggregate_fields[i], Current.fields[i])
  /\ at \in {"structs", "fields", "built"} =>
       /\ \A k \in Finished :
            /\ sdna.structs[k].type_index < type_count
            /\ \A i \in 1 .. Len(sdna.structs[k].fields) : IsGoodField(sdna, sdna.structs[k].fields[i])
       /\ \A slot \in 0 .. type_count - 1 :
            \/ /\ type_list[slot + 1].kind = "fundamental"
               /\ \A k \in Finished : sdna.structs[k].type_index # slot
            \/ \E k \in Finished :
                 /\ sdna.structs[k].type_index = slot
                 /\ \A j \in Finished : sdna.structs[j].type_index = slot => j <= k
                 /\ IsOf(sdna, type_list, type_list[slot + 1], sdna.structs[k])

IInv ==
  /\ TypeOK /\ Listed /\ Passes /\ FieldsAreContiguous /\ Followed
  /\ Mapped /\ Resolving /\ ErrorsNeedABadSdna

-----------------------------------------------------------------------------
(* The size of a type without recursion, where arrays are only built       *)
(* around types that have a size of their own.                             *)
IsSized(list) ==
  \A s \in 0 .. Len(list) - 1 :
    list[s + 1].kind = "array" =>
      /\ list[s + 1].of \in 0 .. Len(list) - 1
      /\ list[list[s + 1].of + 1].kind \in {"fundamental", "aggregate"}

Size(list, slot) ==
  LET t == list[slot + 1]
  IN  IF t.kind \in {"fundamental", "aggregate"} THEN t.size
      ELSE SizeAround(IF t.kind = "array" THEN list[t.of + 1].size ELSE 0, t)

(* The sizes solve the equation that GetSize is defined by, and whatever   *)
(* solves it has these values.                                             *)
LEMMA GetSizeIs ==
  ASSUME NEW list, IsSized(list), NEW slot \in 0 .. Len(list) - 1
  PROVE  GetSize(list, slot) = Size(list, slot)
<1> DEFINE S == 0 .. Len(list) - 1
           Body(g, s) == LET t == list[s + 1]
                         IN  IF t.kind \in {"fundamental", "aggregate"} THEN t.size
                             ELSE SizeAround(IF t.kind = "array" THEN g[t.of] ELSE 0, t)
           Is(g) == g = [s \in S |-> Body(g, s)]
           f == [s \in S |-> Size(list, s)]
           g == CHOOSE h : Is(h)
<1>1. ASSUME NEW h, Is(h), NEW s \in S PROVE h[s] = Size(list, s)
  <2>1. \A u \in S : h[u] = Body(h, u)
    BY <1>1
  <2>2. CASE list[s + 1].kind = "array"
    <3>1. h[list[s + 1].of] = list[list[s + 1].of + 1].size
      BY <2>1, <2>2 DEF IsSized
    <3> QED BY <2>1, <2>2, <3>1 DEF Size
  <2>3. CASE list[s + 1].kind # "array"
    BY <2>1, <2>3 DEF Size
  <2> QED BY <2>2, <2>3
<1>2. Is(f)
  <2>1. ASSUME NEW s \in S PROVE Body(f, s) = Size(list, s)
    BY <2>1 DEF IsSized, Size
  <2> HIDE DEF Body, S
  <2> QED BY <2>1
<1>3. Is(g)
  <2> HIDE DEF f, Is
  <2> QED BY <1>2
<1>4. GetSize(list, slot) = g[slot]
  BY DEF GetSize
<1> HIDE DEF g, Is
<1> QED BY <1>1, <1>3, <1>4

(* Types that are appended, and types of the first pass that are replaced  *)
(* by others of their size, change no size.                                *)
LEMMA SizesStay ==
  ASSUME NEW list, NEW new, IsSized(list), IsSized(new),
         Len(list) \in Nat, Len(new) \in Nat, Len(list) <= Len(new),
         \A s \in 0 .. Len(list) - 1 :
           \/ new[s + 1] = list[s + 1]
           \/ /\ list[s + 1].kind \in {"fundamental", "aggregate"}
              /\ new[s + 1].kind \in {"fundamental", "aggregate"}
              /\ new[s + 1].size = list[s + 1].size,
         NEW slot \in 0 .. Len(list) - 1
  PROVE  GetSize(new, slot) = GetSize(list, slot)
<1>1. GetSize(new, slot) = Size(new, slot) /\ GetSize(list, slot) = Size(list, slot)
  BY GetSizeIs
<1>2. CASE list[slot + 1].kind \in {"fundamental", "aggregate"}
  BY <1>1, <1>2 DEF Size
<1>3. CASE list[slot + 1].kind \notin {"fundamental", "aggregate"}
  <2>1. new[slot + 1] = list[slot + 1]
    BY <1>3
  <2>2. CASE list[slot + 1].kind = "array"
    <3> DEFINE of == list[slot + 1].of
    <3>1. of \in 0 .. Len(list) - 1 /\ list[of + 1].kind \in {"fundamental", "aggregate"}
      BY <2>2 DEF IsSized
    <3> HIDE DEF of
    <3>2. new[of + 1].size = list[of + 1].size
      BY <3>1
    <3>3. Size(new, slot) = SizeAround(new[of + 1].size, new[slot + 1])
          /\ Size(list, slot) = SizeAround(list[of + 1].size, list[slot + 1])
      BY <2>1, <2>2 DEF Size, of
    <3> QED BY <1>1, <2>1, <3>2, <3>3
  <2>3. CASE list[slot + 1].kind # "array"
    BY <1>1, <1>3, <2>1, <2>3 DEF Size
  <2> QED BY <2>2, <2>3
<1> QED BY <1>2, <1>3

LEMMA FunctionIsSequence ==
  ASSUME NEW S, NEW n \in Nat, NEW f \in [1 .. n -> S]
  PROVE  f \in Seq(S) /\ Len(f) = n
<1>1. f \in Seq(S)
  OBVIOUS
<1>2. DOMAIN f = 1 .. n /\ DOMAIN f = 1 .. Len(f) /\ Len(f) \in Nat
  BY <1>1, LenProperties
<1> QED BY <1>1, <1>2

(* What is built for a declarator: an array comes first if there is one.   *)
IsBuilt(wrappers) ==
  /\ wrappers \in Seq([kind : {"array", "pointer", "function"}, count : Words])
  /\ \A i \in DOMAIN wrappers : wrappers[i].kind \in {"array", "function"} => i = 1

LEMMA BuiltIsBuilt ==
  ASSUME NEW d \in Declarators, d.dims # <<>> => Head(d.dims) <= MaxUsize
  PROVE  IsBuilt(Built(d)) /\ Len(Built(d)) \in Nat /\ DOMAIN Built(d) = 1 .. Len(Built(d))
<1> DEFINE W == [kind : {"array", "pointer", "function"}, count : Words]
<1>0. 0 \in Words /\ 1 \in Words
  BY DeclaratorAssumption DEF Words
<1>1. FunctionType \in W /\ PointerType \in W
  BY <1>0 DEF FunctionType, PointerType
<1>2. Built(d) \in Seq(W) /\ \A i \in 1 .. Len(Built(d)) : Built(d)[i].kind \in {"array", "function"} => i = 1
  <2>1. CASE d.kind = "function"
    <3>1. Built(d) = <<FunctionType, PointerType>>
      BY <2>1 DEF Built
    <3> HIDE DEF W
    <3>2. Built(d) \in Seq(W) /\ Len(Built(d)) = 2
      BY <1>1, <3>1
    <3>3. Built(d)[2].kind = "pointer"
      BY <3>1 DEF PointerType
    <3>4. \A i \in 1 .. 2 : i = 1 \/ i = 2
      OBVIOUS
    <3> QED BY <3>2, <3>3, <3>4
  <2>2. CASE d.kind # "function"
    <3> DEFINE array    == IF d.dims = <<>> THEN <<>> ELSE <<ArrayType(Head(d.dims))>>
               pointers == Pointers(d.pointers)
    <3>1. Built(d) = array \o pointers
      BY <2>2 DEF Built
    <3>2. d.pointers \in Nat /\ d.dims \in Seq(Nat)
      BY <2>2 DEF Declarators
    <3>3. array \in Seq(W) /\ Len(array) \in {0, 1}
      <4>1. CASE d.dims = <<>>
        BY <4>1
      <4>2. CASE d.dims # <<>>
        <5>1. Head(d.dims) \in Nat
          BY <3>2, <4>2, HeadTailProperties
        <5>2. ArrayType(Head(d.dims)) \in W
          BY <4>2, <5>1, DeclaratorAssumption DEF ArrayType, Words
        <5> HIDE DEF W
        <5> QED BY <4>2, <5>2
      <4> QED BY <4>1, <4>2
    <3>4. pointers \in Seq(W) /\ Len(pointers) = d.pointers /\ \A i \in 1 .. Len(pointers) : pointers[i] = PointerType
      <4> HIDE DEF W
      <4>1. pointers \in [1 .. d.pointers -> W] /\ \A i \in 1 .. d.pointers : pointers[i] = PointerType
        BY <1>1 DEF Pointers
      <4> HIDE DEF pointers
      <4>2. pointers \in Seq(W) /\ Len(pointers) = d.pointers
        BY <3>2, <4>1, FunctionIsSequence
      <4> QED BY <4>1, <4>2
    <3> HIDE DEF array, pointers, W
    <3>5. Built(d) \in Seq(W) /\ Len(Built(d)) = Len(array) + Len(pointers)
      BY <3>1, <3>3, <3>4, ConcatProperties
    <3>6. \A i \in 1 .. Len(Built(d)) : i > Len(array) => Built(d)[i] = pointers[i - Len(array)]
      BY <3>1, <3>3, <3>4, <3>5, ConcatProperties
    <3>7. ASSUME NEW i \in 1 .. Len(Built(d)), i # 1 PROVE Built(d)[i].kind \notin {"array", "function"}
      <4>1. i > Len(array) /\ i - Len(array) \in 1 .. Len(pointers)
        <5>1. ASSUME NEW a \in {0, 1}, NEW p \in Nat, NEW n \in 1 .. a + p, n # 1
              PROVE  n > a /\ n - a \in 1 .. p
          BY <5>1
        <5>2. i \in 1 .. Len(array) + Len(pointers) /\ Len(pointers) \in Nat
          BY <3>2, <3>4, <3>5
        <5> QED BY <3>3, <3>7, <5>1, <5>2
      <4>2. Built(d)[i] = pointers[i - Len(array)]
        BY <3>6, <4>1
      <4>3. Built(d)[i] = PointerType
        BY <3>4, <4>1, <4>2
      <4> QED BY <4>3 DEF PointerType
    <3> QED BY <3>5, <3>7
  <2> QED BY <2>1, <2>2
<1>3. Len(Built(d)) \in Nat /\ DOMAIN Built(d) = 1 .. Len(Built(d))
  <2> HIDE DEF W
  <2> QED BY <1>2, LenProperties
<1> QED BY <1>2, <1>3 DEF IsBuilt

-----------------------------------------------------------------------------
(* What an SDNA and the list are made of.                                  *)
LEMMA SdnaFacts ==
  ASSUME IsSdna(sdna)
  PROVE  /\ type_count \in Nat /\ MaxUsize \in Nat
         /\ DOMAIN sdna.type_names = 1 .. type_count
         /\ \A i \in 1 .. type_count : sdna.type_lengths[i] \in Words
         /\ Len(sdna.structs) \in Nat /\ DOMAIN sdna.structs = 1 .. Len(sdna.structs)
         /\ \A i \in 1 .. Len(sdna.structs) :
              /\ sdna.structs[i].type_index \in Nat
              /\ Len(sdna.structs[i].fields) \in Nat
              /\ DOMAIN sdna.structs[i].fields = 1 .. Len(sdna.structs[i].fields)
              /\ \A j \in 1 .. Len(sdna.structs[i].fields) :
                   /\ sdna.structs[i].fields[j].type_index \in Nat
                   /\ sdna.structs[i].fields[j].name_index \in Nat
         /\ Len(sdna.field_names) \in Nat /\ DOMAIN sdna.field_names = 1 .. Len(sdna.field_names)
         /\ \A i \in 1 .. Len(sdna.field_names) :
              sdna.field_names[i] # Unreadable =>
                LET wrappers == Built(sdna.field_names[i])
                IN  /\ sdna.field_names[i] \in Declarators
                    /\ IsBuilt(wrappers) /\ Len(wrappers) \in Nat /\ DOMAIN wrappers = 1 .. Len(wrappers)
<1> DEFINE F == [type_index : Nat, name_index : Nat]
           D == Declarators \cup {Unreadable}
<1>1. /\ sdna.type_lengths \in Seq(Words) /\ DOMAIN sdna.type_names = DOMAIN sdna.type_lengths
      /\ sdna.structs \in Seq(SdnaStruct) /\ sdna.field_names \in Seq(D)
  BY DEF IsSdna, Words
<1>2. type_count \in Nat /\ DOMAIN sdna.type_lengths = 1 .. type_count
      /\ \A i \in 1 .. type_count : sdna.type_lengths[i] \in Words
  BY <1>1, LenProperties, ElementOfSeq DEF type_count
<1>3. Len(sdna.structs) \in Nat /\ DOMAIN sdna.structs = 1 .. Len(sdna.structs)
  BY <1>1, LenProperties
<1>4. ASSUME NEW i \in 1 .. Len(sdna.structs)
      PROVE  /\ sdna.structs[i].type_index \in Nat
             /\ Len(sdna.structs[i].fields) \in Nat
             /\ DOMAIN sdna.structs[i].fields = 1 .. Len(sdna.structs[i].fields)
             /\ \A j \in 1 .. Len(sdna.structs[i].fields) :
                  /\ sdna.structs[i].fields[j].type_index \in Nat
                  /\ sdna.structs[i].fields[j].name_index \in Nat
  <2>1. sdna.structs[i] \in SdnaStruct
    BY <1>1, ElementOfSeq
  <2>2. sdna.structs[i].type_index \in Nat /\ sdna.structs[i].fields \in Seq(F)
    BY <2>1 DEF SdnaStruct
  <2> DEFINE fields == sdna.structs[i].fields
  <2> HIDE DEF F, fields
  <2>3. Len(fields) \in Nat /\ DOMAIN fields = 1 .. Len(fields)
        /\ \A j \in 1 .. Len(fields) : fields[j] \in F
    BY <2>2, LenProperties, ElementOfSeq DEF fields
  <2> QED BY <2>2, <2>3 DEF F, fields
<1>5. Len(sdna.field_names) \in Nat /\ DOMAIN sdna.field_names = 1 .. Len(sdna.field_names)
  BY <1>1, LenProperties
<1>6. ASSUME NEW i \in 1 .. Len(sdna.field_names), sdna.field_names[i] # Unreadable
      PROVE  LET wrappers == Built(sdna.field_names[i])
             IN  /\ sdna.field_names[i] \in Declarators
                 /\ IsBuilt(wrappers) /\ Len(wrappers) \in Nat /\ DOMAIN wrappers = 1 .. Len(wrappers)
  <2>1. sdna.field_names[i] \in Declarators
    <3> HIDE DEF D
    <3>1. sdna.field_names[i] \in D
      BY <1>1, ElementOfSeq
    <3> QED BY <1>6, <3>1 DEF D
  <2>2. sdna.field_names[i].dims # <<>> => Head(sdna.field_names[i].dims) <= MaxUsize
    BY <1>5 DEF IsSdna
  <2> QED BY <2>1, <2>2, BuiltIsBuilt
<1> QED BY <1>2, <1>1, <1>3, <1>4, <1>5, <1>6, DeclaratorAssumption

LEMMA ListFacts ==
  ASSUME Shaped, Listed
  PROVE  /\ Len(type_list) \in Nat /\ DOMAIN type_list = 1 .. Len(type_list)
         /\ \A i \in 1 .. Len(type_list) : type_list[i] \in Types
         /\ \A i \in 1 .. Len(type_list) :
              IF i <= type_count
              THEN /\ type_list[i].kind \in {"fundamental", "aggregate"}
                   /\ type_list[i].size = sdna.type_lengths[i] /\ type_list[i].size \in Words
              ELSE /\ type_list[i].kind \in {"array", "pointer", "function"}
                   /\ type_list[i].count \in Words /\ type_list[i].of \in NoSlot .. i - 2
                   /\ type_list[i].of = NoSlot <=> type_list[i].kind = "function"
         /\ IsSized(type_list)
         /\ \A slot \in Slots : GetSize(type_list, slot) \in Words
<1>1. IsSdna(sdna) /\ type_count \in Nat /\ MaxUsize \in Nat
  BY SdnaFacts DEF Shaped
<1>2. Len(type_list) \in Nat /\ DOMAIN type_list = 1 .. Len(type_list)
      /\ \A i \in 1 .. Len(type_list) : type_list[i] \in Types
  BY LenProperties, ElementOfSeq DEF Listed
<1>3. ASSUME NEW i \in 1 .. Len(type_list)
      PROVE  IF i <= type_count
             THEN /\ type_list[i].kind \in {"fundamental", "aggregate"}
                  /\ type_list[i].size = sdna.type_lengths[i] /\ type_list[i].size \in Words
             ELSE /\ type_list[i].kind \in {"array", "pointer", "function"}
                  /\ type_list[i].count \in Words /\ type_list[i].of \in NoSlot .. i - 2
                  /\ type_list[i].of = NoSlot <=> type_list[i].kind = "function"
  <2>1. CASE i <= type_count
    <3>1. type_list[i].kind \in {"fundamental", "aggregate"} /\ type_list[i].size = sdna.type_lengths[i]
      BY <1>2, <2>1 DEF Shaped
    <3>2. sdna.type_lengths[i] \in Words
      BY <1>1, <1>2, <2>1, SdnaFacts
    <3> QED BY <2>1, <3>1, <3>2
  <2>2. CASE ~(i <= type_count)
    BY <1>2, <2>2 DEF Shaped
  <2> QED BY <2>1, <2>2
<1>4. IsSized(type_list)
  <2> SUFFICES ASSUME NEW s \in 0 .. Len(type_list) - 1, type_list[s + 1].kind = "array"
               PROVE  /\ type_list[s + 1].of \in 0 .. Len(type_list) - 1
                      /\ type_list[type_list[s + 1].of + 1].kind \in {"fundamental", "aggregate"}
    BY DEF IsSized
  <2>1. s + 1 \in 1 .. Len(type_list)
    BY <1>2
  <2> DEFINE of == type_list[s + 1].of
  <2>2. ~(s + 1 <= type_count) /\ of \in NoSlot .. s - 1 /\ of # NoSlot
    BY <1>3, <2>1
  <2>3. of < type_count
    BY <1>2, <2>1 DEF Listed
  <2> HIDE DEF of
  <2>4. of \in 0 .. Len(type_list) - 1 /\ of + 1 <= type_count /\ of + 1 \in 1 .. Len(type_list)
    BY <1>1, <1>2, <2>2, <2>3 DEF NoSlot
  <2>5. type_list[of + 1].kind \in {"fundamental", "aggregate"}
    BY <1>3, <2>4
  <2> QED BY <2>4, <2>5 DEF of
<1>5. ASSUME NEW slot \in Slots PROVE GetSize(type_list, slot) \in Words
  <2>1. slot \in 0 .. Len(type_list) - 1 /\ slot + 1 \in 1 .. Len(type_list)
    BY <1>2 DEF Slots
  <2>2. GetSize(type_list, slot) = Size(type_list, slot)
    BY <1>4, <2>1, GetSizeIs
  <2>3. CASE slot + 1 <= type_count
    BY <1>3, <2>1, <2>2, <2>3 DEF Size
  <2>4. CASE ~(slot + 1 <= type_count)
    <3> DEFINE t == type_list[slot + 1]
    <3>1. t.kind \in {"array", "pointer", "function"} /\ t.count \in Words
      BY <1>3, <2>1, <2>4
    <3>2. t.kind = "array" => t.of \in 0 .. Len(type_list) - 1 /\ type_list[t.of + 1].kind \in {"fundamental", "aggregate"}
      BY <1>4, <2>1 DEF IsSized
    <3>3. t.kind = "array" => type_list[t.of + 1].size \in Words
      <4> HIDE DEF t
      <4>1. t.kind = "array" => t.of + 1 \in 1 .. Len(type_list)
        BY <1>2, <3>2
      <4> QED BY <1>3, <3>2, <4>1
    <3>4. Size(type_list, slot) = SizeAround(IF t.kind = "array" THEN type_list[t.of + 1].size ELSE 0, t)
      BY <3>1 DEF Size
    <3> HIDE DEF t
    <3>5. ASSUME NEW m \in Words, NEW n \in Words PROVE Wrap(m * n) \in Words
      <4> DEFINE p == m * n
      <4>1. p \in Nat
        BY <1>1 DEF Words
      <4> HIDE DEF p
      <4> QED BY <1>1, <4>1 DEF Wrap, Words
    <3>6. CASE t.kind = "array"
      <4>1. GetSize(type_list, slot) = Wrap(type_list[t.of + 1].size * t.count)
        BY <2>2, <3>4, <3>6 DEF SizeAround
      <4> QED BY <3>1, <3>3, <3>5, <3>6, <4>1
    <3>7. CASE t.kind # "array"
      BY <1>1, <2>2, <3>1, <3>4, <3>7, DeclaratorAssumption DEF SizeAround, Words
    <3> QED BY <3>6, <3>7
  <2> QED BY <2>3, <2>4
<1> QED BY <1>2, <1>3, <1>4, <1>5

LEMMA ShapedIfTypeOK == TypeOK => Shaped
BY DEF TypeOK, Shaped, Words

-----------------------------------------------------------------------------
(* A chain stays one when types are appended or those of the first pass    *)
(* are replaced.                                                           *)
LEMMA ResolvesStays ==
  ASSUME NEW s, NEW list, NEW new, Len(list) \in Nat, Len(new) \in Nat, Len(list) <= Len(new),
         Len(s.type_lengths) \in Nat,
         \A i \in Len(s.type_lengths) + 1 .. Len(list) : new[i] = list[i],
         NEW field, NEW f, Resolves(s, list, field, f),
         Len(Built(DeclaratorOf(s, f))) \in Nat
  PROVE  Resolves(s, new, field, f)
<1> DEFINE wrappers == Built(DeclaratorOf(s, f))
<1>1. PICK base \in Nat : /\ base >= Len(s.type_lengths)
                          /\ IsChain(list, base, wrappers, f.type_index, field.type)
  BY DEF Resolves
<1> HIDE DEF wrappers
<1>2. Len(wrappers) \in Nat
  BY DEF wrappers
<1>3. base + Len(wrappers) <= Len(list)
      /\ \A i \in 1 .. Len(wrappers) :
           list[base + i] = Around(wrappers[i], IF i = 1 THEN f.type_index ELSE base + i - 2)
  BY <1>1 DEF IsChain
<1>4. \A i \in 1 .. Len(wrappers) : new[base + i] = list[base + i]
  <2> TAKE i \in 1 .. Len(wrappers)
  <2>1. base + i \in Len(s.type_lengths) + 1 .. Len(list)
    BY <1>1, <1>2, <1>3
  <2> QED BY <2>1
<1>5. IsChain(new, base, wrappers, f.type_index, field.type)
  BY <1>1, <1>2, <1>3, <1>4 DEF IsChain
<1> QED BY <1>1, <1>5 DEF Resolves, wrappers

(* Steps that only go to another place.                                    *)
LEMMA FailKeeps ==
  ASSUME IInv, UNCHANGED <<sdna, type_list, type_map, struct_map, aggregate_fields, field_offset>>,
         at # "types", at' \in Errors \cup {"undefined"}, ErrorsNeedABadSdna'
  PROVE  IInv'
<1>1. at' \notin {"types", "structs", "fields", "built"}
  BY DEF Errors
<1>2. TypeOK'
  BY <1>1 DEF IInv, TypeOK, Slots, Fields, type_count, Errors
<1>3. Listed'
  BY <1>1 DEF IInv, Listed, Types, type_count
<1>4. Passes'
  BY <1>1 DEF IInv, Passes, type_count
<1>5. FieldsAreContiguous'
  BY DEF IInv, FieldsAreContiguous, FieldLists
<1>6. Mapped' /\ Followed' /\ Resolving'
  BY <1>1 DEF IInv, Mapped, Followed, Resolving, type_count
<1> QED BY <1>2, <1>3, <1>4, <1>5, <1>6 DEF IInv

LEMMA EndTypesKeeps ==
  ASSUME IInv, EndTypes
  PROVE  IInv'
<1>1. UNCHANGED <<sdna, type_list, type_map, struct_map, aggregate_fields, field_offset>>
      /\ at = "types" /\ at' = "structs" /\ Len(type_list) = type_count /\ struct_map = <<>>
  BY DEF EndTypes, IInv, Passes
<1>2. /\ type_count \in Nat /\ DOMAIN type_list = 1 .. type_count
      /\ \A i \in 1 .. type_count : type_list[i].kind = "fundamental"
  <2>1. DOMAIN type_list = 1 .. Len(type_list) /\ Len(type_list) \in Nat
    BY ListFacts, ShapedIfTypeOK DEF IInv
  <2> QED BY <1>1, <2>1 DEF IInv, Listed
<1>3. TypeOK'
  BY <1>1 DEF IInv, TypeOK, Slots, Fields, type_count, Loops
<1>4. Listed'
  BY <1>1 DEF IInv, Listed, Types, type_count
<1>5. Passes'
  BY <1>1, <1>2 DEF IInv, Passes, type_count
<1>6. FieldsAreContiguous'
  BY <1>1 DEF IInv, FieldsAreContiguous, FieldLists
<1>7. Mapped' /\ Followed'
  BY <1>1 DEF IInv, Mapped, Followed, type_count
<1>8. Resolving'
  <2>1. Finished' = {}
    <3>1. Len(struct_map') = 0 /\ at' # "fields"
      BY <1>1
    <3> QED BY <3>1 DEF Finished
  <2>2. \A slot \in 0 .. type_count' - 1 : type_list'[slot + 1].kind = "fundamental"
    BY <1>1, <1>2 DEF type_count
  <2> QED BY <1>1, <2>1, <2>2 DEF Resolving
<1>9. ErrorsNeedABadSdna'
  BY <1>1 DEF ErrorsNeedABadSdna, Errors
<1> QED BY <1>3, <1>4, <1>5, <1>6, <1>7, <1>8, <1>9 DEF IInv

LEMMA GoodStruct ==
  ASSUME IsSdna(sdna), NEW k \in DOMAIN sdna.structs,
         sdna.structs[k].type_index < type_count,
         \A i \in 1 .. Len(sdna.structs[k].fields) : IsGoodField(sdna, sdna.structs[k].fields[i])
  PROVE  IsGood(sdna.structs[k])
<1>1. k \in 1 .. Len(sdna.structs) /\ DOMAIN sdna.structs[k].fields = 1 .. Len(sdna.structs[k].fields)
  BY SdnaFacts
<1> QED BY <1>1 DEF IsGood, IsGoodField, DeclaratorOf, Declarator, type_count

LEMMA EndStructsKeeps ==
  ASSUME IInv, EndStructs
  PROVE  IInv'
<1>1. UNCHANGED <<sdna, type_list, type_map, struct_map, aggregate_fields, field_offset>>
      /\ at = "structs" /\ at' = "built" /\ Len(struct_map) = Len(sdna.structs)
  BY DEF EndStructs
<1>2. IsSdna(sdna) /\ DOMAIN sdna.structs = 1 .. Len(sdna.structs)
  BY SdnaFacts DEF IInv, TypeOK
<1>3. TypeOK'
  BY <1>1 DEF IInv, TypeOK, Slots, Fields, type_count
<1>4. Listed'
  BY <1>1 DEF IInv, Listed, Types, type_count
<1>5. Passes'
  BY <1>1, <1>2 DEF IInv, Passes, type_count
<1>6. FieldsAreContiguous'
  BY <1>1 DEF IInv, FieldsAreContiguous, FieldLists
<1>7. Mapped' /\ Followed'
  BY <1>1 DEF IInv, Mapped, Followed, type_count
<1>8. Resolving'
  BY <1>1 DEF IInv, Resolving, Finished, type_count
<1>9. ErrorsNeedABadSdna'
  <2>1. \A k \in DOMAIN sdna.structs : IsGood(sdna.structs[k])
    <3>1. Finished = DOMAIN sdna.structs
      BY <1>1, <1>2 DEF Finished
    <3> QED BY <1>1, <1>2, <3>1, GoodStruct DEF IInv, Resolving
  <2>2. \A k \in DOMAIN sdna'.structs : IsGood(sdna.structs[k])'
    BY <1>1, <2>1 DEF IsGood, type_count, Declarator
  <2> QED BY <1>1, <2>2 DEF ErrorsNeedABadSdna, Errors
<1> QED BY <1>3, <1>4, <1>5, <1>6, <1>7, <1>8, <1>9 DEF IInv

LEMMA AddFundamentalKeeps ==
  ASSUME IInv, AddFundamental
  PROVE  IInv'
<1> DEFINE i    == Len(type_list) + 1
           name == sdna.type_names[i]
           t    == Fundamental(name, sdna.type_lengths[i])
<1>1. /\ at = "types" /\ at' = at /\ Len(type_list) < type_count /\ type_list' = Append(type_list, t)
      /\ type_map' = [n \in DOMAIN type_map \cup {name} |->
                        IF n \in DOMAIN type_map THEN type_map[n] ELSE i - 1]
      /\ UNCHANGED <<sdna, struct_map, aggregate_fields, field_offset>>
      /\ struct_map = <<>> /\ aggregate_fields = <<>>
  BY DEF AddFundamental, IInv, Passes
<1>2. /\ IsSdna(sdna) /\ type_count \in Nat /\ DOMAIN sdna.type_names = 1 .. type_count
      /\ Len(type_list) \in Nat /\ DOMAIN type_list = 1 .. Len(type_list) /\ i \in 1 .. type_count
      /\ sdna.type_lengths[i] \in Words
  <2>1. IsSdna(sdna)
    BY DEF IInv, TypeOK
  <2>2. Len(type_list) \in Nat /\ DOMAIN type_list = 1 .. Len(type_list)
    BY ListFacts, ShapedIfTypeOK DEF IInv
  <2> QED BY <1>1, <2>1, <2>2, SdnaFacts
<1>3. t \in Types /\ t.kind = "fundamental" /\ t.name = name /\ t.size = sdna.type_lengths[i]
  <2>1. name \in Range(sdna.type_names)
    BY <1>2 DEF Range
  <2> QED BY <1>2, <2>1 DEF Fundamental, Types
<1> HIDE DEF t
<1>4. /\ type_list' \in Seq(Types) /\ Len(type_list') = i /\ DOMAIN type_list' = 1 .. i
      /\ type_list'[i] = t /\ \A j \in 1 .. Len(type_list) : type_list'[j] = type_list[j]
  <2>1. type_list \in Seq(Types)
    BY DEF IInv, Listed
  <2>2. type_list' \in Seq(Types) /\ Len(type_list') = i
        /\ type_list'[i] = t /\ \A j \in 1 .. Len(type_list) : type_list'[j] = type_list[j]
    BY <1>1, <1>2, <1>3, <2>1, AppendProperties
  <2> QED BY <2>2, LenProperties
<1>5. \A j \in 1 .. i : type_list'[j].kind = "fundamental"
  BY <1>2, <1>3, <1>1, <1>4 DEF IInv, Listed
<1>6. /\ DOMAIN type_map' = DOMAIN type_map \cup {name}
      /\ \A n \in DOMAIN type_map : type_map'[n] = type_map[n]
      /\ name \notin DOMAIN type_map => type_map'[name] = i - 1
  BY <1>1
<1>7. TypeOK'
  <2>1. IsSdna(sdna)' /\ at' \in Loops \cup Errors \cup {"built", "undefined"}
    BY <1>1, <1>2 DEF Loops
  <2>2. \A j \in DOMAIN type_list' : j <= type_count' /\ type_list'[j].kind = "fundamental"
                                     /\ type_list'[j].name = sdna'.type_names[j]
                                     /\ type_list'[j].size = sdna'.type_lengths[j]
    <3>1. ASSUME NEW j \in 1 .. Len(type_list)
          PROVE  type_list[j].name = sdna.type_names[j] /\ type_list[j].size = sdna.type_lengths[j]
      BY <1>1, <1>2 DEF IInv, TypeOK
    <3>2. \A j \in 1 .. i : type_list'[j].name = sdna.type_names[j] /\ type_list'[j].size = sdna.type_lengths[j]
      BY <1>2, <1>3, <1>4, <3>1
    <3> QED BY <1>1, <1>2, <1>4, <1>5, <3>2 DEF type_count
  <2>3. \A n \in DOMAIN type_map' : type_map'[n] \in Slots'
    <3>1. \A n \in DOMAIN type_map : type_map[n] \in 0 .. Len(type_list) - 1
      BY DEF IInv, TypeOK, Slots
    <3>2. Slots' = 0 .. Len(type_list)
      BY <1>2, <1>4 DEF Slots
    <3> QED BY <1>2, <1>6, <3>1, <3>2
  <2>4. struct_map' \in Seq(0 .. type_count' - 1) /\ field_offset' \in 0 .. MaxUsize
    BY <1>1 DEF IInv, TypeOK, type_count
  <2>5. aggregate_fields' \in Fields'
    BY <1>1, EmptySeq DEF Fields
  <2> QED BY <2>1, <2>2, <2>3, <2>4, <2>5 DEF TypeOK
<1>8. Listed'
  <2>1. Types' = Types
    BY <1>1 DEF Types
  <2> QED BY <1>1, <1>4, <1>5, <2>1 DEF Listed
<1>9. Passes'
  <2>1. Len(type_list') <= type_count'
    BY <1>1, <1>2, <1>4 DEF type_count
  <2> QED BY <1>1, <2>1 DEF IInv, Passes
<1>10. FieldsAreContiguous'
  <2>1. FieldLists' = {<<>>}
    BY <1>1, <1>4, <1>5 DEF FieldLists
  <2> QED BY <2>1 DEF FieldsAreContiguous
<1>11. Mapped'
  <2>1. \A j \in 1 .. type_count : j <= i => sdna.type_names[j] \in DOMAIN type_map'
    <3>1. \A j \in 1 .. type_count : j <= Len(type_list) => sdna.type_names[j] \in DOMAIN type_map
      BY DEF IInv, Mapped
    <3> QED BY <1>2, <1>6, <3>1
  <2>2. ASSUME NEW n \in DOMAIN type_map'
        PROVE  /\ type_map'[n] < type_count
               /\ sdna.type_names[type_map'[n] + 1] = n
               /\ \A j \in 1 .. type_map'[n] : sdna.type_names[j] # n
    <3>1. CASE n \in DOMAIN type_map
      BY <1>6, <3>1 DEF IInv, Mapped
    <3>2. CASE n \notin DOMAIN type_map
      <4>1. n = name /\ type_map'[n] = i - 1
        BY <1>6, <2>2, <3>2
      <4>2. \A j \in 1 .. type_count : j <= Len(type_list) => sdna.type_names[j] \in DOMAIN type_map
        BY DEF IInv, Mapped
      <4> QED BY <1>2, <3>2, <4>1, <4>2
    <3> QED BY <3>1, <3>2
  <2> QED BY <1>1, <1>4, <2>1, <2>2 DEF IInv, Mapped, type_count
<1>12. Followed' /\ Resolving' /\ ErrorsNeedABadSdna'
  BY <1>1 DEF Followed, Resolving, ErrorsNeedABadSdna, Errors
<1> QED BY <1>7, <1>8, <1>9, <1>10, <1>11, <1>12 DEF IInv

LEMMA BeginStructKeeps ==
  ASSUME IInv, BeginStruct
  PROVE  IInv'
<1> DEFINE k == Len(struct_map) + 1
<1>1. /\ at = "structs" /\ Len(struct_map) < Len(sdna.structs)
      /\ UNCHANGED <<sdna, type_list, type_map>>
      /\ IF sdna.structs[k].type_index >= type_count
         THEN at' = "InvalidSdnaStruct" /\ UNCHANGED <<struct_map, aggregate_fields, field_offset>>
         ELSE /\ at' = "fields"
              /\ struct_map' = Append(struct_map, sdna.structs[k].type_index)
              /\ aggregate_fields' = <<>>
              /\ field_offset' = 0
  BY DEF BeginStruct
<1>2. /\ IsSdna(sdna) /\ type_count \in Nat /\ DOMAIN sdna.structs = 1 .. Len(sdna.structs)
      /\ struct_map \in Seq(0 .. type_count - 1) /\ Len(struct_map) \in Nat
      /\ DOMAIN struct_map = 1 .. Len(struct_map)
      /\ k \in DOMAIN sdna.structs /\ sdna.structs[k].type_index \in Nat
      /\ Len(sdna.structs[k].fields) \in Nat
      /\ Len(type_list) \in Nat /\ MaxUsize \in Nat
  <2>1. IsSdna(sdna) /\ struct_map \in Seq(0 .. type_count - 1)
    BY DEF IInv, TypeOK
  <2>2. Len(struct_map) \in Nat /\ DOMAIN struct_map = 1 .. Len(struct_map)
    BY <2>1, LenProperties
  <2>3. Len(type_list) \in Nat
    BY ListFacts, ShapedIfTypeOK DEF IInv
  <2> QED BY <1>1, <2>1, <2>2, <2>3, SdnaFacts
<1>3. CASE sdna.structs[k].type_index >= type_count
  <2>1. at' = "InvalidSdnaStruct" /\ UNCHANGED <<struct_map, aggregate_fields, field_offset>>
    BY <1>1, <1>3
  <2>2. ~IsGood(sdna.structs[k])
    BY <1>2, <1>3 DEF IsGood
  <2>3. ErrorsNeedABadSdna'
    <3>1. ~(IsGood(sdna.structs[k])')
      BY <1>1, <2>1, <2>2 DEF IsGood, type_count, Declarator
    <3> QED BY <1>1, <1>2, <2>1, <3>1 DEF ErrorsNeedABadSdna
  <2> QED BY <1>1, <2>1, <2>3, FailKeeps DEF Errors
<1>4. CASE sdna.structs[k].type_index < type_count
  <2>1. at' = "fields" /\ aggregate_fields' = <<>> /\ field_offset' = 0
        /\ struct_map' = Append(struct_map, sdna.structs[k].type_index)
    BY <1>1, <1>2, <1>4
  <2>2. /\ struct_map' \in Seq(0 .. type_count - 1) /\ Len(struct_map') = k
        /\ DOMAIN struct_map' = 1 .. k
        /\ struct_map'[k] = sdna.structs[k].type_index
        /\ \A j \in 1 .. Len(struct_map) : struct_map'[j] = struct_map[j]
    <3>1. sdna.structs[k].type_index \in 0 .. type_count - 1
      BY <1>2, <1>4
    <3>2. /\ struct_map' \in Seq(0 .. type_count - 1) /\ Len(struct_map') = k
          /\ struct_map'[k] = sdna.structs[k].type_index
          /\ \A j \in 1 .. Len(struct_map) : struct_map'[j] = struct_map[j]
      BY <1>2, <2>1, <3>1, AppendProperties
    <3> QED BY <3>2, LenProperties
  <2>3. TypeOK'
    <3>1. aggregate_fields' \in Fields'
      BY <2>1, EmptySeq DEF Fields
    <3>2. type_count' = type_count /\ Slots' = Slots /\ Fields' = Fields
      BY <1>1 DEF type_count, Slots, Fields
    <3>3. field_offset' \in 0 .. MaxUsize
      BY <1>2, <2>1
    <3> HIDE DEF Slots, Fields, type_count
    <3> QED BY <1>1, <2>1, <2>2, <3>1, <3>2, <3>3 DEF IInv, TypeOK, Loops
  <2>4. Listed'
    BY <1>1, <2>1 DEF IInv, Listed, Types, type_count
  <2>5. Passes'
    <3>1. struct_map' # <<>>
      BY <1>2, <2>2
    <3>2. Current' = sdna.structs[k]
      BY <1>1, <2>2 DEF Current
    <3>3. Len(aggregate_fields') <= Len(Current.fields)'
      BY <1>2, <2>1, <3>2
    <3>4. Len(struct_map') <= Len(sdna'.structs) /\ type_count' <= Len(type_list')
      BY <1>1, <1>2, <2>2 DEF IInv, Passes, type_count
    <3> QED BY <2>1, <3>1, <3>3, <3>4 DEF Passes
  <2>6. FieldsAreContiguous'
    <3>1. FieldLists' \subseteq FieldLists \cup {<<>>}
      BY <1>1, <2>1 DEF FieldLists
    <3> QED BY <1>1, <3>1 DEF IInv, FieldsAreContiguous
  <2>7. Followed'
    BY <2>1 DEF Followed
  <2>8. Mapped'
    <3>1. \A j \in DOMAIN struct_map' : struct_map'[j] = sdna.structs[j].type_index
      <4>1. \A j \in 1 .. Len(struct_map) : struct_map[j] = sdna.structs[j].type_index
        BY <1>2 DEF IInv, Mapped
      <4>2. \A j \in 1 .. k : j = k \/ j \in 1 .. Len(struct_map)
        BY <1>2
      <4> QED BY <2>2, <4>1, <4>2
    <3> QED BY <1>1, <3>1 DEF IInv, Mapped, type_count
  <2>9. Resolving'
    <3>1. Finished' = Finished
      BY <1>1, <1>2, <2>1, <2>2 DEF Finished
    <3>2. Len(aggregate_fields') = 0
      BY <2>1
    <3> QED BY <1>1, <2>1, <3>1, <3>2 DEF IInv, Resolving, type_count
  <2>10. ErrorsNeedABadSdna'
    BY <2>1 DEF ErrorsNeedABadSdna, Errors
  <2> QED BY <2>3, <2>4, <2>5, <2>6, <2>7, <2>8, <2>9, <2>10 DEF IInv
<1> QED BY <1>2, <1>3, <1>4

-----------------------------------------------------------------------------
(* The struct that the second pass is at, and its fields so far.           *)
LEMMA CurrentFacts ==
  ASSUME IInv, at = "fields"
  PROVE  /\ IsSdna(sdna) /\ type_count \in Nat /\ MaxUsize \in Nat
         /\ Len(struct_map) \in 1 .. Len(sdna.structs) /\ Len(sdna.structs) \in Nat
         /\ DOMAIN sdna.structs = 1 .. Len(sdna.structs)
         /\ Current.type_index \in 0 .. type_count - 1
         /\ Len(Current.fields) \in Nat /\ DOMAIN Current.fields = 1 .. Len(Current.fields)
         /\ \A j \in 1 .. Len(Current.fields) :
              Current.fields[j].type_index \in Nat /\ Current.fields[j].name_index \in Nat
         /\ aggregate_fields \in Fields /\ Len(aggregate_fields) \in Nat
         /\ DOMAIN aggregate_fields = 1 .. Len(aggregate_fields)
         /\ Len(aggregate_fields) <= Len(Current.fields)
         /\ field_offset \in Words
         /\ type_list \in Seq(Types) /\ Len(type_list) \in Nat /\ DOMAIN type_list = 1 .. Len(type_list)
         /\ type_count <= Len(type_list)
<1>1. IsSdna(sdna) /\ aggregate_fields \in Fields /\ field_offset \in Words
      /\ struct_map \in Seq(0 .. type_count - 1)
  BY DEF IInv, TypeOK, Words
<1>2. /\ struct_map # <<>> /\ Len(struct_map) <= Len(sdna.structs)
      /\ Len(aggregate_fields) <= Len(Current.fields) /\ type_count <= Len(type_list)
  BY DEF IInv, Passes
<1>3. Len(struct_map) \in Nat \ {0} /\ DOMAIN struct_map = 1 .. Len(struct_map)
  BY <1>1, <1>2, LenProperties, EmptySeq
<1>4. Len(sdna.structs) \in Nat /\ type_count \in Nat /\ MaxUsize \in Nat
      /\ DOMAIN sdna.structs = 1 .. Len(sdna.structs)
  BY <1>1, SdnaFacts
<1>5. Len(struct_map) \in 1 .. Len(sdna.structs) /\ Len(struct_map) \in DOMAIN struct_map
  BY <1>2, <1>3, <1>4
<1>6. Current.type_index \in 0 .. type_count - 1
  <2>1. Current.type_index = struct_map[Len(struct_map)]
    BY <1>5 DEF Current, IInv, Mapped
  <2> QED BY <1>1, <1>3, <1>5, <2>1, ElementOfSeq
<1>7. /\ Len(Current.fields) \in Nat /\ DOMAIN Current.fields = 1 .. Len(Current.fields)
      /\ \A j \in 1 .. Len(Current.fields) :
           Current.fields[j].type_index \in Nat /\ Current.fields[j].name_index \in Nat
  BY <1>1, <1>5, SdnaFacts DEF Current
<1>8. Len(aggregate_fields) \in Nat /\ DOMAIN aggregate_fields = 1 .. Len(aggregate_fields)
  BY <1>1, LenProperties DEF Fields
<1>9. type_list \in Seq(Types) /\ Len(type_list) \in Nat /\ DOMAIN type_list = 1 .. Len(type_list)
  BY ListFacts, ShapedIfTypeOK DEF IInv, Listed
<1> QED BY <1>1, <1>2, <1>4, <1>5, <1>6, <1>7, <1>8, <1>9

(* A good field, and what its declarator builds.                           *)
LEMMA NextFieldFacts ==
  ASSUME IInv, HasFields
  PROVE  /\ at = "fields"
         /\ Len(aggregate_fields) + 1 \in 1 .. Len(Current.fields)
         /\ NextField.type_index \in Nat /\ NextField.name_index \in Nat
         /\ IsIndexed(NextField) /\ Declarator(NextField) # Unreadable =>
              LET wrappers == Built(Declarator(NextField))
              IN  /\ IsGoodField(sdna, NextField)
                  /\ Declarator(NextField) \in Declarators
                  /\ IsBuilt(wrappers) /\ Len(wrappers) \in Nat /\ DOMAIN wrappers = 1 .. Len(wrappers)
<1>1. at = "fields" /\ Len(aggregate_fields) < Len(Current.fields)
  BY DEF HasFields
<1>2. Len(aggregate_fields) + 1 \in 1 .. Len(Current.fields) /\ IsSdna(sdna)
  BY <1>1, CurrentFacts
<1>3. NextField.type_index \in Nat /\ NextField.name_index \in Nat
  BY <1>1, <1>2, CurrentFacts DEF NextField
<1>4. ASSUME IsIndexed(NextField), Declarator(NextField) # Unreadable
      PROVE  LET wrappers == Built(Declarator(NextField))
             IN  /\ IsGoodField(sdna, NextField)
                 /\ Declarator(NextField) \in Declarators
                 /\ IsBuilt(wrappers) /\ Len(wrappers) \in Nat /\ DOMAIN wrappers = 1 .. Len(wrappers)
  <2>1. NextField.name_index + 1 \in 1 .. Len(sdna.field_names)
    BY <1>2, <1>3, <1>4, SdnaFacts DEF IsIndexed
  <2>2. IsGoodField(sdna, NextField)
    BY <1>4 DEF IsIndexed, IsGoodField, DeclaratorOf, Declarator, type_count
  <2> QED BY <1>2, <1>4, <2>1, <2>2, SdnaFacts DEF Declarator
<1> QED BY <1>1, <1>2, <1>3, <1>4

LEMMA BadStruct ==
  ASSUME IInv, HasFields, ~IsIndexed(NextField) \/ Declarator(NextField) = Unreadable
  PROVE  Len(struct_map) \in DOMAIN sdna.structs /\ ~IsGood(sdna.structs[Len(struct_map)])
<1>1. Len(struct_map) \in DOMAIN sdna.structs /\ DOMAIN Current.fields = 1 .. Len(Current.fields)
  BY NextFieldFacts, CurrentFacts
<1>2. Len(aggregate_fields) + 1 \in DOMAIN Current.fields
  BY <1>1, NextFieldFacts
<1> QED BY <1>1, <1>2 DEF IsGood, Current, NextField, IsIndexed

LEMMA InvalidFieldKeeps ==
  ASSUME IInv, InvalidField
  PROVE  IInv'
<1>1. /\ at = "fields" /\ at' = "InvalidSdnaField" /\ HasFields /\ ~IsIndexed(NextField)
      /\ UNCHANGED <<sdna, type_list, type_map, struct_map, aggregate_fields, field_offset>>
  BY DEF InvalidField, HasFields
<1>2. Len(struct_map) \in DOMAIN sdna.structs /\ ~IsGood(sdna.structs[Len(struct_map)])
  BY <1>1, BadStruct
<1>3. ErrorsNeedABadSdna'
  <2>1. ~(IsGood(sdna.structs[Len(struct_map)])')
    BY <1>1, <1>2 DEF IsGood, type_count, Declarator
  <2> QED BY <1>1, <1>2, <2>1 DEF ErrorsNeedABadSdna
<1> QED BY <1>1, <1>3, FailKeeps DEF Errors

LEMMA InvalidNameKeeps ==
  ASSUME IInv, InvalidName
  PROVE  IInv'
<1>1. /\ at = "fields" /\ at' \in {"InvalidSdnaFieldName", "undefined"}
      /\ HasFields /\ IsIndexed(NextField) /\ Declarator(NextField) = Unreadable
      /\ UNCHANGED <<sdna, type_list, type_map, struct_map, aggregate_fields, field_offset>>
  BY DEF InvalidName, HasFields
<1>2. Len(struct_map) \in DOMAIN sdna.structs /\ ~IsGood(sdna.structs[Len(struct_map)])
  BY <1>1, BadStruct
<1>3. \E i \in DOMAIN sdna.field_names : sdna.field_names[i] = Unreadable
  <2>1. NextField.name_index + 1 \in DOMAIN sdna.field_names
    BY <1>1, NextFieldFacts, CurrentFacts, SdnaFacts DEF IsIndexed
  <2> QED BY <1>1, <2>1 DEF Declarator
<1>4. ErrorsNeedABadSdna'
  <2>1. ~(IsGood(sdna.structs[Len(struct_map)])')
    BY <1>1, <1>2 DEF IsGood, type_count, Declarator
  <2> QED BY <1>1, <1>2, <1>3, <2>1 DEF ErrorsNeedABadSdna, Errors
<1> QED BY <1>1, <1>4, FailKeeps DEF Errors

(* The types pushed lie behind the list.                                   *)
LEMMA PushedTypes ==
  ASSUME type_list \in Seq(Types), NEW slot \in Nat, NEW wrappers, IsBuilt(wrappers),
         Len(wrappers) \in Nat, DOMAIN wrappers = 1 .. Len(wrappers)
  PROVE  LET new == PushTypes(type_list, slot, wrappers)
         IN  /\ new \in Seq(Types) /\ Len(new) = Len(type_list) + Len(wrappers)
             /\ \A i \in 1 .. Len(type_list) : new[i] = type_list[i]
             /\ \A i \in 1 .. Len(wrappers) :
                  new[Len(type_list) + i] =
                    Around(wrappers[i], IF i = 1 THEN slot ELSE Len(type_list) + i - 2)
<1> DEFINE pushed == [i \in DOMAIN wrappers |->
                        Around(wrappers[i], IF i = 1 THEN slot ELSE Len(type_list) + i - 2)]
<1>1. Len(type_list) \in Nat
  BY LenProperties
<1>2. ASSUME NEW i \in 1 .. Len(wrappers) PROVE pushed[i] \in Types
  <2>1. wrappers[i] \in [kind : {"array", "pointer", "function"}, count : Words]
    BY ElementOfSeq DEF IsBuilt
  <2>2. (IF i = 1 THEN slot ELSE Len(type_list) + i - 2) \in Int /\ NoSlot \in Int
    BY <1>1 DEF NoSlot
  <2> QED BY <2>1, <2>2 DEF Around, Types
<1>3. pushed \in [1 .. Len(wrappers) -> Types]
  BY <1>2
<1>4. PushTypes(type_list, slot, wrappers) = type_list \o pushed
  BY DEF PushTypes
<1>5. \A i \in 1 .. Len(wrappers) :
        pushed[i] = Around(wrappers[i], IF i = 1 THEN slot ELSE Len(type_list) + i - 2)
  OBVIOUS
<1> HIDE DEF pushed
<1>6. pushed \in Seq(Types) /\ Len(pushed) = Len(wrappers)
  BY <1>3, FunctionIsSequence
<1> DEFINE new == type_list \o pushed
<1>0. type_list \in Seq(Types)
  OBVIOUS
<1>7. /\ new \in Seq(Types) /\ Len(new) = Len(type_list) + Len(pushed)
      /\ \A i \in 1 .. Len(type_list) + Len(pushed) :
           new[i] = IF i <= Len(type_list) THEN type_list[i] ELSE pushed[i - Len(type_list)]
  <2> HIDE DEF Types
  <2> QED BY <1>0, <1>6, ConcatProperties
<1> HIDE DEF new
<1>8. \A i \in 1 .. Len(type_list) : new[i] = type_list[i]
  BY <1>1, <1>6, <1>7 DEF new
<1>9. \A i \in 1 .. Len(wrappers) : new[Len(type_list) + i] = pushed[i]
  <2> TAKE i \in 1 .. Len(wrappers)
  <2> DEFINE j == Len(type_list) + i
  <2>1. j \in 1 .. Len(type_list) + Len(pushed) /\ ~(j <= Len(type_list)) /\ j - Len(type_list) = i
    BY <1>1, <1>6
  <2> HIDE DEF j
  <2>2. new[j] = pushed[i]
    BY <1>7, <2>1 DEF new
  <2> QED BY <2>2 DEF j
<1> QED BY <1>4, <1>5, <1>6, <1>7, <1>8, <1>9 DEF new

(* What the list becomes, in the words of the lemmas above.                *)
LEMMA AddFieldFacts ==
  ASSUME IInv, AddField
  PROVE  LET d        == Declarator(NextField)
             wrappers == Built(d)
             type     == SlotOf(type_list, NextField.type_index, wrappers)
             field    == [offset |-> field_offset, type |-> type, declarator |-> d]
         IN  /\ at = "fields" /\ at' = "fields" /\ HasFields
             /\ UNCHANGED <<sdna, type_map, struct_map>>
             /\ IsGoodField(sdna, NextField) /\ d \in Declarators
             /\ IsBuilt(wrappers) /\ Len(wrappers) \in Nat /\ DOMAIN wrappers = 1 .. Len(wrappers)
             /\ type_list' \in Seq(Types) /\ DOMAIN type_list' = 1 .. Len(type_list')
             /\ Len(type_list') = Len(type_list) + Len(wrappers)
             /\ \A i \in 1 .. Len(type_list) : type_list'[i] = type_list[i]
             /\ IsChain(type_list', Len(type_list), wrappers, NextField.type_index, type)
             /\ type \in 0 .. Len(type_list') - 1
             /\ NextField.type_index \in 0 .. type_count - 1
             /\ aggregate_fields' = Append(aggregate_fields, field)
             /\ field_offset' = Wrap(field_offset + GetSize(type_list', type))
<1> DEFINE d        == Declarator(NextField)
           wrappers == Built(d)
           slot     == NextField.type_index
           type     == SlotOf(type_list, slot, wrappers)
           field    == [offset |-> field_offset, type |-> type, declarator |-> d]
<1>1. /\ at = "fields" /\ at' = at /\ HasFields /\ UNCHANGED <<sdna, type_map, struct_map>>
      /\ IsIndexed(NextField) /\ d # Unreadable
      /\ type_list' = PushTypes(type_list, slot, wrappers)
      /\ aggregate_fields' = Append(aggregate_fields, field)
      /\ field_offset' = Wrap(field_offset + GetSize(type_list', type))
  BY DEF AddField, HasFields
<1>2. /\ IsGoodField(sdna, NextField) /\ d \in Declarators /\ slot \in Nat
      /\ IsBuilt(wrappers) /\ Len(wrappers) \in Nat /\ DOMAIN wrappers = 1 .. Len(wrappers)
  BY <1>1, NextFieldFacts
<1>3. type_list \in Seq(Types) /\ Len(type_list) \in Nat /\ type_count <= Len(type_list) /\ type_count \in Nat
  BY <1>1, CurrentFacts
<1>4. slot \in 0 .. type_count - 1
  BY <1>1, <1>2, <1>3 DEF IsIndexed
<1> HIDE DEF d, wrappers, slot, type
<1>5. /\ type_list' \in Seq(Types) /\ Len(type_list') = Len(type_list) + Len(wrappers)
      /\ \A i \in 1 .. Len(type_list) : type_list'[i] = type_list[i]
      /\ \A i \in 1 .. Len(wrappers) :
           type_list'[Len(type_list) + i] =
             Around(wrappers[i], IF i = 1 THEN slot ELSE Len(type_list) + i - 2)
  BY <1>1, <1>2, <1>3, PushedTypes
<1>6. DOMAIN type_list' = 1 .. Len(type_list')
  BY <1>5, LenProperties
<1>7. type = IF wrappers = <<>> THEN slot ELSE Len(type_list) + Len(wrappers) - 1
  BY DEF type, SlotOf
<1>8. IsChain(type_list', Len(type_list), wrappers, slot, type)
  <2>1. Len(type_list) + Len(wrappers) <= Len(type_list')
    BY <1>2, <1>3, <1>5
  <2>2. \A i \in 1 .. Len(wrappers) :
          type_list'[Len(type_list) + i] =
            Around(wrappers[i], IF i = 1 THEN slot ELSE Len(type_list) + i - 2)
    BY <1>5
  <2> QED BY <1>7, <2>1, <2>2 DEF IsChain
<1>9. type \in 0 .. Len(type_list') - 1
  <2>1. wrappers # <<>> => Len(wrappers) >= 1
    BY <1>2, EmptySeq DEF IsBuilt
  <2>2. CASE wrappers = <<>>
    BY <1>2, <1>3, <1>4, <1>5, <1>7, <2>2
  <2>3. CASE wrappers # <<>>
    BY <1>2, <1>3, <1>5, <1>7, <2>1, <2>3
  <2> QED BY <2>2, <2>3
<1> QED BY <1>1, <1>2, <1>4, <1>5, <1>6, <1>8, <1>9 DEF d, wrappers, slot, type

(* The list keeps its shape.                                               *)
LEMMA AddFieldShapes ==
  ASSUME IInv, AddField
  PROVE  Shaped' /\ Listed' /\ Types' = Types
<1> DEFINE wrappers == Built(Declarator(NextField))
           slot     == NextField.type_index
           L        == Len(type_list)
<1>1. /\ at = "fields" /\ at' = "fields" /\ UNCHANGED sdna
      /\ IsBuilt(wrappers) /\ Len(wrappers) \in Nat
      /\ type_list' \in Seq(Types) /\ DOMAIN type_list' = 1 .. Len(type_list')
      /\ Len(type_list') = L + Len(wrappers)
      /\ \A i \in 1 .. L : type_list'[i] = type_list[i]
      /\ slot \in 0 .. type_count - 1
      /\ DOMAIN wrappers = 1 .. Len(wrappers)
  BY AddFieldFacts
<1>2. \A i \in 1 .. Len(wrappers) : type_list'[L + i] = Around(wrappers[i], IF i = 1 THEN slot ELSE L + i - 2)
  BY AddFieldFacts DEF IsChain
<1>3. L \in Nat /\ type_count \in Nat /\ type_count <= L /\ DOMAIN type_list = 1 .. L
      /\ IsSdna(sdna) /\ MaxUsize \in Nat
  BY <1>1, CurrentFacts
<1> HIDE DEF wrappers, slot, L
<1>4. ASSUME NEW i \in 1 .. Len(wrappers)
      PROVE  LET t == type_list'[L + i]
             IN  /\ t \in [kind : {"array", "pointer", "function"}, count : Words, of : NoSlot .. L + i - 2]
                 /\ t.of = NoSlot <=> t.kind = "function"
                 /\ t.kind = "array" => t.of < type_count
  <2> DEFINE of == IF i = 1 THEN slot ELSE L + i - 2
  <2>1. wrappers[i] \in [kind : {"array", "pointer", "function"}, count : Words]
    BY <1>1, ElementOfSeq DEF IsBuilt
  <2>2. wrappers[i].kind = "array" => i = 1
    BY <1>1, <1>4 DEF IsBuilt
  <2>3. of \in 0 .. L + i - 2 /\ (i = 1 => of < type_count)
    BY <1>1, <1>3
  <2>4. type_list'[L + i] = Around(wrappers[i], of)
    BY <1>2
  <2> HIDE DEF of
  <2>5. of \in NoSlot .. L + i - 2 /\ of # NoSlot /\ NoSlot \in NoSlot .. L + i - 2
    BY <1>3, <2>3 DEF NoSlot
  <2>6. /\ type_list'[L + i].kind = wrappers[i].kind /\ type_list'[L + i].count = wrappers[i].count
        /\ type_list'[L + i].of = IF wrappers[i].kind = "function" THEN NoSlot ELSE of
    BY <2>4 DEF Around
  <2>7. type_list'[L + i] \in [kind : {"array", "pointer", "function"}, count : Words, of : NoSlot .. L + i - 2]
    BY <2>1, <2>4, <2>5 DEF Around
  <2> QED BY <2>2, <2>3, <2>5, <2>6, <2>7
<1>5. \A i \in 1 .. Len(type_list') : i \in 1 .. L \/ \E j \in 1 .. Len(wrappers) : i = L + j
  <2> TAKE i \in 1 .. Len(type_list')
  <2>1. CASE i <= L
    BY <1>3, <2>1
  <2>2. CASE i > L
    <3>1. i - L \in 1 .. Len(wrappers) /\ i = L + (i - L)
      BY <1>1, <1>3, <2>2
    <3> QED BY <3>1
  <2> QED BY <1>3, <2>1, <2>2
<1>6. Words' = Words /\ type_count' = type_count /\ Types' = Types
  BY <1>1 DEF Words, type_count, Types
<1>7. Shaped'
  <2>1. ASSUME NEW i \in DOMAIN type_list'
        PROVE  LET t == type_list'[i]
               IN  IF i <= type_count
                   THEN t.kind \in {"fundamental", "aggregate"} /\ t.size = sdna.type_lengths[i]
                   ELSE /\ t \in [kind : {"array", "pointer", "function"}, count : Words, of : NoSlot .. i - 2]
                        /\ t.of = NoSlot <=> t.kind = "function"
    <3>1. CASE i \in 1 .. L
      <4>1. type_list'[i] = type_list[i] /\ i \in DOMAIN type_list
        BY <1>1, <1>3, <3>1
      <4>2. Shaped
        BY ShapedIfTypeOK DEF IInv
      <4> QED BY <4>1, <4>2 DEF Shaped
    <3>2. CASE \E j \in 1 .. Len(wrappers) : i = L + j
      <4>1. PICK j \in 1 .. Len(wrappers) : i = L + j
        BY <3>2
      <4>2. ~(i <= type_count)
        BY <1>3, <4>1
      <4> DEFINE t == type_list'[i]
      <4>3. /\ t \in [kind : {"array", "pointer", "function"}, count : Words, of : NoSlot .. i - 2]
            /\ t.of = NoSlot <=> t.kind = "function"
        <5>1. L + j - 2 = i - 2
          BY <1>3, <4>1
        <5>2. LET u == type_list'[L + j]
              IN  /\ u \in [kind : {"array", "pointer", "function"}, count : Words, of : NoSlot .. L + j - 2]
                  /\ u.of = NoSlot <=> u.kind = "function"
          BY <1>4
        <5> QED BY <4>1, <5>1, <5>2, Zenon
      <4> QED BY <4>2, <4>3
    <3> QED BY <1>1, <1>5, <3>1, <3>2
  <2> QED BY <1>1, <1>3, <1>6, <2>1 DEF Shaped, NoSlot
<1>8. Listed'
  <2>1. ASSUME NEW i \in DOMAIN type_list', type_list'[i].kind = "array"
        PROVE  type_list'[i].of < type_count
    <3>1. CASE i \in 1 .. L
      BY <1>1, <1>3, <2>1, <3>1 DEF IInv, Listed
    <3>2. CASE \E j \in 1 .. Len(wrappers) : i = L + j
      BY <1>4, <2>1, <3>2
    <3> QED BY <1>1, <1>5, <3>1, <3>2
  <2> QED BY <1>1, <1>6, <2>1 DEF Listed
<1> QED BY <1>6, <1>7, <1>8

Sized == IsSized(type_list) /\ \A slot \in Slots : GetSize(type_list, slot) \in Words

LEMMA SizedIfShaped == Shaped /\ Listed => Sized
BY ListFacts DEF Sized

LEMMA SizedIfShapedNext == Shaped' /\ Listed' => Sized'
BY SizedIfShaped, PTL

(* No size changes, and the fields of other aggregates stay what they are. *)
LEMMA AddFieldSizes ==
  ASSUME IInv, AddField
  PROVE  /\ \A slot \in Slots : slot \in Slots' /\ GetSize(type_list', slot) = GetSize(type_list, slot)
         /\ \A slot \in Slots' : GetSize(type_list', slot) \in Words
<1>1. Shaped' /\ Listed' /\ Shaped /\ Listed
  BY AddFieldShapes, ShapedIfTypeOK DEF IInv
<1>2. IsSized(type_list) /\ IsSized(type_list)'
      /\ (\A slot \in Slots : GetSize(type_list, slot) \in Words)'
  BY <1>1, SizedIfShaped, SizedIfShapedNext DEF Sized
<1>3. IsSized(type_list')
  BY <1>2 DEF IsSized
<1>4. \A slot \in Slots' : GetSize(type_list', slot) \in Words
  BY <1>2 DEF Words
<1>5. /\ Len(type_list) \in Nat /\ Len(type_list') \in Nat /\ Len(type_list) <= Len(type_list')
      /\ \A i \in 1 .. Len(type_list) : type_list'[i] = type_list[i]
  <2>1. Len(type_list) \in Nat /\ at = "fields"
    BY AddFieldFacts, CurrentFacts
  <2>2. Len(type_list') = Len(type_list) + Len(Built(Declarator(NextField)))
        /\ Len(Built(Declarator(NextField))) \in Nat
        /\ \A i \in 1 .. Len(type_list) : type_list'[i] = type_list[i]
    BY AddFieldFacts
  <2> QED BY <2>1, <2>2
<1>6. ASSUME NEW slot \in Slots
      PROVE  slot \in Slots' /\ GetSize(type_list', slot) = GetSize(type_list, slot)
  <2>1. slot \in 0 .. Len(type_list) - 1 /\ slot \in Slots'
    BY <1>5 DEF Slots
  <2>2. \A s \in 0 .. Len(type_list) - 1 : type_list'[s + 1] = type_list[s + 1]
    BY <1>5
  <2> QED BY <1>2, <1>3, <1>5, <2>1, <2>2, SizesStay
<1> QED BY <1>4, <1>6

LEMMA AddFieldKeepsTypes ==
  ASSUME IInv, AddField
  PROVE  TypeOK' /\ (\A field \in Range(aggregate_fields') : field.type \in Slots')
<1> DEFINE d     == Declarator(NextField)
           type  == SlotOf(type_list, NextField.type_index, Built(d))
           field == [offset |-> field_offset, type |-> type, declarator |-> d]
           F(S)  == [offset : 0 .. MaxUsize, type : S, declarator : Declarators]
<1>1. /\ at = "fields" /\ at' = "fields" /\ UNCHANGED <<sdna, type_map, struct_map>>
      /\ d \in Declarators /\ type \in 0 .. Len(type_list') - 1
      /\ aggregate_fields' = Append(aggregate_fields, field)
      /\ field_offset' = Wrap(field_offset + GetSize(type_list', type))
      /\ DOMAIN type_list' = 1 .. Len(type_list')
      /\ \A i \in 1 .. Len(type_list) : type_list'[i] = type_list[i]
  BY AddFieldFacts
<1>2. /\ IsSdna(sdna) /\ aggregate_fields \in Fields /\ field_offset \in Words /\ MaxUsize \in Nat
      /\ Len(type_list) \in Nat /\ DOMAIN type_list = 1 .. Len(type_list) /\ type_count \in Nat
      /\ type_count <= Len(type_list)
  BY <1>1, CurrentFacts
<1>3. Slots \subseteq Slots' /\ type \in Slots'
  BY <1>1, AddFieldSizes DEF Slots
<1>4. F(Slots) \subseteq F(Slots')
  BY <1>3
<1>5. Fields = Seq(F(Slots)) /\ Fields' = Seq(F(Slots'))
  BY DEF Fields
<1>6. Fields \subseteq Fields'
  <2> HIDE DEF F
  <2> QED BY <1>4, <1>5, SeqMonotonic
<1>7. field \in F(Slots')
  BY <1>1, <1>2, <1>3 DEF Words
<1>8. aggregate_fields' \in Fields'
  <2> HIDE DEF F, field
  <2> QED BY <1>1, <1>2, <1>5, <1>6, <1>7, AppendProperties
<1> HIDE DEF d, type
<1>9. field_offset' \in 0 .. MaxUsize
  <2>1. GetSize(type_list', type) \in Words
    BY <1>3, AddFieldSizes
  <2>2. field_offset + GetSize(type_list', type) \in Nat
    BY <1>2, <2>1 DEF Words
  <2> QED BY <1>1, <1>2, <2>2 DEF Wrap
<1>10. \A i \in DOMAIN type_list' :
         LET t == type_list'[i]
         IN  IF i <= type_count'
             THEN /\ t.name = sdna'.type_names[i] /\ t.size = sdna'.type_lengths[i]
                  /\ t.kind \in {"fundamental", "aggregate"}
                  /\ t.kind = "aggregate" => t.fields \in Fields'
             ELSE /\ t \in [kind : {"array", "pointer", "function"}, count : 0 .. MaxUsize,
                            of : NoSlot .. i - 2]
                  /\ t.of = NoSlot <=> t.kind = "function"
  <2> TAKE i \in DOMAIN type_list'
  <2>0. type_count' = type_count /\ Shaped' /\ NoSlot' = NoSlot
    BY <1>1, AddFieldShapes DEF type_count, NoSlot
  <2>1. CASE i <= type_count
    <3>1. i \in DOMAIN type_list /\ type_list'[i] = type_list[i]
      BY <1>1, <1>2, <2>1
    <3>2. LET t == type_list[i]
          IN  /\ t.name = sdna.type_names[i] /\ t.size = sdna.type_lengths[i]
              /\ t.kind \in {"fundamental", "aggregate"}
              /\ t.kind = "aggregate" => t.fields \in Fields
      BY <2>1, <3>1 DEF IInv, TypeOK
    <3> QED BY <1>1, <1>6, <2>0, <2>1, <3>1, <3>2
  <2>2. CASE ~(i <= type_count)
    BY <2>0, <2>2 DEF Shaped, Words
  <2> QED BY <2>1, <2>2
<1>11. \A name \in DOMAIN type_map' : type_map'[name] \in Slots'
  BY <1>1, <1>3 DEF IInv, TypeOK
<1>12. TypeOK'
  <2>1. struct_map' \in Seq(0 .. type_count' - 1)
    BY <1>1 DEF IInv, TypeOK, type_count
  <2> QED BY <1>1, <1>2, <1>8, <1>9, <1>10, <1>11, <2>1 DEF TypeOK, Loops
<1>13. \A g \in Range(aggregate_fields') : g.type \in Slots'
  <2> HIDE DEF F
  <2>1. \A i \in DOMAIN aggregate_fields' : aggregate_fields'[i] \in F(Slots')
    BY <1>5, <1>8, LenProperties, ElementOfSeq
  <2> QED BY <2>1 DEF F, Range
<1> QED BY <1>12, <1>13

(* The fields of every list have types of the list.                        *)
LEMMA FieldTypes ==
  ASSUME TypeOK, Listed, NEW fields \in FieldLists
  PROVE  /\ Len(fields) \in Nat /\ DOMAIN fields = 1 .. Len(fields)
         /\ \A i \in DOMAIN fields : fields[i].type \in Slots /\ fields[i].offset \in Words
<1>1. fields \in Fields
  <2>1. CASE fields = aggregate_fields
    BY <2>1 DEF TypeOK
  <2>2. CASE \E i \in DOMAIN type_list : type_list[i].kind = "aggregate" /\ fields = type_list[i].fields
    BY <2>2 DEF TypeOK
  <2> QED BY <2>1, <2>2 DEF FieldLists
<1> DEFINE F == [offset : 0 .. MaxUsize, type : Slots, declarator : Declarators]
<1>2. fields \in Seq(F)
  BY <1>1 DEF Fields
<1> HIDE DEF F
<1>3. Len(fields) \in Nat /\ DOMAIN fields = 1 .. Len(fields) /\ \A i \in DOMAIN fields : fields[i] \in F
  BY <1>2, LenProperties, ElementOfSeq
<1> QED BY <1>3 DEF F, Words

Follows(list, fields, i) ==
  fields[i].offset =
    IF i = 1 THEN 0 ELSE Wrap(fields[i - 1].offset + GetSize(list, fields[i - 1].type))

LEMMA AddFieldKeepsOffsets ==
  ASSUME IInv, AddField
  PROVE  FieldsAreContiguous' /\ Followed'
<1> DEFINE d     == Declarator(NextField)
           type  == SlotOf(type_list, NextField.type_index, Built(d))
           field == [offset |-> field_offset, type |-> type, declarator |-> d]
           n     == Len(aggregate_fields) + 1
<1>1. /\ at = "fields" /\ at' = "fields" /\ UNCHANGED sdna
      /\ aggregate_fields' = Append(aggregate_fields, field)
      /\ field_offset' = Wrap(field_offset + GetSize(type_list', type))
      /\ DOMAIN type_list' = 1 .. Len(type_list')
      /\ \A i \in 1 .. Len(type_list) : type_list'[i] = type_list[i]
  BY AddFieldFacts
<1>2. /\ aggregate_fields \in Fields /\ Len(aggregate_fields) \in Nat
      /\ DOMAIN aggregate_fields = 1 .. Len(aggregate_fields)
      /\ Len(type_list) \in Nat /\ DOMAIN type_list = 1 .. Len(type_list) /\ type_count \in Nat
      /\ type_count <= Len(type_list)
  BY <1>1, CurrentFacts
<1> HIDE DEF type, d
<1>3. /\ Len(aggregate_fields') = n /\ aggregate_fields'[n] = field
      /\ DOMAIN aggregate_fields' = 1 .. n
      /\ \A i \in 1 .. Len(aggregate_fields) : aggregate_fields'[i] = aggregate_fields[i]
  <2> DEFINE F == [offset : 0 .. MaxUsize, type : Slots', declarator : Declarators]
  <2>1. aggregate_fields' \in Seq(F)
    BY AddFieldKeepsTypes DEF TypeOK, Fields
  <2> HIDE DEF F
  <2>2. DOMAIN aggregate_fields' = 1 .. Len(aggregate_fields')
    BY <2>1, LenProperties
  <2>3. /\ Len(aggregate_fields') = n /\ aggregate_fields'[n] = field
        /\ \A i \in 1 .. Len(aggregate_fields) : aggregate_fields'[i] = aggregate_fields[i]
    BY <1>1, <1>2, AppendProperties DEF Fields
  <2> QED BY <2>2, <2>3
<1>4. ASSUME NEW fields \in FieldLists, NEW i \in DOMAIN fields
      PROVE  Follows(type_list', fields, i)
  <2>1. /\ Len(fields) \in Nat /\ DOMAIN fields = 1 .. Len(fields)
        /\ \A j \in DOMAIN fields : fields[j].type \in Slots
    BY <1>4, FieldTypes DEF IInv
  <2>2. fields[i].offset = IF i = 1 THEN 0
                           ELSE Wrap(fields[i - 1].offset + GetSize(type_list, fields[i - 1].type))
    BY <1>4 DEF IInv, FieldsAreContiguous
  <2>3. i # 1 => GetSize(type_list', fields[i - 1].type) = GetSize(type_list, fields[i - 1].type)
    <3>1. i # 1 => fields[i - 1].type \in Slots
      BY <2>1
    <3> QED BY <3>1, AddFieldSizes
  <2> QED BY <2>2, <2>3 DEF Follows
<1>5. ASSUME NEW i \in 1 .. n PROVE Follows(type_list', aggregate_fields', i)
  <2>1. CASE i # n
    <3>1. i \in DOMAIN aggregate_fields /\ (i # 1 => i - 1 \in DOMAIN aggregate_fields)
      BY <1>2, <2>1
    <3>2. Follows(type_list', aggregate_fields, i)
      BY <1>4, <3>1 DEF FieldLists
    <3> QED BY <1>2, <1>3, <3>1, <3>2 DEF Follows
  <2>2. CASE i = n
    <3>1. aggregate_fields'[n].offset = field_offset
      BY <1>3
    <3>2. CASE aggregate_fields = <<>>
      <4>1. n = 1 /\ field_offset = 0
        BY <1>1, <3>2 DEF IInv, Followed
      <4> QED BY <2>2, <3>1, <4>1 DEF Follows
    <3>3. CASE aggregate_fields # <<>>
      <4> DEFINE last == aggregate_fields[n - 1]
      <4>1. n - 1 \in 1 .. Len(aggregate_fields) /\ n # 1 /\ Len(aggregate_fields) = n - 1
        <5>1. Len(aggregate_fields) # 0
          BY <1>2, <3>3, EmptySeq DEF Fields
        <5> QED BY <1>2, <5>1
      <4>2. field_offset = Wrap(last.offset + GetSize(type_list, last.type))
        BY <1>1, <3>3, <4>1 DEF IInv, Followed
      <4>3. last.type \in Slots
        BY <1>2, <4>1, FieldTypes DEF IInv, FieldLists
      <4>4. GetSize(type_list', last.type) = GetSize(type_list, last.type)
        BY <4>3, AddFieldSizes
      <4>5. aggregate_fields'[n - 1] = last
        BY <1>3, <4>1
      <4> HIDE DEF last, n
      <4> QED BY <2>2, <3>1, <4>1, <4>2, <4>4, <4>5 DEF Follows
    <3> QED BY <3>2, <3>3
  <2> QED BY <2>1, <2>2
<1>6. FieldLists' \subseteq FieldLists \cup {aggregate_fields'}
  <2> SUFFICES ASSUME NEW j \in DOMAIN type_list', type_list'[j].kind = "aggregate"
               PROVE  type_list'[j].fields \in FieldLists
    BY DEF FieldLists
  <2>1. j <= type_count
    <3>1. type_count' = type_count /\ Shaped'
      BY <1>1, AddFieldShapes DEF type_count
    <3> QED BY <3>1 DEF Shaped
  <2>2. j \in DOMAIN type_list /\ type_list'[j] = type_list[j]
    BY <1>1, <1>2, <2>1
  <2> QED BY <2>2 DEF FieldLists
<1>7. FieldsAreContiguous'
  <2>1. \A fields \in FieldLists' : \A i \in DOMAIN fields : Follows(type_list', fields, i)
    BY <1>3, <1>4, <1>5, <1>6
  <2> QED BY <2>1 DEF FieldsAreContiguous, Follows
<1>8. Followed'
  <2>1. aggregate_fields' # <<>>
    BY <1>2, <1>3
  <2>2. aggregate_fields'[Len(aggregate_fields')] = field
    BY <1>3
  <2>3. field_offset' = Wrap(field.offset + GetSize(type_list', field.type))
    BY <1>1
  <2> HIDE DEF field, n
  <2> QED BY <2>1, <2>2, <2>3 DEF Followed
<1> QED BY <1>7, <1>8

(* What is resolved of a finished struct or of a field stays so, as long   *)
(* as its declarator can be read.                                          *)
LEMMA GoodFieldBuilds ==
  ASSUME IsSdna(sdna), NEW f, IsGoodField(sdna, f), f.name_index \in Nat
  PROVE  Len(Built(DeclaratorOf(sdna, f))) \in Nat
<1>1. f.name_index + 1 \in 1 .. Len(sdna.field_names)
  BY SdnaFacts DEF IsGoodField
<1> QED BY <1>1, SdnaFacts DEF IsGoodField, DeclaratorOf

LEMMA IsOfStays ==
  ASSUME IsSdna(sdna), NEW new, Len(type_list) \in Nat, Len(new) \in Nat,
         Len(type_list) <= Len(new),
         \A i \in type_count + 1 .. Len(type_list) : new[i] = type_list[i],
         NEW k \in DOMAIN sdna.structs, NEW type,
         \A i \in 1 .. Len(sdna.structs[k].fields) : IsGoodField(sdna, sdna.structs[k].fields[i]),
         IsOf(sdna, type_list, type, sdna.structs[k])
  PROVE  IsOf(sdna, new, type, sdna.structs[k])
<1>1. ASSUME NEW i \in 1 .. Len(sdna.structs[k].fields)
      PROVE  Resolves(sdna, new, type.fields[i], sdna.structs[k].fields[i])
  <2>1. Resolves(sdna, type_list, type.fields[i], sdna.structs[k].fields[i])
    BY DEF IsOf
  <2>2. sdna.structs[k].fields[i].name_index \in Nat
    BY SdnaFacts
  <2>3. Len(Built(DeclaratorOf(sdna, sdna.structs[k].fields[i]))) \in Nat
    BY <2>2, GoodFieldBuilds
  <2>4. Len(sdna.type_lengths) \in Nat /\ Len(sdna.type_lengths) = type_count
    BY SdnaFacts DEF type_count
  <2> QED BY <2>1, <2>3, <2>4, ResolvesStays
<1> QED BY <1>1 DEF IsOf

LEMMA AddFieldResolves ==
  ASSUME IInv, AddField
  PROVE  Resolving' /\ Passes'
<1> DEFINE d     == Declarator(NextField)
           type  == SlotOf(type_list, NextField.type_index, Built(d))
           field == [offset |-> field_offset, type |-> type, declarator |-> d]
           n     == Len(aggregate_fields) + 1
           k     == Len(struct_map)
<1>1. /\ at = "fields" /\ at' = "fields" /\ UNCHANGED <<sdna, struct_map>> /\ HasFields
      /\ aggregate_fields' = Append(aggregate_fields, field)
      /\ DOMAIN type_list' = 1 .. Len(type_list')
      /\ \A i \in 1 .. Len(type_list) : type_list'[i] = type_list[i]
      /\ Len(type_list') = Len(type_list) + Len(Built(d)) /\ Len(Built(d)) \in Nat
      /\ IsGoodField(sdna, NextField)
      /\ IsChain(type_list', Len(type_list), Built(d), NextField.type_index, type)
  BY AddFieldFacts
<1>2. /\ aggregate_fields \in Fields /\ Len(aggregate_fields) \in Nat
      /\ Len(type_list) \in Nat /\ type_count \in Nat /\ type_count <= Len(type_list)
      /\ Len(type_list') \in Nat /\ Len(type_list) <= Len(type_list')
      /\ k \in 1 .. Len(sdna.structs) /\ DOMAIN sdna.structs = 1 .. Len(sdna.structs)
      /\ Len(sdna.structs) \in Nat
      /\ IsSdna(sdna) /\ \A j \in 1 .. Len(Current.fields) : Current.fields[j].name_index \in Nat
      /\ n \in 1 .. Len(Current.fields)
  <2> HIDE DEF d, type, field
  <2>1. n \in 1 .. Len(Current.fields)
    BY <1>1, NextFieldFacts
  <2> HIDE DEF n
  <2>2. /\ aggregate_fields \in Fields /\ Len(aggregate_fields) \in Nat
        /\ Len(type_list) \in Nat /\ type_count \in Nat /\ type_count <= Len(type_list)
        /\ k \in 1 .. Len(sdna.structs) /\ DOMAIN sdna.structs = 1 .. Len(sdna.structs)
        /\ Len(sdna.structs) \in Nat
        /\ IsSdna(sdna) /\ \A j \in 1 .. Len(Current.fields) : Current.fields[j].name_index \in Nat
    BY <1>1, CurrentFacts
  <2>3. Len(type_list') \in Nat /\ Len(type_list) <= Len(type_list')
    BY <1>1, <2>2
  <2> QED BY <2>1, <2>2, <2>3
<1>3. Resolves(sdna, type_list', field, NextField)
  <2>1. DeclaratorOf(sdna, NextField) = d
    BY DEF DeclaratorOf, Declarator
  <2>2. Len(type_list) >= Len(sdna.type_lengths)
    BY <1>2 DEF type_count
  <2> HIDE DEF d, type
  <2> QED BY <1>1, <1>2, <2>1, <2>2 DEF Resolves
<1> HIDE DEF field
<1>4. /\ Len(aggregate_fields') = n /\ aggregate_fields'[n] = field
      /\ \A i \in 1 .. Len(aggregate_fields) : aggregate_fields'[i] = aggregate_fields[i]
  <2> DEFINE F == [offset : 0 .. MaxUsize, type : Slots, declarator : Declarators]
  <2>1. aggregate_fields \in Seq(F)
    BY <1>2 DEF Fields
  <2> HIDE DEF F
  <2> QED BY <1>1, <1>2, <2>1, AppendProperties
<1>5. Current' = Current /\ Finished' = Finished /\ type_count' = type_count
  BY <1>1 DEF Current, Finished, type_count
<1>6. \A i \in type_count + 1 .. Len(type_list) : type_list'[i] = type_list[i]
  BY <1>1, <1>2
<1>7. ASSUME NEW i \in 1 .. n PROVE Resolves(sdna, type_list', aggregate_fields'[i], Current.fields[i])
  <2>1. CASE i = n
    BY <1>3, <1>4, <2>1 DEF NextField
  <2>2. CASE i # n
    <3>1. i \in 1 .. Len(aggregate_fields) /\ i \in 1 .. Len(Current.fields)
      BY <1>2, <2>2
    <3>2. Resolves(sdna, type_list, aggregate_fields[i], Current.fields[i])
      BY <1>1, <3>1 DEF IInv, Resolving
    <3>3. Len(Built(DeclaratorOf(sdna, Current.fields[i]))) \in Nat
      BY <1>2, <3>1, <3>2, GoodFieldBuilds DEF Resolves
    <3>4. Resolves(sdna, type_list', aggregate_fields[i], Current.fields[i])
      BY <1>2, <1>6, <3>2, <3>3, ResolvesStays DEF type_count
    <3> QED BY <1>4, <3>1, <3>4
  <2> QED BY <2>1, <2>2
<1>8. ASSUME NEW slot \in 0 .. type_count - 1
      PROVE  \/ /\ type_list'[slot + 1].kind = "fundamental"
                /\ \A j \in Finished : sdna.structs[j].type_index # slot
             \/ \E j \in Finished :
                  /\ sdna.structs[j].type_index = slot
                  /\ \A m \in Finished : sdna.structs[m].type_index = slot => m <= j
                  /\ IsOf(sdna, type_list', type_list'[slot + 1], sdna.structs[j])
  <2>1. type_list'[slot + 1] = type_list[slot + 1]
    BY <1>1, <1>2
  <2>2. CASE type_list[slot + 1].kind = "fundamental" /\ \A j \in Finished : sdna.structs[j].type_index # slot
    BY <2>1, <2>2
  <2>3. ASSUME NEW j \in Finished, IsOf(sdna, type_list, type_list[slot + 1], sdna.structs[j])
        PROVE  IsOf(sdna, type_list', type_list'[slot + 1], sdna.structs[j])
    <3>1. j \in DOMAIN sdna.structs
      BY <1>1, <1>2 DEF Finished
    <3>2. \A i \in 1 .. Len(sdna.structs[j].fields) : IsGoodField(sdna, sdna.structs[j].fields[i])
      BY <1>1 DEF IInv, Resolving
    <3> QED BY <1>2, <1>6, <2>1, <2>3, <3>1, <3>2, IsOfStays
  <2> QED BY <1>1, <1>8, <2>2, <2>3 DEF IInv, Resolving
<1>9. Resolving'
  <2>1. \A j \in Finished : /\ sdna.structs[j].type_index < type_count
                            /\ \A i \in 1 .. Len(sdna.structs[j].fields) :
                                 IsGoodField(sdna, sdna.structs[j].fields[i])
    BY <1>1 DEF IInv, Resolving
  <2> HIDE DEF n
  <2> QED BY <1>1, <1>4, <1>5, <1>7, <1>8, <2>1 DEF Resolving
<1>10. Passes'
  <2>1. struct_map' # <<>> /\ Len(struct_map') <= Len(sdna'.structs)
    BY <1>1 DEF IInv, Passes
  <2>2. type_count' <= Len(type_list') /\ Len(aggregate_fields') <= Len(Current'.fields)
    BY <1>2, <1>4, <1>5
  <2> QED BY <1>1, <2>1, <2>2 DEF Passes
<1> QED BY <1>9, <1>10

LEMMA AddFieldKeeps ==
  ASSUME IInv, AddField
  PROVE  IInv'
<1>1. /\ at = "fields" /\ at' = "fields" /\ UNCHANGED <<sdna, type_map, struct_map>>
  BY AddFieldFacts
<1>2. type_count <= Len(type_list) /\ type_count \in Nat /\ Len(type_list) \in Nat
  BY <1>1, CurrentFacts
<1>3. Mapped'
  <2>1. \A i \in 1 .. type_count : sdna.type_names[i] \in DOMAIN type_map
    BY <1>2 DEF IInv, Mapped
  <2> QED BY <1>1, <2>1 DEF IInv, Mapped, type_count
<1>4. ErrorsNeedABadSdna'
  BY <1>1 DEF ErrorsNeedABadSdna, Errors
<1> QED BY <1>3, <1>4, AddFieldKeepsTypes, AddFieldShapes, AddFieldKeepsOffsets, AddFieldResolves DEF IInv

-----------------------------------------------------------------------------
(* A struct whose fields have all been read replaces the type of its name. *)
LEMMA EndStructFacts ==
  ASSUME IInv, EndStruct
  PROVE  LET i == Current.type_index + 1
             t == Aggregate(sdna.type_names[i], sdna.type_lengths[i], aggregate_fields)
         IN  /\ at = "fields" /\ at' = "structs"
             /\ UNCHANGED <<sdna, type_map, struct_map, aggregate_fields, field_offset>>
             /\ Len(aggregate_fields) = Len(Current.fields)
             /\ i \in 1 .. type_count /\ i \in 1 .. Len(type_list)
             /\ t.kind = "aggregate" /\ t.name = sdna.type_names[i] /\ t.fields = aggregate_fields
             /\ t.size = sdna.type_lengths[i] /\ t.size = type_list[i].size
             /\ type_list' \in Seq(Types)
             /\ Len(type_list') = Len(type_list) /\ DOMAIN type_list' = 1 .. Len(type_list)
             /\ \A j \in 1 .. Len(type_list) : type_list'[j] = IF j = i THEN t ELSE type_list[j]
<1> DEFINE i == Current.type_index + 1
           t == Aggregate(sdna.type_names[i], sdna.type_lengths[i], aggregate_fields)
<1>1. /\ at = "fields" /\ at' = "structs" /\ ~HasFields
      /\ UNCHANGED <<sdna, type_map, struct_map, aggregate_fields, field_offset>>
      /\ type_list' = [type_list EXCEPT ![i] = t]
  BY DEF EndStruct
<1>2. /\ IsSdna(sdna) /\ type_count \in Nat /\ Current.type_index \in 0 .. type_count - 1
      /\ Len(Current.fields) \in Nat /\ Len(aggregate_fields) \in Nat
      /\ Len(aggregate_fields) <= Len(Current.fields)
      /\ aggregate_fields \in Fields
      /\ type_list \in Seq(Types) /\ Len(type_list) \in Nat /\ DOMAIN type_list = 1 .. Len(type_list)
      /\ type_count <= Len(type_list)
  BY <1>1, CurrentFacts
<1>3. Len(aggregate_fields) = Len(Current.fields)
  BY <1>1, <1>2 DEF HasFields
<1>4. i \in 1 .. type_count /\ i \in 1 .. Len(type_list)
  BY <1>2
<1>5. t.kind = "aggregate" /\ t.name = sdna.type_names[i] /\ t.fields = aggregate_fields
      /\ t.size = sdna.type_lengths[i]
  BY DEF Aggregate
<1> HIDE DEF i
<1>6. type_list[i].size = sdna.type_lengths[i] /\ sdna.type_lengths[i] \in Words
      /\ sdna.type_names[i] \in Range(sdna.type_names)
  <2>1. Shaped
    BY ShapedIfTypeOK DEF IInv
  <2>2. i \in DOMAIN sdna.type_names /\ sdna.type_lengths[i] \in Words
    BY <1>2, <1>4, SdnaFacts
  <2> QED BY <1>2, <1>4, <2>1, <2>2 DEF Shaped, Range
<1>7. t \in Types
  <2> DEFINE F == [offset : 0 .. MaxUsize, type : Slots, declarator : Declarators]
             G == [offset : Words, type : Nat, declarator : Declarators]
  <2>1. F \subseteq G
    BY <1>2 DEF Slots, Words
  <2>2. aggregate_fields \in Seq(G)
    <3>1. aggregate_fields \in Seq(F)
      BY <1>2 DEF Fields
    <3> HIDE DEF F, G
    <3> QED BY <2>1, <3>1, SeqMonotonic
  <2> HIDE DEF G
  <2>3. t \in [kind : {"aggregate"}, name : Range(sdna.type_names), size : Words, fields : Seq(G)]
    BY <1>6, <2>2 DEF Aggregate
  <2> QED BY <2>3 DEF Types, G
<1> HIDE DEF t
<1>8. /\ type_list' \in Seq(Types) /\ Len(type_list') = Len(type_list)
      /\ \A j \in 1 .. Len(type_list) : type_list'[j] = IF j = i THEN t ELSE type_list[j]
  <2> HIDE DEF Types
  <2> QED BY <1>1, <1>2, <1>4, <1>7, ExceptSeq
<1>9. DOMAIN type_list' = 1 .. Len(type_list)
  BY <1>8, LenProperties
<1> QED BY <1>1, <1>3, <1>4, <1>5, <1>6, <1>8, <1>9 DEF i, t

LEMMA EndStructShapes ==
  ASSUME IInv, EndStruct
  PROVE  /\ TypeOK' /\ Listed' /\ Shaped' /\ Slots' = Slots
         /\ \A slot \in Slots : GetSize(type_list', slot) = GetSize(type_list, slot)
<1> DEFINE n == Current.type_index + 1
           t == Aggregate(sdna.type_names[n], sdna.type_lengths[n], aggregate_fields)
<1>1. /\ at' = "structs"
      /\ UNCHANGED <<sdna, type_map, struct_map, aggregate_fields, field_offset>>
      /\ n \in 1 .. type_count /\ n \in 1 .. Len(type_list)
      /\ t.kind = "aggregate" /\ t.name = sdna.type_names[n] /\ t.fields = aggregate_fields
      /\ t.size = sdna.type_lengths[n] /\ t.size = type_list[n].size
      /\ type_list' \in Seq(Types)
      /\ Len(type_list') = Len(type_list) /\ DOMAIN type_list' = 1 .. Len(type_list)
      /\ \A j \in 1 .. Len(type_list) : type_list'[j] = IF j = n THEN t ELSE type_list[j]
  BY EndStructFacts
<1>2. /\ type_count \in Nat /\ Len(type_list) \in Nat /\ DOMAIN type_list = 1 .. Len(type_list)
      /\ aggregate_fields \in Fields
  BY CurrentFacts, EndStructFacts
<1> HIDE DEF n, t
<1>3. /\ Slots' = Slots /\ Fields' = Fields /\ type_count' = type_count
      /\ Types' = Types
  BY <1>1 DEF Slots, Fields, type_count, Types
<1>4. TypeOK'
  <2>1. \A i \in DOMAIN type_list :
          LET u == type_list'[i]
          IN  IF i <= type_count
              THEN /\ u.name = sdna.type_names[i] /\ u.size = sdna.type_lengths[i]
                   /\ u.kind \in {"fundamental", "aggregate"}
                   /\ u.kind = "aggregate" => u.fields \in Fields
              ELSE /\ u \in [kind : {"array", "pointer", "function"}, count : 0 .. MaxUsize,
                             of : NoSlot .. i - 2]
                   /\ u.of = NoSlot <=> u.kind = "function"
    <3> TAKE i \in DOMAIN type_list
    <3>1. CASE i = n
      <4>1. type_list'[i] = t /\ i <= type_count
        BY <1>1, <1>2, <3>1
      <4> QED BY <1>1, <1>2, <3>1, <4>1
    <3>2. CASE i # n
      <4>1. type_list'[i] = type_list[i]
        BY <1>1, <1>2, <3>2
      <4> QED BY <4>1 DEF IInv, TypeOK
    <3> QED BY <3>1, <3>2
  <2>2. IsSdna(sdna) /\ struct_map \in Seq(0 .. type_count - 1)
        /\ field_offset \in 0 .. MaxUsize /\ \A name \in DOMAIN type_map : type_map[name] \in Slots
    BY DEF IInv, TypeOK
  <2> HIDE DEF Slots, Fields, type_count
  <2> QED BY <1>1, <1>2, <1>3, <2>1, <2>2 DEF TypeOK, Loops, NoSlot
<1>5. Listed'
  <2>1. \A i \in DOMAIN type_list' : type_list'[i].kind = "array" => type_list'[i].of < type_count
    BY <1>1, <1>2 DEF IInv, Listed
  <2> QED BY <1>1, <1>3, <2>1 DEF Listed
<1>6. Shaped'
  BY <1>4 DEF TypeOK, Shaped, Words
<1>7. ASSUME NEW slot \in Slots PROVE GetSize(type_list', slot) = GetSize(type_list, slot)
  <2>1. IsSized(type_list) /\ IsSized(type_list)'
    BY <1>5, <1>6, SizedIfShaped, SizedIfShapedNext, ShapedIfTypeOK DEF Sized, IInv
  <2>2. IsSized(type_list')
    BY <2>1 DEF IsSized
  <2>3. \A s \in 0 .. Len(type_list) - 1 :
          \/ type_list'[s + 1] = type_list[s + 1]
          \/ /\ type_list[s + 1].kind \in {"fundamental", "aggregate"}
             /\ type_list'[s + 1].kind \in {"fundamental", "aggregate"}
             /\ type_list'[s + 1].size = type_list[s + 1].size
    <3> TAKE s \in 0 .. Len(type_list) - 1
    <3>1. s + 1 \in 1 .. Len(type_list)
      BY <1>2
    <3>2. type_list[n].kind \in {"fundamental", "aggregate"}
      <4>1. Shaped
        BY ShapedIfTypeOK DEF IInv
      <4> QED BY <1>1, <1>2, <4>1 DEF Shaped
    <3> QED BY <1>1, <3>1, <3>2
  <2>4. slot \in 0 .. Len(type_list) - 1
    BY DEF Slots
  <2>5. Len(type_list) \in Nat /\ Len(type_list') \in Nat /\ Len(type_list) <= Len(type_list')
    BY <1>1, <1>2
  <2> QED BY <2>1, <2>2, <2>3, <2>4, <2>5, SizesStay
<1> QED BY <1>3, <1>4, <1>5, <1>6, <1>7

LEMMA EndStructKeepsOffsets ==
  ASSUME IInv, EndStruct
  PROVE  FieldsAreContiguous'
<1> DEFINE n == Current.type_index + 1
           t == Aggregate(sdna.type_names[n], sdna.type_lengths[n], aggregate_fields)
<1>1. /\ aggregate_fields' = aggregate_fields
      /\ t.kind = "aggregate" /\ t.fields = aggregate_fields
      /\ DOMAIN type_list' = 1 .. Len(type_list)
      /\ \A j \in 1 .. Len(type_list) : type_list'[j] = IF j = n THEN t ELSE type_list[j]
      /\ DOMAIN type_list = 1 .. Len(type_list)
  BY EndStructFacts, CurrentFacts
<1> HIDE DEF n, t
<1>2. FieldLists' \subseteq FieldLists
  BY <1>1 DEF FieldLists
<1>3. ASSUME NEW fields \in FieldLists, NEW i \in DOMAIN fields
      PROVE  Follows(type_list', fields, i)
  <2>1. /\ Len(fields) \in Nat /\ DOMAIN fields = 1 .. Len(fields)
        /\ \A j \in DOMAIN fields : fields[j].type \in Slots
    BY <1>3, FieldTypes DEF IInv
  <2>2. fields[i].offset = IF i = 1 THEN 0
                           ELSE Wrap(fields[i - 1].offset + GetSize(type_list, fields[i - 1].type))
    BY <1>3 DEF IInv, FieldsAreContiguous
  <2>3. i # 1 => GetSize(type_list', fields[i - 1].type) = GetSize(type_list, fields[i - 1].type)
    <3>1. i # 1 => fields[i - 1].type \in Slots
      BY <2>1
    <3> QED BY <3>1, EndStructShapes
  <2> QED BY <2>2, <2>3 DEF Follows
<1>4. \A fields \in FieldLists' : \A i \in DOMAIN fields : Follows(type_list', fields, i)
  BY <1>2, <1>3
<1> QED BY <1>4 DEF FieldsAreContiguous, Follows

LEMMA EndStructResolves ==
  ASSUME IInv, EndStruct
  PROVE  Resolving'
<1> DEFINE n == Current.type_index + 1
           t == Aggregate(sdna.type_names[n], sdna.type_lengths[n], aggregate_fields)
           k == Len(struct_map)
<1>1. /\ at = "fields" /\ at' = "structs" /\ UNCHANGED <<sdna, struct_map>>
      /\ Len(aggregate_fields) = Len(Current.fields)
      /\ n \in 1 .. type_count /\ n \in 1 .. Len(type_list)
      /\ t.kind = "aggregate" /\ t.fields = aggregate_fields
      /\ Len(type_list') = Len(type_list)
      /\ \A j \in 1 .. Len(type_list) : type_list'[j] = IF j = n THEN t ELSE type_list[j]
  BY EndStructFacts
<1>2. /\ IsSdna(sdna) /\ type_count \in Nat /\ Current.type_index \in 0 .. type_count - 1
      /\ Len(type_list) \in Nat /\ type_count <= Len(type_list)
      /\ k \in 1 .. Len(sdna.structs) /\ DOMAIN sdna.structs = 1 .. Len(sdna.structs)
      /\ Len(sdna.structs) \in Nat /\ Current = sdna.structs[k]
      /\ \A j \in 1 .. Len(Current.fields) : Current.fields[j].name_index \in Nat
  BY <1>1, CurrentFacts DEF Current
<1>3. Finished = 1 .. k - 1 /\ Finished' = 1 .. k /\ type_count' = type_count
  BY <1>1 DEF Finished, type_count
<1>4. \A i \in type_count + 1 .. Len(type_list) : type_list'[i] = type_list[i]
  BY <1>1, <1>2
<1> HIDE DEF t
<1>5. \A i \in 1 .. Len(Current.fields) :
        /\ Resolves(sdna, type_list, aggregate_fields[i], Current.fields[i])
        /\ IsGoodField(sdna, Current.fields[i])
  <2>1. \A i \in 1 .. Len(Current.fields) : Resolves(sdna, type_list, aggregate_fields[i], Current.fields[i])
    BY <1>1 DEF IInv, Resolving
  <2> QED BY <2>1 DEF Resolves
<1>6. IsOf(sdna, type_list, t, Current)
  BY <1>1, <1>5 DEF IsOf
<1>7. IsOf(sdna, type_list', t, sdna.structs[k])
  <2>1. \A i \in 1 .. Len(sdna.structs[k].fields) : IsGoodField(sdna, sdna.structs[k].fields[i])
    BY <1>2, <1>5
  <2>2. Len(type_list') \in Nat /\ Len(type_list) <= Len(type_list')
        /\ k \in DOMAIN sdna.structs /\ IsOf(sdna, type_list, t, sdna.structs[k])
    BY <1>1, <1>2, <1>6
  <2> HIDE DEF k, n
  <2> QED BY <1>2, <1>4, <2>1, <2>2, IsOfStays
<1> HIDE DEF k
<1>8. ASSUME NEW j \in Finished'
      PROVE  /\ sdna.structs[j].type_index < type_count
             /\ \A i \in 1 .. Len(sdna.structs[j].fields) : IsGoodField(sdna, sdna.structs[j].fields[i])
  <2>1. CASE j = k
    BY <1>2, <1>5, <2>1
  <2>2. CASE j # k
    <3>1. j \in Finished
      BY <1>2, <1>3, <2>2
    <3> QED BY <1>1, <3>1 DEF IInv, Resolving
  <2> QED BY <2>1, <2>2
<1>9. ASSUME NEW slot \in 0 .. type_count - 1
      PROVE  \/ /\ type_list'[slot + 1].kind = "fundamental"
                /\ \A j \in Finished' : sdna.structs[j].type_index # slot
             \/ \E j \in Finished' :
                  /\ sdna.structs[j].type_index = slot
                  /\ \A m \in Finished' : sdna.structs[m].type_index = slot => m <= j
                  /\ IsOf(sdna, type_list', type_list'[slot + 1], sdna.structs[j])
  <2>1. CASE slot = Current.type_index
    <3>1. type_list'[slot + 1] = t
      BY <1>1, <1>2, <2>1 DEF n
    <3>2. k \in Finished' /\ \A m \in Finished' : m <= k
      BY <1>2, <1>3
    <3> QED BY <1>2, <1>7, <2>1, <3>1, <3>2
  <2>2. CASE slot # Current.type_index
    <3>1. type_list'[slot + 1] = type_list[slot + 1]
      <4>1. slot + 1 \in 1 .. Len(type_list) /\ slot + 1 # n
        BY <1>2, <2>2 DEF n
      <4> QED BY <1>1, <4>1
    <3>2. \A m \in Finished' : sdna.structs[m].type_index = slot => m \in Finished
      <4> TAKE m \in Finished'
      <4>1. m \in Finished \/ m = k
        BY <1>2, <1>3
      <4> QED BY <1>2, <2>2, <4>1
    <3>3. Finished \subseteq Finished'
      BY <1>2, <1>3
    <3>4. CASE type_list[slot + 1].kind = "fundamental" /\ \A j \in Finished : sdna.structs[j].type_index # slot
      BY <3>1, <3>2, <3>4
    <3>5. ASSUME NEW j \in Finished, IsOf(sdna, type_list, type_list[slot + 1], sdna.structs[j])
          PROVE  IsOf(sdna, type_list', type_list'[slot + 1], sdna.structs[j])
      <4>1. j \in DOMAIN sdna.structs
        BY <1>2, <1>3
      <4>2. \A i \in 1 .. Len(sdna.structs[j].fields) : IsGoodField(sdna, sdna.structs[j].fields[i])
        BY <1>8, <3>3
      <4>3. Len(type_list') \in Nat /\ Len(type_list) <= Len(type_list')
        BY <1>1, <1>2
      <4> QED BY <1>2, <1>4, <3>1, <3>5, <4>1, <4>2, <4>3, IsOfStays
    <3>6. CASE \E j \in Finished :
                 /\ sdna.structs[j].type_index = slot
                 /\ \A m \in Finished : sdna.structs[m].type_index = slot => m <= j
                 /\ IsOf(sdna, type_list, type_list[slot + 1], sdna.structs[j])
      BY <3>2, <3>3, <3>5, <3>6
    <3> QED BY <1>1, <1>9, <3>4, <3>6 DEF IInv, Resolving
  <2> QED BY <2>1, <2>2
<1>10. (\A j \in Finished :
         /\ sdna.structs[j].type_index < type_count
         /\ \A i \in 1 .. Len(sdna.structs[j].fields) : IsGoodField(sdna, sdna.structs[j].fields[i]))'
  BY <1>1, <1>3, <1>8
<1>11. (\A slot \in 0 .. type_count - 1 :
         \/ /\ type_list[slot + 1].kind = "fundamental"
            /\ \A j \in Finished : sdna.structs[j].type_index # slot
         \/ \E j \in Finished :
              /\ sdna.structs[j].type_index = slot
              /\ \A m \in Finished : sdna.structs[m].type_index = slot => m <= j
              /\ IsOf(sdna, type_list, type_list[slot + 1], sdna.structs[j]))'
  BY <1>1, <1>3, <1>9
<1>12. at' # "fields"
  BY <1>1
<1> HIDE DEF n
<1> QED BY <1>10, <1>11, <1>12 DEF Resolving

LEMMA EndStructKeeps ==
  ASSUME IInv, EndStruct
  PROVE  IInv'
<1>1. /\ at = "fields" /\ at' = "structs" /\ UNCHANGED <<sdna, type_map, struct_map>>
      /\ Len(type_list') = Len(type_list)
  BY EndStructFacts
<1>2. Passes' /\ Mapped'
  BY <1>1 DEF IInv, Passes, Mapped, type_count
<1>3. Followed' /\ ErrorsNeedABadSdna'
  BY <1>1 DEF Followed, ErrorsNeedABadSdna, Errors
<1> QED BY <1>2, <1>3, EndStructShapes, EndStructKeepsOffsets, EndStructResolves DEF IInv

-----------------------------------------------------------------------------
LEMMA InitHolds == Init => IInv
<1> SUFFICES ASSUME Init PROVE IInv
  OBVIOUS
<1>1. /\ IsSdna(sdna) /\ type_list = <<>> /\ type_map = <<>> /\ struct_map = <<>>
      /\ aggregate_fields = <<>> /\ field_offset = 0 /\ at = "types"
  BY TypeDatabaseAssumption DEF Init
<1>2. /\ type_count \in Nat /\ MaxUsize \in Nat /\ Len(sdna.structs) \in Nat
      /\ DOMAIN type_list = {} /\ DOMAIN type_map = {} /\ DOMAIN struct_map = {}
      /\ DOMAIN aggregate_fields = {}
      /\ Len(type_list) = 0 /\ Len(struct_map) = 0
  BY <1>1, SdnaFacts
<1>3. TypeOK
  BY <1>1, <1>2 DEF TypeOK, Loops, Fields
<1>4. Listed /\ Passes /\ Followed /\ ErrorsNeedABadSdna
  BY <1>1, <1>2 DEF Listed, Passes, Followed, ErrorsNeedABadSdna, Errors
<1>5. FieldsAreContiguous
  <2>1. FieldLists = {<<>>}
    BY <1>1, <1>2 DEF FieldLists
  <2> QED BY <1>1, <1>2, <2>1 DEF FieldsAreContiguous
<1>6. Mapped /\ Resolving
  BY <1>1, <1>2 DEF Mapped, Resolving
<1> QED BY <1>3, <1>4, <1>5, <1>6 DEF IInv

LEMMA StutterKeeps == IInv /\ UNCHANGED vars => IInv'
<1> SUFFICES ASSUME IInv, UNCHANGED vars PROVE IInv'
  OBVIOUS
<1>1. TypeOK' /\ Listed' /\ Passes'
  BY DEF vars, IInv, TypeOK, Listed, Passes, Slots, Fields, type_count, Types, Current
<1>2. FieldsAreContiguous'
  BY DEF vars, IInv, FieldsAreContiguous, FieldLists
<1>3. Followed' /\ Mapped'
  BY DEF vars, IInv, Followed, Mapped, type_count
<1>4. Resolving'
  BY DEF vars, IInv, Resolving, Current, Finished, type_count
<1>5. ErrorsNeedABadSdna'
  BY DEF vars, IInv, ErrorsNeedABadSdna, IsGood, type_count, Declarator
<1> QED BY <1>1, <1>2, <1>3, <1>4, <1>5 DEF IInv

(* The invariant, of every behaviour.                                      *)
LEMMA InvariantHolds == Spec => []IInv
<1>1. IInv /\ [Next]_vars => IInv'
  BY AddFundamentalKeeps, EndTypesKeeps, BeginStructKeeps, InvalidFieldKeeps, AddFieldKeeps,
     InvalidNameKeeps, EndStructKeeps, EndStructsKeeps, StutterKeeps DEF Next
<1> QED BY InitHolds, <1>1, PTL DEF Spec

-----------------------------------------------------------------------------
(* The types have the lengths and the names of the SDNA, every reference   *)
(* is to a slot of the list, and no chain of arrays and pointers in it is  *)
(* circular.                                                               *)
THEOREM TypeCorrect == Spec => []TypeOK
<1>1. IInv => TypeOK
  BY DEF IInv
<1> QED BY InvariantHolds, <1>1, PTL

(* Each field of a struct begins where the one before it ends by the size  *)
(* that its type has now, whatever replaced the type since.                *)
THEOREM FieldsAlwaysContiguous == Spec => []FieldsAreContiguous
<1>1. IInv => FieldsAreContiguous
  BY DEF IInv
<1> QED BY InvariantHolds, <1>1, PTL

(* A database is only built of an SDNA whose indices are in range and      *)
(* whose names can be read, and only refused if one of them is not.        *)
THEOREM ErrorsAlwaysNeedABadSdna == Spec => []ErrorsNeedABadSdna
<1>1. IInv => ErrorsNeedABadSdna
  BY DEF IInv
<1> QED BY InvariantHolds, <1>1, PTL

LEMMA BuiltFacts ==
  ASSUME IInv, at = "built"
  PROVE  /\ Shaped /\ Listed /\ IsSdna(sdna)
         /\ type_count \in Nat /\ Len(type_list) \in Nat /\ type_count <= Len(type_list)
         /\ Finished = DOMAIN sdna.structs /\ DOMAIN sdna.structs \subseteq Nat
         /\ struct_map \in Seq(0 .. type_count - 1)
         /\ DOMAIN struct_map = DOMAIN sdna.structs
         /\ \A i \in DOMAIN sdna.structs :
              /\ struct_map[i] = sdna.structs[i].type_index
              /\ sdna.structs[i].type_index \in 0 .. type_count - 1
              /\ i - 1 < Len(struct_map)
<1>1. Shaped /\ Listed /\ IsSdna(sdna) /\ struct_map \in Seq(0 .. type_count - 1)
  BY ShapedIfTypeOK DEF IInv, TypeOK
<1>2. type_count \in Nat /\ Len(type_list) \in Nat /\ type_count <= Len(type_list)
  BY <1>1, SdnaFacts, ListFacts DEF IInv, Passes
<1>3. Len(struct_map) = Len(sdna.structs)
  BY DEF IInv, Passes
<1>4. /\ Len(sdna.structs) \in Nat /\ DOMAIN sdna.structs = 1 .. Len(sdna.structs)
      /\ DOMAIN struct_map = 1 .. Len(struct_map)
      /\ \A i \in DOMAIN sdna.structs : sdna.structs[i].type_index \in Nat
  <2>1. DOMAIN struct_map = 1 .. Len(struct_map)
    BY <1>1, LenProperties
  <2> QED BY <1>1, <2>1, SdnaFacts
<1>5. Finished = DOMAIN sdna.structs
  BY <1>3, <1>4 DEF Finished
<1>6. \A i \in DOMAIN sdna.structs : sdna.structs[i].type_index < type_count
  BY <1>5 DEF IInv, Resolving
<1>7. \A i \in DOMAIN struct_map : struct_map[i] = sdna.structs[i].type_index
  BY DEF IInv, Mapped
<1> QED BY <1>1, <1>2, <1>3, <1>4, <1>5, <1>6, <1>7

(* A type is found under its name unless a type before it has the name,    *)
(* and for the blocks of its struct, of which it has the fields.           *)
THEOREM LookupsAlwaysFindTheirTypes == Spec => []LookupsFindTheirTypes
<1>1. ASSUME IInv PROVE LookupsFindTheirTypes
  <2> SUFFICES ASSUME at = "built" PROVE LookupsFindTheirTypes
    BY DEF LookupsFindTheirTypes
  <2>1. ASSUME NEW i \in 1 .. type_count - 1,
               \A j \in 0 .. i - 1 : sdna.type_names[j + 1] # sdna.type_names[i + 1]
        PROVE  GetType(sdna.type_names[i + 1]) = {i}
    <3> DEFINE name == sdna.type_names[i + 1]
               m    == type_map[name]
    <3>1. name \in DOMAIN type_map
      <4>1. i + 1 \in 1 .. type_count /\ i + 1 <= Len(type_list)
        BY <1>1, BuiltFacts
      <4> QED BY <1>1, <4>1 DEF IInv, Mapped
    <3> HIDE DEF name
    <3>2. /\ m < type_count /\ sdna.type_names[m + 1] = name
          /\ \A j \in 1 .. m : sdna.type_names[j] # name
          /\ m \in Slots
      BY <1>1, <3>1 DEF IInv, Mapped, TypeOK
    <3>3. m \in Nat /\ i < Len(type_list) /\ i \in Nat
      BY <1>1, <3>2, BuiltFacts DEF Slots
    <3> HIDE DEF m
    <3>4. ~(i < m)
      <4>1. i < m => i + 1 \in 1 .. m
        BY <3>3
      <4> QED BY <3>2, <4>1 DEF name
    <3>5. ~(m < i)
      <4>1. m < i => m \in 0 .. i - 1
        BY <3>3
      <4> QED BY <2>1, <3>2, <4>1 DEF name
    <3>6. m = i
      BY <3>3, <3>4, <3>5
    <3>7. Found(i) = {i}
      BY <2>1, <3>3 DEF Found
    <3> QED BY <3>1, <3>6, <3>7 DEF GetType, m, name
  <2>2. ASSUME NEW i \in DOMAIN sdna.structs, sdna.structs[i].type_index > 0
        PROVE  /\ GetBlockType(i - 1) = {sdna.structs[i].type_index}
               /\ type_list[sdna.structs[i].type_index + 1].kind = "aggregate"
    <3> DEFINE slot == sdna.structs[i].type_index
    <3>1. /\ i \in Nat /\ i - 1 < Len(struct_map) /\ struct_map[i] = slot /\ slot \in 0 .. type_count - 1
          /\ type_count \in Nat /\ Len(type_list) \in Nat /\ type_count <= Len(type_list)
          /\ i \in Finished
      BY <1>1, BuiltFacts
    <3>2. type_list[slot + 1].kind = "aggregate"
      <4>1. \/ /\ type_list[slot + 1].kind = "fundamental"
               /\ \A k \in Finished : sdna.structs[k].type_index # slot
            \/ \E k \in Finished : IsOf(sdna, type_list, type_list[slot + 1], sdna.structs[k])
        BY <1>1, <3>1 DEF IInv, Resolving
      <4> QED BY <3>1, <4>1 DEF IsOf
    <3> HIDE DEF slot
    <3>3. Found(slot) = {slot}
      BY <2>2, <3>1 DEF Found, slot
    <3>4. i - 1 + 1 = i
      BY <3>1
    <3>5. GetBlockType(i - 1) = Found(struct_map[i - 1 + 1])
      BY <3>1 DEF GetBlockType
    <3> QED BY <3>1, <3>2, <3>3, <3>4, <3>5 DEF slot
  <2> QED BY <2>1, <2>2 DEF LookupsFindTheirTypes
<1>2. IInv => LookupsFindTheirTypes
  BY <1>1
<1> QED BY InvariantHolds, <1>2, PTL

-----------------------------------------------------------------------------
(* A non-empty set of naturals has a least element: an interval from 0 to  *)
(* one of its elements is finite, and one of these contains no other.      *)
LEMMA LeastElement ==
  ASSUME NEW S \in SUBSET Nat, S # {}
  PROVE  \E k \in S : \A j \in S : k <= j
<1> DEFINE Upto(k) == 0 .. k
           T       == {Upto(k) : k \in S}
<1>1. PICK k \in S : \A j \in S : ~(<<Upto(j), Upto(k)>> \in StrictSubsetOrdering(Nat))
  <2>1. ASSUME NEW k \in S PROVE IsFiniteSet(Upto(k)) /\ Upto(k) \in SUBSET Nat
    BY FS_Interval
  <2>2. T \subseteq FiniteSubsetsOf(Nat) /\ T # {}
    BY <2>1 DEF FiniteSubsetsOf
  <2>3. \E x \in T : \A y \in T : ~(<<y, x>> \in StrictSubsetOrdering(Nat))
    <3> HIDE DEF T
    <3> QED BY <2>2, FS_StrictSubsetOrderingWellFounded, WFMin
  <2> QED BY <2>3
<1>2. ASSUME NEW j \in S, j < k PROVE FALSE
  <2>1. /\ Upto(j) \in SUBSET Nat /\ Upto(k) \in SUBSET Nat
        /\ Upto(j) \subseteq Upto(k) /\ Upto(k) # Upto(j)
    BY <1>2
  <2> HIDE DEF Upto
  <2> QED BY <1>1, <2>1 DEF StrictSubsetOrdering
<1> QED BY <1>2

(* A function on slots whose value in one of them is given, or comes from  *)
(* its value in a slot before, exists: there is no first slot up to which  *)
(* there is none.                                                          *)
Solves(h, top, leaves, of, start, Step) ==
  \A s \in NoSlot .. top :
    h[s] = IF s \in leaves THEN start[s] ELSE Step[s][h[of[s]]]

LEMMA Recursion ==
  ASSUME NEW N \in Nat, NEW V, NEW leaves, NEW of, NEW start, NEW Step,
         NoSlot \in leaves,
         \A s \in NoSlot .. N - 1 :
           /\ s \in leaves => start[s] \in V
           /\ s \notin leaves => of[s] \in NoSlot .. s - 1 /\ \A v \in V : Step[s][v] \in V
  PROVE  \E h \in [NoSlot .. N - 1 -> V] : Solves(h, N - 1, leaves, of, start, Step)
<1> DEFINE Has(n) == \E h \in [NoSlot .. n - 1 -> V] : Solves(h, n - 1, leaves, of, start, Step)
           Bad    == {n \in 0 .. N : ~Has(n)}
<1>1. Has(0)
  <2> DEFINE h == [s \in NoSlot .. -1 |-> start[s]]
  <2>1. h \in [NoSlot .. -1 -> V]
    BY DEF NoSlot
  <2>2. Solves(h, -1, leaves, of, start, Step)
    BY DEF Solves, NoSlot
  <2> HIDE DEF h
  <2>3. 0 - 1 = -1
    OBVIOUS
  <2> QED BY <2>1, <2>2, <2>3
<1>2. ASSUME NEW n \in 1 .. N, Has(n - 1) PROVE Has(n)
  <2>0. n \in Nat /\ n - 1 \in NoSlot .. N - 1 /\ n - 1 - 1 = n - 2
    BY DEF NoSlot
  <2>1. PICK h \in [NoSlot .. n - 2 -> V] : Solves(h, n - 2, leaves, of, start, Step)
    BY <1>2, <2>0
  <2> DEFINE top == n - 1
             new == IF top \in leaves THEN start[top] ELSE Step[top][h[of[top]]]
             g   == [s \in NoSlot .. top |-> IF s = top THEN new ELSE h[s]]
  <2>2. new \in V
    <3>1. CASE top \in leaves
      BY <2>0, <3>1
    <3>2. CASE top \notin leaves
      <4>1. of[top] \in NoSlot .. n - 2
        BY <2>0, <3>2
      <4>2. h[of[top]] \in V
        BY <2>1, <4>1
      <4> QED BY <2>0, <3>2, <4>2
    <3> QED BY <3>1, <3>2
  <2>3. \A s \in NoSlot .. top : s = top \/ s \in NoSlot .. n - 2
    BY <2>0 DEF NoSlot
  <2>4. g \in [NoSlot .. top -> V]
    <3> HIDE DEF new
    <3> QED BY <2>1, <2>2, <2>3
  <2>5. \A s \in NoSlot .. top : s \notin leaves => of[s] \in NoSlot .. n - 2 /\ of[s] # top /\ of[s] \in NoSlot .. top
    BY <2>0 DEF NoSlot
  <2>6. ASSUME NEW s \in NoSlot .. top
        PROVE  g[s] = IF s \in leaves THEN start[s] ELSE Step[s][g[of[s]]]
    <3>1. s \notin leaves => g[of[s]] = h[of[s]]
      <4> HIDE DEF top, new
      <4> QED BY <2>5
    <3>2. CASE s = top
      <4>1. g[s] = new
        BY <3>2
      <4> HIDE DEF top, g
      <4> QED BY <3>1, <3>2, <4>1
    <3>3. CASE s # top
      <4>1. g[s] = h[s] /\ s \in NoSlot .. n - 2
        BY <2>3, <3>3
      <4> HIDE DEF g, top, new
      <4> QED BY <2>1, <3>1, <4>1 DEF Solves
    <3> QED BY <3>2, <3>3
  <2> HIDE DEF g
  <2>7. Solves(g, n - 1, leaves, of, start, Step)
    BY <2>6 DEF Solves
  <2> QED BY <2>4, <2>7
<1> HIDE DEF Has
<1>3. Bad = {}
  <2> SUFFICES ASSUME Bad # {} PROVE FALSE
    OBVIOUS
  <2>1. PICK n \in Bad : \A j \in Bad : n <= j
    <3>1. Bad \in SUBSET Nat
      OBVIOUS
    <3> HIDE DEF Bad
    <3> QED BY <3>1, LeastElement
  <2>2. n \in 1 .. N /\ n - 1 \in 0 .. N /\ ~(n <= n - 1)
    BY <1>1
  <2>3. Has(n - 1)
    BY <2>1, <2>2
  <2> QED BY <1>2, <2>2, <2>3
<1>4. Has(N)
  BY <1>3
<1> QED BY <1>4 DEF Has

-----------------------------------------------------------------------------
(* Where the types behind the first pass come from, one type at a time.    *)
LEMMA BaseIs ==
  ASSUME Shaped, Listed, NEW slot \in NoSlot .. Len(type_list) - 1
  PROVE  Base(slot) = IF slot < type_count THEN slot ELSE Base(type_list[slot + 1].of)
<1> DEFINE N       == Len(type_list)
           Body(h, s) == IF s < type_count THEN s ELSE h[type_list[s + 1].of]
           Is(h)   == h = [s \in NoSlot .. N - 1 |-> Body(h, s)]
           leaves  == {s \in NoSlot .. N - 1 : s < type_count}
           of      == [s \in NoSlot .. N - 1 |-> type_list[s + 1].of]
           start   == [s \in NoSlot .. N - 1 |-> s]
           Step    == [s \in NoSlot .. N - 1 |-> [v \in Int |-> v]]
           base    == CHOOSE h : Is(h)
<1>1. N \in Nat /\ type_count \in Nat
  BY ListFacts, SdnaFacts DEF Shaped
<1>2. ASSUME NEW s \in NoSlot .. N - 1, ~(s < type_count) PROVE type_list[s + 1].of \in NoSlot .. s - 1
  <2>1. s + 1 \in 1 .. N /\ ~(s + 1 <= type_count) /\ s + 1 - 2 = s - 1
    BY <1>1, <1>2 DEF NoSlot
  <2>2. type_list[s + 1].of \in NoSlot .. s + 1 - 2
    BY <2>1, ListFacts
  <2> QED BY <2>1, <2>2
<1>3. \E h : Is(h)
  <2>1. NoSlot \in leaves
    BY <1>1 DEF NoSlot
  <2>2. \A s \in NoSlot .. N - 1 :
          /\ s \in leaves => start[s] \in Int
          /\ s \notin leaves => of[s] \in NoSlot .. s - 1 /\ \A v \in Int : Step[s][v] \in Int
    BY <1>1, <1>2 DEF NoSlot
  <2>3. PICK h \in [NoSlot .. N - 1 -> Int] : Solves(h, N - 1, leaves, of, start, Step)
    <3> HIDE DEF N, leaves, of, start, Step
    <3> QED BY <1>1, <2>1, <2>2, Recursion
  <2>4. ASSUME NEW s \in NoSlot .. N - 1 PROVE h[s] = Body(h, s)
    <3>1. h[s] = IF s \in leaves THEN start[s] ELSE Step[s][h[of[s]]]
      <4> HIDE DEF leaves, of, start, Step
      <4> QED BY <2>3 DEF Solves
    <3>2. CASE s < type_count
      BY <3>1, <3>2
    <3>3. CASE ~(s < type_count)
      <4>1. type_list[s + 1].of \in NoSlot .. N - 1
        BY <1>1, <1>2, <3>3 DEF NoSlot
      <4>2. h[type_list[s + 1].of] \in Int
        BY <2>3, <4>1
      <4> QED BY <3>1, <3>3, <4>2
    <3> QED BY <3>2, <3>3
  <2>5. Is(h)
    <3> HIDE DEF Body
    <3> QED BY <2>3, <2>4
  <2> QED BY <2>5
<1>4. Is(base)
  <2> HIDE DEF Is
  <2> QED BY <1>3
<1>5. \A s \in NoSlot .. N - 1 : base[s] = Body(base, s)
  <2> HIDE DEF base, Body
  <2> QED BY <1>4
<1>6. \A s : Base(s) = base[s]
  BY DEF Base
<1> HIDE DEF base
<1> QED BY <1>5, <1>6

Wrapper == [kind : {"array", "pointer", "function"}, count : Words]

LEMMA LayersIs ==
  ASSUME Shaped, Listed, NEW slot \in NoSlot .. Len(type_list) - 1
  PROVE  Layers(slot) =
           IF slot < type_count THEN <<>>
           ELSE LET t == type_list[slot + 1]
                IN  Append(Layers(t.of), [kind |-> t.kind, count |-> t.count])
<1> DEFINE N       == Len(type_list)
           W(s)    == [kind |-> type_list[s + 1].kind, count |-> type_list[s + 1].count]
           Body(h, s) == IF s < type_count THEN <<>> ELSE Append(h[type_list[s + 1].of], W(s))
           Is(h)   == h = [s \in NoSlot .. N - 1 |-> Body(h, s)]
           leaves  == {s \in NoSlot .. N - 1 : s < type_count}
           of      == [s \in NoSlot .. N - 1 |-> type_list[s + 1].of]
           start   == [s \in NoSlot .. N - 1 |-> <<>>]
           V       == Seq(Wrapper)
           Step    == [s \in NoSlot .. N - 1 |-> [v \in V |-> Append(v, W(s))]]
           layers  == CHOOSE h : Is(h)
<1>1. N \in Nat /\ type_count \in Nat
  BY ListFacts, SdnaFacts DEF Shaped
<1>2. ASSUME NEW s \in NoSlot .. N - 1, ~(s < type_count)
      PROVE  type_list[s + 1].of \in NoSlot .. s - 1 /\ W(s) \in Wrapper
  <2>1. s + 1 \in 1 .. N /\ ~(s + 1 <= type_count) /\ s + 1 - 2 = s - 1
    BY <1>1, <1>2 DEF NoSlot
  <2>2. /\ type_list[s + 1].of \in NoSlot .. s + 1 - 2
        /\ type_list[s + 1].kind \in {"array", "pointer", "function"} /\ type_list[s + 1].count \in Words
    BY <2>1, ListFacts
  <2> QED BY <2>1, <2>2 DEF Wrapper
<1>3. \E h : Is(h)
  <2>1. NoSlot \in leaves
    BY <1>1 DEF NoSlot
  <2>2. \A s \in NoSlot .. N - 1 :
          /\ s \in leaves => start[s] \in V
          /\ s \notin leaves => of[s] \in NoSlot .. s - 1 /\ \A v \in V : Step[s][v] \in V
    <3> TAKE s \in NoSlot .. N - 1
    <3>1. start[s] \in V
      OBVIOUS
    <3>2. CASE s \notin leaves
      <4>1. of[s] \in NoSlot .. s - 1 /\ W(s) \in Wrapper
        BY <1>2, <3>2
      <4>2. \A v \in V : Step[s][v] \in V
        <5> TAKE v \in V
        <5>1. Step[s][v] = Append(v, W(s))
          <6> HIDE DEF W, V
          <6> QED OBVIOUS
        <5>2. Append(v, W(s)) \in V
          <6> HIDE DEF W
          <6> QED BY <4>1
        <5> QED BY <5>1, <5>2
      <4> QED BY <4>1, <4>2
    <3> QED BY <3>1, <3>2
  <2>3. PICK h \in [NoSlot .. N - 1 -> V] : Solves(h, N - 1, leaves, of, start, Step)
    <3> HIDE DEF N, leaves, of, start, Step, V
    <3> QED BY <1>1, <2>1, <2>2, Recursion
  <2>4. ASSUME NEW s \in NoSlot .. N - 1 PROVE h[s] = Body(h, s)
    <3>1. h[s] = IF s \in leaves THEN start[s] ELSE Step[s][h[of[s]]]
      <4> HIDE DEF leaves, of, start, Step
      <4> QED BY <2>3 DEF Solves
    <3>2. CASE s < type_count
      BY <3>1, <3>2
    <3>3. CASE ~(s < type_count)
      <4>1. type_list[s + 1].of \in NoSlot .. N - 1
        <5>1. type_list[s + 1].of \in NoSlot .. s - 1
          <6> HIDE DEF N, W, V
          <6> QED BY <1>2, <3>3
        <5> HIDE DEF N
        <5> QED BY <1>1, <5>1 DEF NoSlot
      <4>2. h[type_list[s + 1].of] \in V
        <5> HIDE DEF V
        <5> QED BY <2>3, <4>1
      <4>3. h[s] = Step[s][h[of[s]]] /\ of[s] = type_list[s + 1].of
        <5> HIDE DEF Step
        <5> QED BY <3>1, <3>3
      <4> HIDE DEF V, W
      <4>4. Step[s][h[type_list[s + 1].of]] = Append(h[type_list[s + 1].of], W(s))
        BY <4>2
      <4> QED BY <3>3, <4>3, <4>4
    <3> QED BY <3>2, <3>3
  <2>5. Is(h)
    <3> HIDE DEF Body, V
    <3> QED BY <2>3, <2>4
  <2> QED BY <2>5
<1>4. Is(layers)
  <2> HIDE DEF Is
  <2> QED BY <1>3
<1>5. \A s \in NoSlot .. N - 1 : layers[s] = Body(layers, s)
  <2> HIDE DEF layers, Body
  <2> QED BY <1>4
<1>6. \A s : Layers(s) = layers[s]
  BY DEF Layers
<1> HIDE DEF layers
<1> QED BY <1>5, <1>6

(* A chain leads back to the type it is built around, through its types:   *)
(* there is no first of them that does not.                                *)
LEMMA ChainLeads ==
  ASSUME Shaped, Listed, NEW base \in Nat, NEW wrappers, NEW slot \in 0 .. type_count - 1, NEW type,
         IsBuilt(wrappers), Len(wrappers) \in Nat, base >= type_count, type_count <= Len(type_list),
         IsChain(type_list, base, wrappers, slot, type)
  PROVE  /\ Layers(type) = wrappers
         /\ Base(type) = IF wrappers # <<>> /\ wrappers[1].kind = "function" THEN NoSlot ELSE slot
<1> DEFINE n      == Len(wrappers)
           Nth(i) == IF i = 0 THEN slot ELSE base + i - 1
           End    == IF n > 0 /\ wrappers[1].kind = "function" THEN NoSlot ELSE slot
           Leads(i) == /\ Layers(Nth(i)) = SubSeq(wrappers, 1, i)
                       /\ i > 0 => Base(Nth(i)) = End
           Bad    == {i \in 0 .. n : ~Leads(i)}
<1>1. /\ type_count \in Nat /\ Len(type_list) \in Nat /\ base + n <= Len(type_list)
      /\ type = IF wrappers = <<>> THEN slot ELSE base + n - 1
      /\ \A i \in 1 .. n : type_list[base + i] = Around(wrappers[i], IF i = 1 THEN slot ELSE base + i - 2)
  BY ListFacts, SdnaFacts DEF Shaped, IsChain
<1>2. /\ wrappers \in Seq(Wrapper)
      /\ \A i \in 1 .. n : wrappers[i] \in Wrapper /\ (wrappers[i].kind \in {"array", "function"} => i = 1)
  <2>1. wrappers \in Seq(Wrapper)
    BY DEF IsBuilt, Wrapper
  <2>2. DOMAIN wrappers = 1 .. n /\ \A i \in 1 .. n : wrappers[i] \in Wrapper
    BY <2>1, LenProperties, ElementOfSeq
  <2> QED BY <2>1, <2>2 DEF IsBuilt
<1>3. Leads(0)
  <2>1. slot \in NoSlot .. Len(type_list) - 1 /\ slot < type_count
    BY <1>1 DEF NoSlot
  <2>2. Layers(slot) = <<>>
    BY <2>1, LayersIs
  <2>3. SubSeq(wrappers, 1, 0) = <<>>
    BY <1>2, SubSeqProperties, EmptySeq
  <2> QED BY <2>2, <2>3
<1>4. ASSUME NEW i \in 1 .. n, Leads(i - 1) PROVE Leads(i)
  <2> DEFINE s == base + i - 1
             t == type_list[s + 1]
             w == wrappers[i]
  <2>0. i \in Nat /\ n \in Nat /\ s + 1 = base + i /\ Nth(i) = s
    OBVIOUS
  <2>1. s \in NoSlot .. Len(type_list) - 1 /\ ~(s < type_count)
    BY <1>1, <2>0 DEF NoSlot
  <2>2. Nth(i - 1) = IF i = 1 THEN slot ELSE base + i - 2
    OBVIOUS
  <2>3. /\ t.kind = w.kind /\ t.count = w.count
        /\ t.of = IF w.kind = "function" THEN NoSlot ELSE Nth(i - 1)
    <3>1. t = Around(w, Nth(i - 1))
      <4> HIDE DEF Nth, t, w
      <4> QED BY <1>1, <2>0, <2>2 DEF t, w
    <3> HIDE DEF t, w, Nth
    <3> QED BY <3>1 DEF Around
  <2>4. Layers(s) = Append(Layers(t.of), [kind |-> t.kind, count |-> t.count]) /\ Base(s) = Base(t.of)
    <3> HIDE DEF s
    <3> QED BY <2>1, LayersIs, BaseIs DEF t
  <2>5. w \in Wrapper /\ [kind |-> t.kind, count |-> t.count] = w
    <3>1. w \in Wrapper
      BY <1>2
    <3> HIDE DEF w, t
    <3> QED BY <2>3, <3>1 DEF Wrapper
  <2>6. NoSlot \in NoSlot .. Len(type_list) - 1 /\ NoSlot < type_count
    BY <1>1 DEF NoSlot
  <2>7. Layers(t.of) = SubSeq(wrappers, 1, i - 1)
    <3>1. CASE w.kind = "function"
      <4>1. i = 1 /\ SubSeq(wrappers, 1, 0) = <<>>
        <5>1. i = 1
          BY <1>2, <3>1
        <5> QED BY <1>2, <5>1, SubSeqProperties, EmptySeq
      <4>2. Layers(NoSlot) = <<>>
        BY <2>6, LayersIs
      <4> HIDE DEF t, w
      <4> QED BY <2>3, <3>1, <4>1, <4>2
    <3>2. CASE w.kind # "function"
      <4> HIDE DEF t, w, Nth
      <4> QED BY <1>4, <2>3, <3>2
    <3> QED BY <3>1, <3>2
  <2>8. Append(SubSeq(wrappers, 1, i - 1), w) = SubSeq(wrappers, 1, i)
    <3> DEFINE p == SubSeq(wrappers, 1, i - 1)
               q == SubSeq(wrappers, 1, i)
    <3>1. /\ p \in Seq(Wrapper) /\ Len(p) = i - 1 /\ q \in Seq(Wrapper) /\ Len(q) = i
          /\ \A j \in 1 .. i - 1 : p[j] = wrappers[j]
          /\ \A j \in 1 .. i : q[j] = wrappers[j]
      BY <1>2, <2>0, SubSeqProperties
    <3> HIDE DEF p, q, w
    <3>2. Append(p, w) \in Seq(Wrapper) /\ Len(Append(p, w)) = i
          /\ \A j \in 1 .. i : Append(p, w)[j] = IF j = i THEN w ELSE p[j]
      BY <2>0, <2>5, <3>1, AppendProperties
    <3>3. \A j \in 1 .. i : Append(p, w)[j] = q[j]
      <4> TAKE j \in 1 .. i
      <4>1. j = i \/ j \in 1 .. i - 1
        BY <2>0
      <4> QED BY <3>1, <3>2, <4>1 DEF w
    <3>4. Append(p, w) = q
      BY <3>1, <3>2, <3>3, SeqEqual
    <3> QED BY <3>4 DEF p, q
  <2>9. Base(t.of) = End
    <3>1. CASE i = 1
      <4>1. CASE w.kind = "function"
        <5>1. Base(NoSlot) = NoSlot
          BY <2>6, BaseIs
        <5>2. t.of = NoSlot /\ n > 0 /\ wrappers[1].kind = "function"
          BY <2>3, <3>1, <4>1
        <5> QED BY <5>1, <5>2
      <4>2. CASE w.kind # "function"
        <5>1. t.of = slot /\ wrappers[1].kind # "function"
          BY <2>3, <3>1, <4>2
        <5>2. slot \in NoSlot .. Len(type_list) - 1 /\ slot < type_count
          BY <1>1 DEF NoSlot
        <5>3. Base(slot) = slot
          BY <5>2, BaseIs
        <5> HIDE DEF t
        <5> QED BY <5>1, <5>3
      <4> QED BY <4>1, <4>2
    <3>2. CASE i # 1
      <4>1. w.kind # "function"
        BY <1>2, <3>2
      <4>2. t.of = Nth(i - 1) /\ i - 1 > 0
        BY <2>3, <3>2, <4>1
      <4> HIDE DEF t, w, Nth, End
      <4> QED BY <1>4, <4>2
    <3> QED BY <3>1, <3>2
  <2> HIDE DEF t, w, s, Nth, End
  <2> QED BY <2>0, <2>4, <2>5, <2>7, <2>8, <2>9
<1> HIDE DEF Leads
<1>5. Bad = {}
  <2> SUFFICES ASSUME Bad # {} PROVE FALSE
    OBVIOUS
  <2>1. PICK i \in Bad : \A j \in Bad : i <= j
    <3>1. Bad \in SUBSET Nat
      OBVIOUS
    <3> HIDE DEF Bad
    <3> QED BY <3>1, LeastElement
  <2>2. i \in 1 .. n /\ i - 1 \in 0 .. n /\ ~(i <= i - 1)
    BY <1>3
  <2>3. Leads(i - 1)
    BY <2>1, <2>2
  <2> QED BY <1>4, <2>2, <2>3
<1>6. Leads(n)
  BY <1>5
<1>7. Nth(n) = type /\ SubSeq(wrappers, 1, n) = wrappers /\ (wrappers = <<>> <=> n = 0)
  <2>1. wrappers = <<>> <=> n = 0
    BY <1>2, EmptySeq
  <2>2. SubSeq(wrappers, 1, n) = wrappers
    <3>1. /\ SubSeq(wrappers, 1, n) \in Seq(Wrapper) /\ Len(SubSeq(wrappers, 1, n)) = n
          /\ \A j \in 1 .. n : SubSeq(wrappers, 1, n)[j] = wrappers[j]
      BY <1>2, SubSeqProperties
    <3> QED BY <1>2, <3>1, SeqEqual
  <2> QED BY <1>1, <2>1, <2>2
<1>8. n = 0 => Base(type) = slot
  <2>1. slot \in NoSlot .. Len(type_list) - 1 /\ slot < type_count
    BY <1>1 DEF NoSlot
  <2>2. Base(slot) = slot
    BY <2>1, BaseIs
  <2> QED BY <1>1, <1>7, <2>2
<1> HIDE DEF Nth
<1>9. n > 0 \/ n = 0
  OBVIOUS
<1> HIDE DEF n
<1> QED BY <1>6, <1>7, <1>8, <1>9 DEF Leads

LEMMA BuiltFunction ==
  ASSUME NEW d \in Declarators
  PROVE  d.kind = "function" <=> (Built(d) # <<>> /\ Built(d)[1].kind = "function")
<1>1. CASE d.kind = "function"
  BY <1>1 DEF Built, FunctionType
<1>2. CASE d.kind # "function"
  <2> DEFINE W        == {w \in [kind : STRING, count : Int] : w.kind # "function"}
             array    == IF d.dims = <<>> THEN <<>> ELSE <<ArrayType(Head(d.dims))>>
             pointers == Pointers(d.pointers)
  <2>1. Built(d) = array \o pointers /\ d.pointers \in Nat /\ d.dims \in Seq(Nat)
    BY <1>2 DEF Built, Declarators
  <2>2. PointerType.kind # "function" /\ \A n : ArrayType(n).kind # "function"
    BY DEF PointerType, ArrayType
  <2>3. CASE d.dims = <<>>
    <3>1. array = <<>>
      BY <2>3
    <3>2. CASE d.pointers = 0
      <4>1. pointers = <<>>
        BY <3>2 DEF Pointers
      <4> HIDE DEF array, pointers
      <4>2. Built(d) = <<>>
        BY <2>1, <3>1, <4>1
      <4> QED BY <1>2, <4>2
    <3>3. CASE d.pointers # 0
      <4> DEFINE P == {PointerType}
      <4>1. pointers \in [1 .. d.pointers -> P] /\ pointers[1] = PointerType
        BY <2>1, <3>3 DEF Pointers
      <4> HIDE DEF array, pointers, P
      <4>2. pointers \in Seq(P) /\ Len(pointers) = d.pointers
        BY <2>1, <4>1, FunctionIsSequence
      <4>3. Built(d)[1] = pointers[1]
        <5>1. <<>> \in Seq(P) /\ Len(<<>>) = 0
          OBVIOUS
        <5>2. Len(<<>> \o pointers) = d.pointers /\ \A i \in 1 .. d.pointers : i > 0 => (<<>> \o pointers)[i] = pointers[i - 0]
          BY <2>1, <4>2, <5>1, ConcatProperties
        <5>3. (<<>> \o pointers)[1] = pointers[1]
          BY <2>1, <3>3, <5>2
        <5> QED BY <2>1, <3>1, <5>3
      <4> QED BY <1>2, <2>2, <4>1, <4>3
    <3> QED BY <3>2, <3>3
  <2>4. CASE d.dims # <<>>
    <3> DEFINE w == ArrayType(Head(d.dims))
               P == {PointerType, w}
    <3>1. array = <<w>>
      BY <2>4
    <3>2. pointers \in [1 .. d.pointers -> P]
      BY DEF Pointers
    <3> HIDE DEF pointers
    <3>3. pointers \in Seq(P) /\ Len(pointers) \in Nat
      <4> HIDE DEF P
      <4> QED BY <2>1, <3>2, FunctionIsSequence
    <3>4. <<w>> \in Seq(P) /\ Len(<<w>>) = 1 /\ <<w>>[1] = w
      <4>1. w \in P
        OBVIOUS
      <4> HIDE DEF P, w
      <4> QED BY <4>1
    <3> HIDE DEF w, P, array
    <3>5. (<<w>> \o pointers)[1] = w
      <4>1. \A i \in 1 .. Len(<<w>>) + Len(pointers) : (<<w>> \o pointers)[i] = IF i <= Len(<<w>>) THEN <<w>>[i] ELSE pointers[i - Len(<<w>>)]
        BY <3>3, <3>4, ConcatProperties
      <4> QED BY <3>3, <3>4, <4>1
    <3>6. Built(d)[1] = w
      BY <2>1, <3>1, <3>5
    <3> QED BY <1>2, <2>2, <3>6 DEF w
  <2> QED BY <2>3, <2>4
<1> QED BY <1>1, <1>2

(* What a field resolves to once it has its chain.                         *)
LEMMA FieldLeads ==
  ASSUME IInv, at = "built", NEW k \in DOMAIN sdna.structs,
         NEW i \in 1 .. Len(sdna.structs[k].fields), NEW field,
         Resolves(sdna, type_list, field, sdna.structs[k].fields[i])
  PROVE  LET f == sdna.structs[k].fields[i]
             d == Declarator(f)
         IN  /\ field.declarator = d
             /\ Layers(field.type) = Built(d)
             /\ Base(field.type) = IF d.kind = "function" THEN NoSlot ELSE f.type_index
<1> DEFINE f == sdna.structs[k].fields[i]
           d == Declarator(f)
<1>1. /\ IsSdna(sdna) /\ Shaped /\ Listed /\ type_count \in Nat /\ type_count <= Len(type_list)
  BY BuiltFacts
<1>2. f.type_index \in Nat /\ f.name_index \in Nat /\ Len(sdna.field_names) \in Nat
  BY <1>1, SdnaFacts
<1>3. /\ f.type_index < type_count /\ f.name_index < Len(sdna.field_names) /\ d # Unreadable
      /\ field.declarator = d
      /\ \E base \in Nat : base >= type_count /\ IsChain(type_list, base, Built(d), f.type_index, field.type)
  BY DEF Resolves, IsGoodField, DeclaratorOf, Declarator, type_count
<1>4. d \in Declarators /\ IsBuilt(Built(d)) /\ Len(Built(d)) \in Nat
  <2> HIDE DEF f
  <2>1. f.name_index + 1 \in 1 .. Len(sdna.field_names)
    BY <1>2, <1>3
  <2>2. d = sdna.field_names[f.name_index + 1]
    BY DEF Declarator
  <2> HIDE DEF d
  <2> QED BY <1>1, <1>3, <2>1, <2>2, SdnaFacts
<1> HIDE DEF d, f
<1>5. f.type_index \in 0 .. type_count - 1
  BY <1>1, <1>2, <1>3
<1>6. /\ Layers(field.type) = Built(d)
      /\ Base(field.type) = IF Built(d) # <<>> /\ Built(d)[1].kind = "function" THEN NoSlot ELSE f.type_index
  BY <1>1, <1>3, <1>4, <1>5, ChainLeads
<1>7. d.kind = "function" <=> (Built(d) # <<>> /\ Built(d)[1].kind = "function")
  BY <1>4, BuiltFunction
<1> QED BY <1>3, <1>6, <1>7 DEF d, f

(* The type that structs name has the fields of the last one of them.      *)
LEMMA StructOfSlot ==
  ASSUME IInv, at = "built", NEW slot \in 0 .. type_count - 1, StructsOf(slot) # {}
  PROVE  \E k \in DOMAIN sdna.structs :
           StructOf(slot) = sdna.structs[k] /\ IsOf(sdna, type_list, type_list[slot + 1], sdna.structs[k])
<1>1. Finished = DOMAIN sdna.structs /\ DOMAIN sdna.structs \subseteq Nat
  BY BuiltFacts
<1>2. \/ \A k \in Finished : sdna.structs[k].type_index # slot
      \/ \E k \in Finished :
           /\ sdna.structs[k].type_index = slot
           /\ \A j \in Finished : sdna.structs[j].type_index = slot => j <= k
           /\ IsOf(sdna, type_list, type_list[slot + 1], sdna.structs[k])
  BY DEF IInv, Resolving
<1>3. PICK k \in Finished :
        /\ sdna.structs[k].type_index = slot
        /\ \A j \in Finished : sdna.structs[j].type_index = slot => j <= k
        /\ IsOf(sdna, type_list, type_list[slot + 1], sdna.structs[k])
  BY <1>1, <1>2 DEF StructsOf
<1>4. k \in StructsOf(slot) /\ \A j \in StructsOf(slot) : j <= k /\ j \in Nat
  BY <1>1, <1>3 DEF StructsOf
<1>5. Max(StructsOf(slot)) = k
  <2>1. \A j \in StructsOf(slot) : k >= j
    BY <1>1, <1>4
  <2>2. Max(StructsOf(slot)) \in StructsOf(slot) /\ \A j \in StructsOf(slot) : Max(StructsOf(slot)) >= j
    BY <1>4, <2>1 DEF Max
  <2> QED BY <1>4, <2>2
<1> QED BY <1>1, <1>3, <1>5 DEF StructOf

(* Once the database is built, a type that a struct names has the fields   *)
(* of the last such struct, and each of them leads through the types of    *)
(* its declarator to the type that the struct names for it.                *)
THEOREM ReferencesAlwaysResolve == Spec => []ReferencesResolve
<1>1. ASSUME IInv PROVE ReferencesResolve
  <2> SUFFICES ASSUME at = "built", NEW slot \in 0 .. type_count - 1
               PROVE  LET type == type_list[slot + 1]
                      IN  /\ type.kind = "aggregate" <=> StructsOf(slot) # {}
                          /\ type.kind = "aggregate" =>
                               /\ Len(type.fields) = Len(StructOf(slot).fields)
                               /\ \A i \in DOMAIN type.fields :
                                    LET f == StructOf(slot).fields[i]
                                        d == Declarator(f)
                                    IN  /\ type.fields[i].declarator = d
                                        /\ Layers(type.fields[i].type) = Built(d)
                                        /\ Base(type.fields[i].type) =
                                             IF d.kind = "function" THEN NoSlot ELSE f.type_index
    BY DEF ReferencesResolve
  <2> DEFINE type == type_list[slot + 1]
  <2>1. CASE StructsOf(slot) = {}
    <3>1. \/ type.kind = "fundamental"
          \/ \E k \in Finished : sdna.structs[k].type_index = slot
      BY <1>1 DEF IInv, Resolving
    <3>2. Finished = DOMAIN sdna.structs
      BY <1>1, BuiltFacts
    <3> QED BY <2>1, <3>1, <3>2 DEF StructsOf
  <2>2. CASE StructsOf(slot) # {}
    <3>1. PICK k \in DOMAIN sdna.structs :
            StructOf(slot) = sdna.structs[k] /\ IsOf(sdna, type_list, type, sdna.structs[k])
      BY <1>1, <2>2, StructOfSlot
    <3>2. /\ type.kind = "aggregate" /\ Len(type.fields) = Len(sdna.structs[k].fields)
          /\ \A i \in 1 .. Len(sdna.structs[k].fields) :
               Resolves(sdna, type_list, type.fields[i], sdna.structs[k].fields[i])
      BY <3>1 DEF IsOf
    <3>3. DOMAIN type.fields = 1 .. Len(type.fields)
      <4> DEFINE F == [offset : 0 .. MaxUsize, type : Slots, declarator : Declarators]
      <4>1. type.fields \in Seq(F)
        <5>1. slot + 1 \in DOMAIN type_list /\ slot + 1 <= type_count
          BY <1>1, BuiltFacts, ListFacts
        <5> QED BY <1>1, <3>2, <5>1 DEF IInv, TypeOK, Fields
      <4> HIDE DEF F, type
      <4> QED BY <4>1, LenProperties
    <3> HIDE DEF type
    <3>4. \A i \in DOMAIN type.fields :
            LET f == sdna.structs[k].fields[i]
                d == Declarator(f)
            IN  /\ type.fields[i].declarator = d
                /\ Layers(type.fields[i].type) = Built(d)
                /\ Base(type.fields[i].type) = IF d.kind = "function" THEN NoSlot ELSE f.type_index
      BY <1>1, <3>1, <3>2, <3>3, FieldLeads
    <3> QED BY <2>2, <3>1, <3>2, <3>4 DEF type
  <2> QED BY <2>1, <2>2
<1>2. IInv => ReferencesResolve
  BY <1>1
<1> QED BY InvariantHolds, <1>2, PTL

-----------------------------------------------------------------------------
(***************************************************************************)
(* Simple structs.  What a declarator of one dimension at most means in C: *)
(* its fold over an empty sequence and over one number.                    *)
(***************************************************************************)
LEMMA ProductIs ==
  ASSUME NEW dims \in Seq(Nat), Len(dims) <= 1
  PROVE  Product(dims) = IF dims = <<>> THEN 1 ELSE Head(dims)
<1> DEFINE P == SUBSET DOMAIN dims
           Body(h, s) == IF s = {} THEN 1 ELSE h[s \ {Max(s)}] * dims[Max(s)]
           Is(h) == h = [s \in P |-> Body(h, s)]
           f == [s \in P |-> IF s = {} THEN 1 ELSE dims[1]]
           iter == CHOOSE h : Is(h)
<1>1. DOMAIN dims = 1 .. Len(dims) /\ Len(dims) \in Nat /\ dims \in [1 .. Len(dims) -> Nat]
  BY LenProperties
<1>2. \A s \in P : s = {} \/ (s = {1} /\ Len(dims) = 1)
  <2>1. \A i \in DOMAIN dims : i = 1 /\ Len(dims) = 1
    BY <1>1
  <2> QED BY <2>1
<1>3. Max({1}) = 1
  BY DEF Max
<1>4. Len(dims) = 1 => dims[1] \in Nat
  BY <1>1
<1>5. Is(f)
  <2>1. ASSUME NEW s \in P PROVE f[s] = Body(f, s)
    <3>1. CASE s = {}
      BY <3>1
    <3>2. CASE s = {1} /\ Len(dims) = 1
      <4>1. s \ {Max(s)} = {} /\ Max(s) = 1 /\ {} \in P /\ s # {}
        BY <1>3, <3>2
      <4>2. f[{}] = 1 /\ f[s] = dims[1]
        BY <4>1
      <4>3. Body(f, s) = f[{}] * dims[1]
        BY <4>1
      <4> HIDE DEF Body, f
      <4> QED BY <1>4, <3>2, <4>2, <4>3
    <3> QED BY <1>2, <3>1, <3>2
  <2> HIDE DEF Body
  <2> QED BY <2>1
<1>6. Is(iter)
  <2> HIDE DEF Is, f
  <2> QED BY <1>5
<1>7. Product(dims) = iter[DOMAIN dims]
  BY DEF Product, FoldLeft, MapThenFoldSet
<1> HIDE DEF iter
<1>8. iter[{}] = 1
  <2>1. {} \in P
    OBVIOUS
  <2> QED BY <1>6, <2>1
<1>9. CASE Len(dims) = 0
  <2>1. dims = <<>> /\ DOMAIN dims = {}
    BY <1>1, <1>9, EmptySeq
  <2> QED BY <1>7, <1>8, <2>1
<1>10. CASE Len(dims) = 1
  <2>1. DOMAIN dims = {1} /\ dims # <<>> /\ Head(dims) = dims[1]
    BY <1>1, <1>10
  <2>2. {1} \in P /\ {1} # {} /\ {1} \ {1} = {}
    BY <2>1
  <2>3. iter[{1}] = iter[{}] * dims[1]
    BY <1>3, <1>6, <2>2
  <2> QED BY <1>4, <1>7, <1>8, <1>10, <2>1, <2>3
<1> QED BY <1>1, <1>9, <1>10

(* What is built for one.                                                  *)
LEMMA SimpleBuilt ==
  ASSUME NEW d \in Declarators, d.kind = "plain", IsSimple(d)
  PROVE  /\ d.pointers \in Nat /\ d.dims \in Seq(Nat) /\ Len(d.dims) <= 1
         /\ d.pointers > 0 => /\ Product(d.dims) = 1 /\ Len(Built(d)) = d.pointers
                              /\ Built(d)[d.pointers] = PointerType
         /\ d.pointers = 0 /\ d.dims = <<>> => Product(d.dims) = 1 /\ Built(d) = <<>>
         /\ d.pointers = 0 /\ d.dims # <<>> =>
              /\ Head(d.dims) \in Nat /\ Product(d.dims) = Head(d.dims)
              /\ Built(d) = <<ArrayType(Head(d.dims))>>
<1>1. d.pointers \in Nat /\ d.dims \in Seq(Nat) /\ Len(d.dims) <= 1
  BY DEF Declarators, IsSimple
<1>2. Product(d.dims) = IF d.dims = <<>> THEN 1 ELSE Head(d.dims)
  BY <1>1, ProductIs
<1> DEFINE array    == IF d.dims = <<>> THEN <<>> ELSE <<ArrayType(Head(d.dims))>>
           pointers == Pointers(d.pointers)
           P        == {PointerType}
<1>3. Built(d) = array \o pointers
  BY DEF Built
<1>4. pointers \in [1 .. d.pointers -> P] /\ \A i \in 1 .. d.pointers : pointers[i] = PointerType
  BY DEF Pointers
<1>5. pointers \in Seq(P) /\ Len(pointers) = d.pointers
  <2> HIDE DEF pointers, P
  <2> QED BY <1>1, <1>4, FunctionIsSequence
<1>6. CASE d.pointers > 0
  <2>1. d.dims = <<>>
    BY <1>6 DEF IsSimple
  <2>2. <<>> \o pointers = pointers
    <3> HIDE DEF pointers, P
    <3> QED BY <1>5, ConcatEmptySeq
  <2>3. Built(d) = pointers
    BY <1>3, <2>1, <2>2
  <2> HIDE DEF pointers
  <2>4. d.pointers \in 1 .. d.pointers
    BY <1>1, <1>6
  <2> QED BY <1>1, <1>2, <1>4, <1>5, <1>6, <2>1, <2>3, <2>4
<1>7. CASE d.pointers = 0
  <2>1. pointers = <<>>
    BY <1>7 DEF Pointers
  <2>2. array \o <<>> = array
    BY ConcatEmptySeq
  <2>3. Built(d) = array
    BY <1>3, <2>1, <2>2
  <2>4. d.dims # <<>> => Head(d.dims) \in Nat
    BY <1>1, HeadTailProperties
  <2> HIDE DEF pointers
  <2> QED BY <1>1, <1>2, <1>7, <2>3, <2>4
<1> QED BY <1>1, <1>6, <1>7

(* The size that is built for it is the one in C, up to its width.         *)
LEMMA SimpleSize ==
  ASSUME IInv, at = "built", NEW k \in DOMAIN sdna.structs,
         NEW i \in 1 .. Len(sdna.structs[k].fields), NEW field, field.type \in Slots,
         Resolves(sdna, type_list, field, sdna.structs[k].fields[i]),
         field.declarator.kind = "plain", IsSimple(field.declarator)
  PROVE  LET length == sdna.type_lengths[sdna.structs[k].fields[i].type_index + 1]
         IN  /\ CSize(field.declarator, length) \in Nat
             /\ GetSize(type_list, field.type) = Wrap(CSize(field.declarator, length))
<1> DEFINE f == sdna.structs[k].fields[i]
           d == Declarator(f)
           length == sdna.type_lengths[f.type_index + 1]
<1>1. /\ IsSdna(sdna) /\ Shaped /\ Listed /\ type_count \in Nat /\ type_count <= Len(type_list)
      /\ Len(type_list) \in Nat /\ MaxUsize \in Nat
  BY BuiltFacts, DeclaratorAssumption
<1>2. f.type_index \in Nat /\ f.name_index \in Nat /\ Len(sdna.field_names) \in Nat
  BY <1>1, SdnaFacts
<1>3. /\ f.type_index < type_count /\ f.name_index < Len(sdna.field_names) /\ d # Unreadable
      /\ field.declarator = d
      /\ \E base \in Nat : base >= type_count /\ IsChain(type_list, base, Built(d), f.type_index, field.type)
  BY DEF Resolves, IsGoodField, DeclaratorOf, Declarator, type_count
<1>4. d \in Declarators
  <2> HIDE DEF f
  <2>1. f.name_index + 1 \in 1 .. Len(sdna.field_names)
    BY <1>2, <1>3
  <2>2. d = sdna.field_names[f.name_index + 1]
    BY DEF Declarator
  <2> HIDE DEF d
  <2> QED BY <1>1, <1>3, <2>1, <2>2, SdnaFacts
<1>5. f.type_index \in 0 .. type_count - 1 /\ f.type_index + 1 \in 1 .. type_count /\ f.type_index + 1 \in 1 .. Len(type_list)
  <2> HIDE DEF f, d, length
  <2> QED BY <1>1, <1>2, <1>3
<1>6. length \in Words /\ length \in Nat
  <2>1. length \in Words
    <3> HIDE DEF f
    <3> QED BY <1>1, <1>5, SdnaFacts
  <2> HIDE DEF f, length
  <2> QED BY <1>1, <2>1 DEF Words
<1>7. /\ type_list[f.type_index + 1].size = length
      /\ type_list[f.type_index + 1].kind \in {"fundamental", "aggregate"}
  <2>1. f.type_index + 1 <= type_count
    BY <1>1, <1>5
  <2> HIDE DEF f
  <2> QED BY <1>1, <1>5, <2>1, ListFacts
<1> DEFINE slot == f.type_index
           type == field.type
<1>8. PICK base \in Nat : base >= type_count /\ IsChain(type_list, base, Built(d), slot, type)
  BY <1>3
<1>9. GetSize(type_list, type) = Size(type_list, type)
  <2>1. type \in 0 .. Len(type_list) - 1
    BY DEF Slots
  <2>2. IsSized(type_list)
    BY <1>1, ListFacts
  <2> HIDE DEF type
  <2> QED BY <2>1, <2>2, GetSizeIs
<1> SUFFICES CSize(d, length) \in Nat /\ GetSize(type_list, type) = Wrap(CSize(d, length))
  BY <1>3
<1>10. d.kind = "plain" /\ IsSimple(d)
  BY <1>3
<1> HIDE DEF d, length, slot, type, f
<1>11. \A n \in 0 .. MaxUsize : Wrap(n) = n
  BY <1>1 DEF Wrap
<1>12. CASE d.pointers > 0
  <2>1. /\ Product(d.dims) = 1 /\ d.pointers \in Nat /\ Len(Built(d)) = d.pointers
        /\ Built(d)[d.pointers] = PointerType
    BY <1>4, <1>10, <1>12, SimpleBuilt
  <2>2. CSize(d, length) = PointerSize
    BY <1>12, <2>1, DeclaratorAssumption DEF CSize
  <2>3. type = base + d.pointers - 1
    <3>1. Built(d) # <<>>
      BY <1>12, <2>1
    <3> QED BY <1>8, <2>1, <3>1 DEF IsChain
  <2>4. type_list[base + d.pointers].kind = "pointer"
    <3>1. d.pointers \in 1 .. Len(Built(d))
      BY <1>12, <2>1
    <3>2. \E s : type_list[base + d.pointers] = Around(Built(d)[d.pointers], s)
      BY <1>8, <3>1 DEF IsChain
    <3> QED BY <2>1, <3>2 DEF Around, PointerType
  <2>5. Size(type_list, type) = PointerSize
    <3>1. type + 1 = base + d.pointers
      BY <1>8, <2>1, <2>3
    <3> QED BY <2>4, <3>1 DEF Size, SizeAround
  <2> QED BY <1>9, <1>11, <2>2, <2>5, DeclaratorAssumption
<1>13. CASE d.pointers = 0 /\ d.dims = <<>>
  <2>1. Product(d.dims) = 1 /\ Built(d) = <<>>
    BY <1>4, <1>10, <1>13, SimpleBuilt
  <2>2. CSize(d, length) = length
    BY <1>6, <1>13, <2>1 DEF CSize
  <2>3. type = slot
    BY <1>8, <2>1 DEF IsChain
  <2>4. Size(type_list, type) = length
    BY <1>7, <2>3 DEF Size, slot
  <2> QED BY <1>6, <1>9, <1>11, <2>2, <2>4 DEF Words
<1>14. CASE d.pointers = 0 /\ d.dims # <<>>
  <2> DEFINE n == Head(d.dims)
  <2>1. Product(d.dims) = n /\ n \in Nat /\ Built(d) = <<ArrayType(n)>>
    BY <1>4, <1>10, <1>14, SimpleBuilt
  <2> HIDE DEF n
  <2>2. CSize(d, length) = length * n
    BY <1>6, <1>14, <2>1 DEF CSize
  <2>3. Len(Built(d)) = 1 /\ Built(d)[1] = ArrayType(n) /\ Built(d) # <<>> /\ 1 \in 1 .. 1
    BY <2>1
  <2>4. type = base
    BY <1>8, <2>3 DEF IsChain
  <2>5. type_list[base + 1] = Around(ArrayType(n), slot)
    BY <1>8, <2>3 DEF IsChain
  <2>6. /\ type_list[type + 1].kind = "array" /\ type_list[type + 1].count = n
        /\ type_list[type + 1].of = slot
    BY <2>4, <2>5 DEF Around, ArrayType
  <2>7. type_list[slot + 1].size = length
    BY <1>7 DEF slot
  <2>8. Size(type_list, type) = SizeAround(length, type_list[type + 1])
    BY <2>6, <2>7 DEF Size
  <2>9. Size(type_list, type) = Wrap(length * n)
    BY <2>6, <2>8 DEF SizeAround
  <2>10. length * n \in Nat
    BY <1>6, <2>1
  <2> QED BY <1>9, <2>2, <2>9, <2>10
<1>15. d.pointers \in Nat
  BY <1>4, <1>10, SimpleBuilt
<1> QED BY <1>12, <1>13, <1>14, <1>15

(* A number with a property that some have and that the next one of one    *)
(* that has it has too: there is no first one without it.                  *)
LEMMA NoneIsFirst ==
  ASSUME NEW N \in Nat, NEW S, 0 \in S, \A i \in 1 .. N : i - 1 \in S => i \in S
  PROVE  0 .. N \subseteq S
<1> DEFINE Bad == {i \in 0 .. N : i \notin S}
<1>1. Bad \in SUBSET Nat
  OBVIOUS
<1>2. Bad = {}
  <2> SUFFICES ASSUME Bad # {} PROVE FALSE
    OBVIOUS
  <2>1. PICK i \in Bad : \A j \in Bad : i <= j
    <3> HIDE DEF Bad
    <3> QED BY <1>1, LeastElement
  <2>2. i \in 1 .. N /\ i - 1 \in 0 .. N /\ ~(i <= i - 1)
    OBVIOUS
  <2>3. i - 1 \in S
    BY <2>1, <2>2
  <2> QED BY <2>1, <2>2, <2>3
<1> QED BY <1>2

(* The offsets that sizes add up to exist, which makes them what the       *)
(* equation of COffsets says.                                              *)
LEMMA OffsetsExist ==
  ASSUME NEW N \in Nat, NEW sizes
  PROVE  \E h : h = [i \in 1 .. N |-> IF i = 1 THEN 0 ELSE h[i - 1] + sizes[i - 1]]
<1> DEFINE Body(h, i) == IF i = 1 THEN 0 ELSE h[i - 1] + sizes[i - 1]
           Is(h, n) == h = [i \in 1 .. n |-> Body(h, i)]
           S == {n \in 0 .. N : \E h : Is(h, n)}
<1>1. 0 \in S
  <2> DEFINE h == [i \in 1 .. 0 |-> 0]
  <2>1. h = [i \in 1 .. 0 |-> Body(h, i)]
    <3> HIDE DEF Body
    <3> QED OBVIOUS
  <2>2. Is(h, 0)
    BY <2>1
  <2> HIDE DEF Is, h
  <2> QED BY <2>2
<1>2. ASSUME NEW n \in 1 .. N, n - 1 \in S PROVE n \in S
  <2>1. n \in Nat /\ n - 1 \in Nat /\ n \in 0 .. N
    OBVIOUS
  <2>2. PICK h : Is(h, n - 1)
    <3> HIDE DEF Is
    <3> QED BY <1>2
  <2> DEFINE g == [i \in 1 .. n |-> Body(h, i)]
  <2>3. ASSUME NEW i \in 1 .. n PROVE Body(h, i) = Body(g, i)
    <3>1. CASE i = 1
      BY <3>1
    <3>2. CASE i # 1
      <4>1. i - 1 \in 1 .. n /\ i - 1 \in 1 .. n - 1
        BY <2>1, <3>2
      <4>2. h[i - 1] = Body(h, i - 1)
        <5> HIDE DEF Body
        <5> QED BY <2>2, <4>1
      <4>3. g[i - 1] = Body(h, i - 1)
        <5> HIDE DEF Body
        <5> QED BY <4>1
      <4> HIDE DEF g
      <4> QED BY <3>2, <4>2, <4>3
    <3> QED BY <3>1, <3>2
  <2>4. Is(g, n)
    <3>1. [i \in 1 .. n |-> Body(h, i)] = [i \in 1 .. n |-> Body(g, i)]
      <4> HIDE DEF Body, g
      <4> QED BY <2>3
    <3> QED BY <3>1
  <2> HIDE DEF Is, g
  <2> QED BY <2>1, <2>4
<1>3. N \in S
  <2> HIDE DEF S
  <2>1. 0 .. N \subseteq S
    BY <1>1, <1>2, NoneIsFirst
  <2> QED BY <2>1
<1> QED BY <1>3

LEMMA COffsetsAre ==
  ASSUME NEW slot, NEW N \in Nat, DOMAIN type_list[slot + 1].fields = 1 .. N, NEW i \in 1 .. N
  PROVE  LET fields == type_list[slot + 1].fields
             length(j) == sdna.type_lengths[StructOf(slot).fields[j].type_index + 1]
         IN  COffsets(slot)[i] =
               IF i = 1 THEN 0
               ELSE COffsets(slot)[i - 1] + CSize(fields[i - 1].declarator, length(i - 1))
<1> DEFINE fields == type_list[slot + 1].fields
           length(j) == sdna.type_lengths[StructOf(slot).fields[j].type_index + 1]
           InC(j) == CSize(fields[j].declarator, length(j))
           sizes == [j \in 1 .. N |-> InC(j)]
           Body(h, j) == IF j = 1 THEN 0 ELSE h[j - 1] + InC(j - 1)
           Is(h) == h = [j \in DOMAIN fields |-> Body(h, j)]
           offset == CHOOSE h : Is(h)
<1>1. PICK h : h = [j \in 1 .. N |-> IF j = 1 THEN 0 ELSE h[j - 1] + sizes[j - 1]]
  <2> HIDE DEF sizes
  <2> QED BY OffsetsExist
<1>2. Is(h)
  <2>1. ASSUME NEW j \in 1 .. N PROVE (IF j = 1 THEN 0 ELSE h[j - 1] + sizes[j - 1]) = Body(h, j)
    <3>1. j # 1 => j - 1 \in 1 .. N
      OBVIOUS
    <3> HIDE DEF InC
    <3> QED BY <3>1
  <2> HIDE DEF sizes, Body
  <2> QED BY <1>1, <2>1
<1>3. Is(offset)
  <2> HIDE DEF Is
  <2> QED BY <1>2
<1>4. COffsets(slot) = offset
  BY DEF COffsets
<1> HIDE DEF offset
<1>5. offset[i] = Body(offset, i)
  <2> HIDE DEF Body
  <2> QED BY <1>3
<1> QED BY <1>4, <1>5

(* As long as the fields before it are simple, none of them a pointer to a *)
(* function, and the offset in C is a std::size_t, a field of a finished   *)
(* type has that offset.                                                   *)
THEOREM SimpleStructsAlwaysMatchC == Spec => []SimpleStructsMatchC
<1>1. ASSUME IInv, at = "built", NEW slot \in 0 .. type_count - 1, StructsOf(slot) # {},
             NEW i \in DOMAIN type_list[slot + 1].fields,
             \A j \in 1 .. i - 1 :
               LET d == type_list[slot + 1].fields[j].declarator IN d.kind = "plain" /\ IsSimple(d),
             COffsets(slot)[i] <= MaxUsize
      PROVE  type_list[slot + 1].fields[i].offset = COffsets(slot)[i]
  <2> DEFINE type   == type_list[slot + 1]
             fields == type.fields
             C(j)   == COffsets(slot)[j]
  <2>1. PICK k \in DOMAIN sdna.structs :
          StructOf(slot) = sdna.structs[k] /\ IsOf(sdna, type_list, type, sdna.structs[k])
    BY <1>1, StructOfSlot
  <2>2. fields \in FieldLists /\ TypeOK /\ Listed
    <3>1. slot + 1 \in DOMAIN type_list
      BY <1>1, BuiltFacts, ListFacts
    <3> QED BY <1>1, <2>1, <3>1 DEF FieldLists, IsOf, IInv
  <2>3. /\ Len(fields) \in Nat /\ DOMAIN fields = 1 .. Len(fields)
        /\ \A j \in 1 .. Len(fields) : fields[j].type \in Slots /\ fields[j].offset \in Words
    <3> HIDE DEF fields
    <3> QED BY <2>2, FieldTypes
  <2>4. \A j \in 1 .. Len(fields) :
          fields[j].offset =
            IF j = 1 THEN 0 ELSE Wrap(fields[j - 1].offset + GetSize(type_list, fields[j - 1].type))
    <3> HIDE DEF fields
    <3> QED BY <1>1, <2>2, <2>3 DEF IInv, FieldsAreContiguous
  <2> DEFINE S == {j \in 0 .. i - 1 : C(j + 1) \in Nat /\ (C(j + 1) <= MaxUsize => fields[j + 1].offset = C(j + 1))}
  <2>5. i \in 1 .. Len(fields) /\ i - 1 \in Nat /\ MaxUsize \in Nat
    BY <2>3, DeclaratorAssumption
  <2>6. 0 \in S
    <3>1. 1 \in 1 .. Len(fields)
      BY <2>3, <2>5
    <3>2. C(1) = 0
      BY <2>3, <3>1, COffsetsAre
    <3> HIDE DEF C, fields
    <3> QED BY <2>4, <2>5, <3>1, <3>2
  <2>7. ASSUME NEW j \in 1 .. i - 1, j - 1 \in S PROVE j \in S
    <3> DEFINE length == sdna.type_lengths[StructOf(slot).fields[j].type_index + 1]
               size   == CSize(fields[j].declarator, length)
    <3>1. j \in 1 .. Len(fields) /\ j + 1 \in 1 .. Len(fields) /\ j + 1 # 1 /\ j + 1 - 1 = j /\ j - 1 + 1 = j
          /\ j \in 0 .. i - 1
      BY <2>3, <2>5
    <3>2. C(j + 1) = C(j) + size
      <4>1. ASSUME NEW m \in 1 .. Len(fields), m # 1, m - 1 = j PROVE C(m) = C(j) + size
        BY <2>3, <4>1, COffsetsAre
      <4> HIDE DEF C, fields, size
      <4> QED BY <3>1, <4>1
    <3>3. size \in Nat /\ GetSize(type_list, fields[j].type) = Wrap(size)
      <4>1. j \in 1 .. Len(sdna.structs[k].fields) /\ Resolves(sdna, type_list, fields[j], sdna.structs[k].fields[j])
        BY <2>1, <3>1 DEF IsOf
      <4>2. fields[j].declarator.kind = "plain" /\ IsSimple(fields[j].declarator) /\ fields[j].type \in Slots
        BY <1>1, <2>3, <3>1
      <4> HIDE DEF fields
      <4> QED BY <1>1, <2>1, <4>1, <4>2, SimpleSize
    <3>4. fields[j + 1].offset = Wrap(fields[j].offset + GetSize(type_list, fields[j].type))
      <4> HIDE DEF fields
      <4> QED BY <2>4, <3>1
    <3>5. C(j) \in Nat /\ (C(j) <= MaxUsize => fields[j].offset = C(j))
      <4> HIDE DEF C, fields
      <4> QED BY <2>7, <3>1
    <3>6. C(j + 1) \in Nat /\ (C(j + 1) <= MaxUsize => fields[j + 1].offset = C(j + 1))
      <4> HIDE DEF C, fields, size
      <4>1. ASSUME C(j) + size <= MaxUsize PROVE Wrap(C(j) + Wrap(size)) = C(j) + size
        <5>1. \A n \in 0 .. MaxUsize : Wrap(n) = n
          BY <2>5 DEF Wrap
        <5>2. size \in 0 .. MaxUsize /\ C(j) + size \in 0 .. MaxUsize
          BY <2>5, <3>3, <3>5, <4>1
        <5>3. Wrap(size) = size /\ Wrap(C(j) + size) = C(j) + size
          BY <5>1, <5>2
        <5> QED BY <5>3
      <4>2. C(j + 1) <= MaxUsize => C(j) <= MaxUsize
        BY <2>5, <3>2, <3>3, <3>5
      <4> QED BY <3>2, <3>3, <3>4, <3>5, <4>1, <4>2
    <3> HIDE DEF C, fields
    <3> QED BY <3>1, <3>6
  <2>8. i - 1 \in S
    <3> HIDE DEF S
    <3>1. 0 .. i - 1 \subseteq S
      BY <2>5, <2>6, <2>7, NoneIsFirst
    <3> QED BY <2>5, <3>1
  <2>9. i - 1 + 1 = i
    BY <2>5
  <2> HIDE DEF C, fields
  <2>10. C(i) <= MaxUsize => fields[i].offset = C(i)
    BY <2>8, <2>9
  <2> QED BY <1>1, <2>10 DEF C, fields
<1>2. IInv => SimpleStructsMatchC
  BY <1>1 DEF SimpleStructsMatchC
<1> QED BY InvariantHolds, <1>2, PTL
=============================================================================
