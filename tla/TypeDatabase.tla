---------------------------- MODULE TypeDatabase ----------------------------
(***************************************************************************)
(* CreateTypeDatabase: from the SDNA of a file, the list of its types.  A  *)
(* first pass makes every type a fundamental one, a second pass replaces   *)
(* those that have a struct by aggregates and appends the types of their   *)
(* fields, which refer to the slots of other types in the list: also to    *)
(* slots that are replaced later.                                          *)
(*                                                                         *)
(* What a field name declares is read by FieldName; here a name is its     *)
(* declarator, or Unreadable.  Types and slots are numbered from 0.        *)
(***************************************************************************)
EXTENDS Reflection, FiniteSetsExt

CONSTANT Sdnas     \* the SDNAs to consider

Unreadable == [kind |-> "unreadable", pointers |-> 0, dims |-> <<>>]

SdnaStruct == [type_index : Nat, fields : Seq([type_index : Nat, name_index : Nat])]

(* What ReadSdna hands over: as many lengths as names of types.  The       *)
(* numbers of types and names in the structs may be any.  A name whose     *)
(* first dimension is no std::size_t cannot be read.                       *)
IsSdna(s) ==
  /\ s.type_lengths \in Seq(0 .. MaxUsize)
  /\ DOMAIN s.type_names = DOMAIN s.type_lengths
  /\ s.field_names \in Seq(Declarators \cup {Unreadable})
  /\ \A i \in DOMAIN s.field_names :
       LET dims == s.field_names[i].dims IN dims # <<>> => Head(dims) <= MaxUsize
  /\ s.structs \in Seq(SdnaStruct)

ASSUME TypeDatabaseAssumption == \A s \in Sdnas : IsSdna(s)

VARIABLES
  sdna,
  type_list,
  type_map,          \* from the name of a type to its slot
  struct_map,        \* entry i is the slot of the type of struct i - 1
  aggregate_fields,  \* the fields read of the current struct
  field_offset,
  at                 \* the loop it is in, "built", the error, or "undefined"

vars == <<sdna, type_list, type_map, struct_map, aggregate_fields, field_offset, at>>

Loops  == {"types", "structs", "fields"}
Errors == {"InvalidSdnaStruct", "InvalidSdnaField", "InvalidSdnaFieldName"}

Slots  == 0 .. Len(type_list) - 1
Fields == Seq([offset : 0 .. MaxUsize, type : Slots, declarator : Declarators])

type_count == Len(sdna.type_lengths)

(* Every reference is to a slot of the list, and the types that refer to   *)
(* another one refer to one before them: no chain of types is circular.    *)
TypeOK ==
  /\ IsSdna(sdna)
  /\ at \in Loops \cup Errors \cup {"built", "undefined"}
  /\ \A i \in DOMAIN type_list :
       LET t == type_list[i]
       IN  IF i <= type_count
           THEN /\ t.name = sdna.type_names[i] /\ t.size = sdna.type_lengths[i]
                /\ t.kind \in {"fundamental", "aggregate"}
                /\ t.kind = "aggregate" => t.fields \in Fields
           ELSE /\ t \in [kind : {"array", "pointer", "function"}, count : 0 .. MaxUsize,
                          of : NoSlot .. i - 2]
                /\ t.of = NoSlot <=> t.kind = "function"
  /\ \A name \in DOMAIN type_map : type_map[name] \in Slots
  /\ struct_map \in Seq(0 .. type_count - 1)
  /\ aggregate_fields \in Fields
  /\ field_offset \in 0 .. MaxUsize

Init ==
  /\ sdna \in Sdnas
  /\ type_list = <<>>
  /\ type_map = <<>>
  /\ struct_map = <<>>
  /\ aggregate_fields = <<>>
  /\ field_offset = 0
  /\ at = "types"

-----------------------------------------------------------------------------
(* Pushing the types of a declarator around the type in a slot, and where  *)
(* the last of them ends up.                                               *)
\* Mutant: every type pushed refers to the slot of the element type.
PushTypesFlat(list, slot, wrappers) ==
  list \o [i \in DOMAIN wrappers |-> Around(wrappers[i], slot)]

PushTypes(list, slot, wrappers) ==
  list \o [i \in DOMAIN wrappers |->
             Around(wrappers[i], IF i = 1 THEN slot ELSE Len(list) + i - 2)]

SlotOf(list, slot, wrappers) ==
  IF wrappers = <<>> THEN slot ELSE Len(list) + Len(wrappers) - 1

-----------------------------------------------------------------------------
(* The first pass; the first type of a name keeps it.                      *)
AddFundamental ==
  LET i    == Len(type_list) + 1
      name == sdna.type_names[i]
  IN  /\ at = "types"
      /\ Len(type_list) < type_count
      /\ type_list' = Append(type_list, Fundamental(name, sdna.type_lengths[i]))
      /\ type_map' = [n \in DOMAIN type_map \cup {name} |->
                        IF n \in DOMAIN type_map THEN type_map[n] ELSE i - 1]
      /\ UNCHANGED <<sdna, struct_map, aggregate_fields, field_offset, at>>

EndTypes ==
  /\ at = "types"
  /\ Len(type_list) = type_count
  /\ at' = "structs"
  /\ UNCHANGED <<sdna, type_list, type_map, struct_map, aggregate_fields, field_offset>>

\* Mutant: the number of a struct is taken for that of its type.
BeginStructByNumber ==
  LET struct == sdna.structs[Len(struct_map) + 1]
  IN  /\ at = "structs"
      /\ Len(struct_map) < Len(sdna.structs)
      /\ IF struct.type_index >= type_count
         THEN at' = "InvalidSdnaStruct" /\ UNCHANGED <<struct_map, aggregate_fields, field_offset>>
         ELSE /\ at' = "fields"
              /\ struct_map' = Append(struct_map, Len(struct_map))
              /\ aggregate_fields' = <<>>
              /\ field_offset' = 0
      /\ UNCHANGED <<sdna, type_list, type_map>>

BeginStruct ==
  LET struct == sdna.structs[Len(struct_map) + 1]
  IN  /\ at = "structs"
      /\ Len(struct_map) < Len(sdna.structs)
      /\ IF struct.type_index >= type_count
         THEN at' = "InvalidSdnaStruct" /\ UNCHANGED <<struct_map, aggregate_fields, field_offset>>
         ELSE /\ at' = "fields"
              /\ struct_map' = Append(struct_map, struct.type_index)
              /\ aggregate_fields' = <<>>
              /\ field_offset' = 0
      /\ UNCHANGED <<sdna, type_list, type_map>>

-----------------------------------------------------------------------------
(* The struct that the second pass is at, and the next of its fields.      *)
Current   == sdna.structs[Len(struct_map)]
HasFields == at = "fields" /\ Len(aggregate_fields) < Len(Current.fields)
NextField == Current.fields[Len(aggregate_fields) + 1]

\* Mutant: a type without a struct cannot be the type of a field.
IsIndexedByStruct(f) == f.type_index < Len(sdna.structs) /\ f.name_index < Len(sdna.field_names)

IsIndexed(f) == f.type_index < type_count /\ f.name_index < Len(sdna.field_names)

Declarator(f) == sdna.field_names[f.name_index + 1]

InvalidField ==
  /\ HasFields
  /\ ~IsIndexed(NextField)
  /\ at' = "InvalidSdnaField"
  /\ UNCHANGED <<sdna, type_list, type_map, struct_map, aggregate_fields, field_offset>>

(* ProcessFunctionPointerField or ProcessField, and what becomes of the    *)
(* field they return.                                                      *)
\* Mutant: a field takes as much room as its element type.
AddFieldOfElements ==
  LET d        == Declarator(NextField)
      slot     == NextField.type_index
      wrappers == Built(d)
      type     == SlotOf(type_list, slot, wrappers)
  IN  /\ HasFields
      /\ IsIndexed(NextField)
      /\ d # Unreadable
      /\ type_list' = PushTypes(type_list, slot, wrappers)
      /\ aggregate_fields' =
           Append(aggregate_fields, [offset |-> field_offset, type |-> type, declarator |-> d])
      /\ field_offset' = Wrap(field_offset + GetSize(type_list, slot))
      /\ UNCHANGED <<sdna, type_map, struct_map, at>>

AddField ==
  LET d        == Declarator(NextField)
      slot     == NextField.type_index
      wrappers == Built(d)
      type     == SlotOf(type_list, slot, wrappers)
  IN  /\ HasFields
      /\ IsIndexed(NextField)
      /\ d # Unreadable
      /\ type_list' = PushTypes(type_list, slot, wrappers)
      /\ aggregate_fields' =
           Append(aggregate_fields, [offset |-> field_offset, type |-> type, declarator |-> d])
      /\ field_offset' = Wrap(field_offset + GetSize(type_list', type))
      /\ UNCHANGED <<sdna, type_map, struct_map, at>>

(* The error of a name is dereferenced before it is asked for: whether the *)
(* bytes behind it look like a field or not is undefined.                  *)
InvalidName ==
  /\ HasFields
  /\ IsIndexed(NextField)
  /\ Declarator(NextField) = Unreadable
  /\ at' \in {"InvalidSdnaFieldName", "undefined"}
  /\ UNCHANGED <<sdna, type_list, type_map, struct_map, aggregate_fields, field_offset>>

\* Mutant: an aggregate is as large as its fields.
EndStructByFields ==
  LET i == Current.type_index + 1
  IN  /\ at = "fields"
      /\ ~HasFields
      /\ type_list' = [type_list EXCEPT ![i] =
                         Aggregate(sdna.type_names[i], field_offset, aggregate_fields)]
      /\ at' = "structs"
      /\ UNCHANGED <<sdna, type_map, struct_map, aggregate_fields, field_offset>>

EndStruct ==
  LET i == Current.type_index + 1
  IN  /\ at = "fields"
      /\ ~HasFields
      /\ type_list' = [type_list EXCEPT ![i] =
                         Aggregate(sdna.type_names[i], sdna.type_lengths[i], aggregate_fields)]
      /\ at' = "structs"
      /\ UNCHANGED <<sdna, type_map, struct_map, aggregate_fields, field_offset>>

EndStructs ==
  /\ at = "structs"
  /\ Len(struct_map) = Len(sdna.structs)
  /\ at' = "built"
  /\ UNCHANGED <<sdna, type_list, type_map, struct_map, aggregate_fields, field_offset>>

Next ==
  \/ AddFundamental
  \/ EndTypes
  \/ BeginStruct
  \/ InvalidField
  \/ AddField
  \/ InvalidName
  \/ EndStruct
  \/ EndStructs

Spec == Init /\ [][Next]_vars

-----------------------------------------------------------------------------
(* Blend::GetType and Blend::GetBlockType: the slot, or none.  The type in *)
(* slot 0 is never found.                                                  *)
Found(slot) == IF slot > 0 /\ slot < Len(type_list) THEN {slot} ELSE {}

GetType(name) == IF name \in DOMAIN type_map THEN Found(type_map[name]) ELSE {}

GetBlockType(struct_index) ==
  IF struct_index < Len(struct_map) THEN Found(struct_map[struct_index + 1]) ELSE {}

-----------------------------------------------------------------------------
(***************************************************************************)
(* Properties.                                                             *)
(***************************************************************************)
FieldLists ==
  {aggregate_fields}
    \cup {type_list[i].fields : i \in {j \in DOMAIN type_list : type_list[j].kind = "aggregate"}}

(* The fields of a struct lie one behind the other: each one begins where  *)
(* the one before it ends by the size that its type has now, also when the *)
(* type has been replaced since the offset was computed.                   *)
FieldsAreContiguous ==
  \A fields \in FieldLists :
    \A i \in DOMAIN fields :
      fields[i].offset =
        IF i = 1 THEN 0
        ELSE Wrap(fields[i - 1].offset + GetSize(type_list, fields[i - 1].type))

(* The struct that the type in a slot gets its fields from: the last one   *)
(* listed for it.                                                          *)
StructsOf(slot) == {i \in DOMAIN sdna.structs : sdna.structs[i].type_index = slot}
StructOf(slot)  == sdna.structs[Max(StructsOf(slot))]

(* The slot of the first pass that a type leads to, or none for functions. *)
Base(slot) ==
  LET base[s \in NoSlot .. Len(type_list) - 1] ==
        IF s < type_count THEN s ELSE base[type_list[s + 1].of]
  IN  base[slot]

(* The types on the way from there.                                        *)
Layers(slot) ==
  LET layers[s \in NoSlot .. Len(type_list) - 1] ==
        IF s < type_count THEN <<>>
        ELSE LET t == type_list[s + 1]
             IN  Append(layers[t.of], [kind |-> t.kind, count |-> t.count])
  IN  layers[slot]

(* When the database is built, a field leads, through the types of its     *)
(* declarator, to the type that its struct names, and that type has the    *)
(* fields of its own struct, which may come before or after.               *)
ReferencesResolve ==
  at = "built" =>
    \A slot \in 0 .. type_count - 1 :
      LET type == type_list[slot + 1]
      IN  /\ type.kind = "aggregate" <=> StructsOf(slot) # {}
          /\ type.kind = "aggregate" =>
               /\ Len(type.fields) = Len(StructOf(slot).fields)
               /\ \A i \in DOMAIN type.fields :
                    LET f == StructOf(slot).fields[i]
                        d == Declarator(f)
                    IN  /\ type.fields[i].declarator = d
                        /\ Layers(type.fields[i].type) = Built(d)
                        /\ Base(type.fields[i].type) =
                             IF d.kind = "function" THEN NoSlot ELSE f.type_index

(* Every type but the one in slot 0 is found under its name, unless a type *)
(* before it has the same name, and for a block of its struct.             *)
LookupsFindTheirTypes ==
  at = "built" =>
    /\ \A i \in 1 .. type_count - 1 :
         (\A j \in 0 .. i - 1 : sdna.type_names[j + 1] # sdna.type_names[i + 1]) =>
           GetType(sdna.type_names[i + 1]) = {i}
    /\ \A i \in DOMAIN sdna.structs :
         sdna.structs[i].type_index > 0 =>
           /\ GetBlockType(i - 1) = {sdna.structs[i].type_index}
           /\ type_list[sdna.structs[i].type_index + 1].kind = "aggregate"

(* Where C puts the fields of the type in a slot: one behind the other,    *)
(* each with all its dimensions.                                           *)
COffsets(slot) ==
  LET fields    == type_list[slot + 1].fields
      length(i) == sdna.type_lengths[StructOf(slot).fields[i].type_index + 1]
      offset[i \in DOMAIN fields] ==
        IF i = 1 THEN 0 ELSE offset[i - 1] + CSize(fields[i - 1].declarator, length(i - 1))
  IN  offset

(* The offsets are those that the C structs the file was written from have *)
(* there, of every field behind simple ones only: these have one dimension *)
(* at most and are neither pointers to arrays nor pointers to functions,   *)
(* and together they have a size that is a std::size_t.                    *)
SimpleStructsMatchC ==
  at = "built" =>
    \A slot \in 0 .. type_count - 1 :
      StructsOf(slot) # {} =>
        LET fields == type_list[slot + 1].fields
            IsC(n) == \A i \in 1 .. n :
                        fields[i].declarator.kind = "plain" /\ IsSimple(fields[i].declarator)
        IN  \A i \in DOMAIN fields :
              IsC(i - 1) /\ COffsets(slot)[i] <= MaxUsize => fields[i].offset = COffsets(slot)[i]

IsGood(struct) ==
  /\ struct.type_index < type_count
  /\ \A i \in DOMAIN struct.fields :
       LET f == struct.fields[i]
       IN  /\ f.type_index < type_count
           /\ f.name_index < Len(sdna.field_names)
           /\ Declarator(f) # Unreadable

(* The database is built exactly if every index is in range and every name *)
(* can be read, and nothing is undefined unless a name cannot be read.     *)
ErrorsNeedABadSdna ==
  /\ at = "built" => \A i \in DOMAIN sdna.structs : IsGood(sdna.structs[i])
  /\ at \in Errors => \E i \in DOMAIN sdna.structs : ~IsGood(sdna.structs[i])
  /\ at = "undefined" => \E i \in DOMAIN sdna.field_names : sdna.field_names[i] = Unreadable
=============================================================================
