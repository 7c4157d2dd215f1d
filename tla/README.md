# A verification project for CBlend

CBlend reads the `.blend` files of Blender: it takes a file apart into blocks,
builds the types that the file describes in its SDNA, and answers queries such
as `"vdata.layers[0].data[0]"` against the memory that the blocks were saved
from. This directory models it in TLA+. TLC checks the models on small
instances (`MC*.tla`, `MC*.cfg`), TLAPS proves every safety property that TLC finds
to hold for every value of their constants (`*Proofs.tla`), and `PROJECT.json` says which
lines of the code every definition stands for.

The library runs in the thread of its caller and keeps nothing on disk. What
makes it hard is not concurrency inside it but what it depends on: a file that
other processes may change, numbers and names that come from the file, integers
that wrap, and references that must outlast what they refer to.

## Inventory

| component | code | state | operations |
|---|---|---|---|
| Stream, MemoryStream | `cblend_stream.{hpp,cpp}` | position, size, byte order; the span | read bytes, strings and views, seek, skip, align, positional reads |
| FileStream | `cblend_stream.{hpp,cpp}` | the same, and an `ifstream` with its own offset and error bits | create, and the same |
| file format | `cblend_format.*`, `ReadBlendData` | the header, the blocks read, the local block | read the header, read block headers and bodies, check the end |
| SDNA | `ReadSdna` and what it calls | names of fields, names and lengths of types, structs | read four tables from the body of the DNA1 block |
| field names | `ProcessField`, `ProcessFunctionPointerField` | offsets into a name | pointers, name, dimensions |
| type database | `CreateTypeDatabase` | the list of types, the maps to it | a pass over the types, a pass over the structs; `GetType`, `GetBlockType` |
| reflected types | `cblend_reflection.*` | a type and the slots it refers to | sizes, elements, fields |
| query strings | `cblend_query.*` | a tokenizer, a list of tokens | take a string apart, make a query |
| memory table | `MemoryTable`, `CreateMemoryTable` | ranges of addresses | find the memory behind an address |
| query evaluation | `BlendType`, `BlendFieldInfo` | the data and the type a query has reached | fields, indices, pointers; walking a list |
| Blend | `Blend`, its filters and views | file, types, memory table | open, read, move, find blocks and types, pass over views |

They form a pipeline. `Blend::Open` creates a FileStream, `Blend::Read` a
MemoryStream, and `ReadBlendData` (`cblend.cpp:592`) calls `ReadHeader`, sets
the byte order of the stream, `ReadFile`, asks whether the stream is at its end,
and then calls `ReadSdna` on the blocks, `CreateTypeDatabase` on the SDNA and
`CreateMemoryTable` on the blocks. Components interact by calls and by what
these hand on; the types, the strings and the memory that a client gets are
references into a `Blend`.

What is hard in each of them, and what makes it correct:

* **Streams.** Unsigned positions with signed offsets, `SIZE_MAX` as the
  position of a failed `ifstream`, calls that ask `bad()` only, a size that is
  asked once. Correct if nothing but existing bytes is handed out, positional
  reads come back, and a short read never passes for a whole one.
* **File format.** The widths and the byte order are in the file itself; one
  block variable serves every round of the loop. Correct if the blocks tile the
  source, every body belongs to its header, and only complete files are
  accepted.
* **SDNA.** Four tables whose sizes depend on each other and on padding.
* **Field names.** A parser with nested loops over one index.
* **Type database.** References to types that are replaced later, offsets
  computed from sizes before that. Correct if every field leads to the type its
  struct names and lies where C puts it.
* **Memory table.** Ranges that overlap, touch, share a head or wrap, sorted by
  a sort that is not stable. Correct if the memory found is a part of a block
  that holds the address.
* **Queries.** Tokens, numbers, indices into memory, null and dangling pointers,
  lists that may be circular, callbacks that may move the `Blend`. Correct if the
  data always lies in one block, a query answers what its path means, and a walk
  goes from each element to the next and ends.
* **Blend.** Lifetimes: types and views refer to the `Blend` they came from, to
  its parts on the heap, and to variables of the client. Correct if, while what
  they refer to is there, types answer from their own file and views select
  exactly the blocks they stand for.

`PROJECT.json` lists the hazards at their lines.

## The models

| module | models | run |
|---|---|---|
| `Stream` | `usize` and `ssize` of any width, `IsAtEnd`, `CanRead`, the target of `Align` | with the next three and `Sdna` |
| `ByteCursor` | abstract: what every stream promises its readers | `memory_stream` |
| `MemoryStream` | every member function of MemoryStream; refines `ByteCursor` | `memory_stream` |
| `FileStream` | every member function of FileStream, over a file of the environment | `file_stream`, `file_open` |
| `BlendFile` | `ReadHeader`, `SetEndian`, `ReadFile`, the check for the end | `blend_file` |
| `Sdna` | `ReadSdna` | `sdna` |
| `Declarator` | what a field name declares, what is built for it, what C means by it | with the next three |
| `FieldName` | reading one field name | `field_name`, `field_name_arrays` |
| `Reflection` | the list of types, sizes and element types | with `TypeDatabase` and `QueryEach` |
| `TypeDatabase` | `CreateTypeDatabase`, `GetType`, `GetBlockType` | `type_database` |
| `QueryString` | `Tokenize`, `AsName`, `AsIndex`, `Query::Create` | `query_string`, `query_index` |
| `MemoryTable` | `CreateMemoryTable`, `GetMemory` | with `QueryEach` |
| `BlendQuery` | `BlendType::QueryValue` token by token; `GetData`, `GetPointerData` | with `QueryEach` |
| `QueryEach` | the calls of a client: `GetValue`, `GetPointer`, `QueryValue`, `QueryEachValue` | `query_each` |
| `Blend` | `Open`, moves, assignments, `GetType`, `GetBlock(s)`, passes over views | `blend` |
| `MemoryStreamProofs`, `FileStreamProofs`, `BlendFileProofs`, `SdnaProofs`, `FieldNameProofs`, `TypeDatabaseProofs`, `QueryEachProofs`, `BlendProofs` | theorems | |

The modules that interact are composed by `EXTENDS`: `BlendFile`, `Sdna` and the
streams share the arithmetic of `Stream`; `FieldName` and `TypeDatabase` meet in
`Declarator`; and `QueryEach` stands on `BlendQuery`, that on `MemoryTable`, and
that on the types of `Reflection`, so that one run covers the table of addresses,
the types, the evaluation and the walk together.

### Streams

A stream is its `m_Position` and its `m_Size`; a run of bytes is named by where
it starts and how long it is, since no property depends on what it holds except
for NULs. `MemoryStream` has an action per member function; the variable `ret`
is the call's name, its argument, the seek it makes, if any, and its answer. `SsizeLimit` is 2^(w-1) for words of w
bits, and arithmetic wraps as in C++. The run uses words of 4 bits and spans of
up to 4 bytes: offsets and sums go around several times and every argument of
`Seek` and `Skip` is tried. Position and size stay far below `SsizeLimit` in the
real machine as in the model (no object is larger than `PTRDIFF_MAX`, which is
the module's assumption).

`CallsDoAsAsked` goes through the calls. It fixes where each seek leads
(`Sought`, in numbers that do not wrap), when it may be refused (`IsThere`), how
many bytes and which string a read hands out and from where, that a positional
read answers from the place of its seek and comes back, and that a call that is
refused stays where it was. `ByteCursor` says the same of reads for every
stream: `asked` is what the call asked for, the next bytes or those at a place,
and what is handed out is that. In the refinement the place is `Sought` of the
seek in `ret`; a positional read leaves the position alone, so that the place
can be found from it after the call as well as before.

`FileStream` adds the `ifstream`: whether it is good, failed or bad, and its own
offset. The environment may remove the path, or put a file that cannot be opened
or a directory in its place, between the checks of `Create` and until it is
opened; it may change the file's length at any time, and let any read fail. Which error bits a call sets
is libstdc++'s behaviour and marked external in the map.

Four surprises are kept in the model and named in the properties: a positional
read on a MemoryStream at its end cannot come back, since `SeekAbsolute` refuses
the end; a string without a NUL is lost and leaves the stream at its end; `Skip`
above `PTRDIFF_MAX` moves backwards; and `Align` on a FileStream moves
`m_Position` but not the `ifstream`. On a failed FileStream, whose position is
`SIZE_MAX`, `Align` even wraps to 0 and makes it look readable
(`cblend_stream.cpp:71`). No property forbids that; `GoodReadsAreWhole` shows
that the reads that follow do not leave the `ifstream` good without having all
their bytes.

### Files

`BlendFile` reads one item per step. The stream is reduced to a position and a
size, over memory and over files; a read on a file that has become shorter
succeeds with fewer bytes and leaves the position at `SIZE_MAX`, as `FileStream`
shows. What the bytes say is chosen when they are read, so the run covers every
content of a source of a given length; the lengths are chosen so that sources
end inside every item and behind up to three blocks. `Radix` makes a length two
digits, which the wrong byte order exchanges. `written` remembers the lengths as
they were written and only serves the properties.

`Sdna` does the same with the body of the DNA1 block. The bodies of the run end
in each section or hold up to two names, two types and two structs, with every
amount of padding. Since the stream that `ReadSdna` makes stays in the native
byte order, the counts in the body of a file of the other byte order are read
with their bytes turned around: the four of a `u32` for names, types and structs
(`ByteSwap`), the two of a `u16` for the fields of a struct (`ByteSwapShort`). A
byte of the run has two values, so that 4 is read as 2 and 6 as itself.
`AcceptedIsAsWritten` says that what is accepted in the native byte order has the
counts that were written, and in the other one those that their bytes make
backwards. Mostly such a body is refused, but not always: the run has bodies that
are accepted with 2 names where 4 were written, and ones whose counts read the
same from both ends.

### Types

`FieldName` reads a name character by character, with an action per piece of
each loop, over every text of up to four characters and every declarator of up
to two pointers and three dimensions. Its result is what `Declarator!Built`
says: the first dimension, then the pointers. `AcceptedIsWellFormed` is about
texts that no declarator spells: it names three slips of the parser, a last `[`
that is not looked at, dimensions behind the first that may be empty, and a
pointer to function of which only the first bracket is looked at, so that
`(ab---` is accepted as `b` (`cblend.cpp:354`). `TypeDatabase` takes declarators
for names and builds on `Built`, so that the two modules meet in it:
`DeclaratorsAreRead` shows what `TypeDatabase` uses. Names that cannot be read
are `Unreadable`.

`TypeDatabase` has an action per round of each loop. A type list is a sequence
of types which refer to others by slot; `EndStruct` replaces a fundamental type
by an aggregate in its slot. `CreateTypeDatabase` dereferences the result of
both `Process` functions before it asks whether they failed (`cblend.cpp:527`,
`543`): for a bad name the model ends in the error or in `"undefined"`. The run
has two types and two structs, so that the first struct may refer to the type
of the second, to its own or to a type that both structs define, and words of 4
bits, so that offsets wrap.

### Queries

`QueryString` takes every string of up to five characters apart: a delimiter, a
letter, two digits and a character that is none of them. The NUL that is part
of the query string is part of the model, and is a delimiter as it is in the
code (`Delimiter.string` has one too).

`BlendQuery` evaluates such a query, a token per step: the branches of
`NameToken`, `IndexToken` and of the actions that fail are those of
`BlendType::QueryValue`. A span of memory is named by the block whose body it
points into, an offset and a size, so that "the data lies in one block" can be
said at all; a null span may have a size. A body is a sequence of bytes, of
which only pointers are read; a value of C++ is its size. `Elements` follows the
code in two ways that surprise. A second index in a row does not continue where
the first one led but is applied again to the last field named
(`cblend.cpp:160`), so `QueriesMeanPaths` is about queries without two indices
in a row. And a pointer leads to one element only: what it points to is looked
up with the size of one, and every index but 0 is out of bounds.

`unchecked` is a variable of the model alone. It becomes true when a number that
is compared has wrapped (a field's end, an address and a size, an index times a
size), when the check is skipped since the array has no elements
(`cblend.cpp:173`), or when the client has cast a span to a larger type. It also
does when an index is refused behind a pointer whose address and size wrap: the
element that is found there is another one than the pointer means, if any. Then
anything may be reached, and the model ends in `"undefined"` where a pointer is
read outside of every body. `DataLiesInOneBlock` says that these are the only
ways out of a block; they are the hazards at those lines.

`MemoryTable` gives the set of all tables that sorting by heads may leave, since
ranges of equal heads stay in any order. Memory of size 0 where two blocks touch
belongs to the first range that has it. In a file of the other byte order
pointers are read as they are (`cblend.cpp:302`) and lead to wherever the
exchanged bytes do; the data still lies in one block, but what a path means is
claimed for plain files only (`IsPlain`): of the native byte order, with blocks
that end at an address and arrays whose size is a `std::size_t`. The reference
takes array sizes and pointees as they are in unbounded numbers.

`QueryEach` has the calls of a client. A walk evaluates `next[0]`, moves to what
it finds, evaluates the query there and calls back. It begins behind the element
it is given, which in the tests is a `ListBase`. The untyped walk takes
`InvalidValue` for the end of the list (`Break`), the typed one returns it. A
callback may move the `Blend` away, which leaves an empty table to the walk; it
then ends early and well. `seen` holds the first `MaxSeen` elements, more than
any list of the run has without going around.

### Blend

`Blend` is about what refers to what. An object is a place a `Blend` can be in;
it holds a source (a file that was opened), nothing, or what a move has left.
Each source is opened once, so that its name is the identity of what lies on the
heap; opening one with a `fault` ends in the error of that stage. The client has
one variable, `criterion`, with a code or a type, and one view of blocks. A type
refers to its reflected type, which moves with the `Blend`, and to the memory
table in the object it was asked of, which does not. `Lookup` is a query by the
type: it answers with the name of the file that the table in that object belongs
to, `"nothing"` from the empty table behind a move, or `"dangling"`.

A view keeps pointers to its object and to the client's variable, and remembers
the first block once it is found. `disturbed` and `spoiled` say that something a
view or a type refers to has changed or is gone; whoever goes on is not promised
anything, and the model ends where the code is undefined. The properties speak
of the time before, in which all the rest of the program may be opened, moved
and destroyed. What a view stands for (`Meant`) is read off the file: the blocks
of that code, or those whose struct is listed and builds that type. A pass has
to hand them out ascending and leave none out (`ViewsSelectExactly`). Moving out of an object that has been moved from, and assigning
an object to itself, are not considered; they leave what a member-wise move of
containers leaves.

## The runs

| run | what it shows |
|---|---|
| `memory_stream` | positions stay in the span, every call does what it was asked for or is refused (seeks, skips, aligns, reads of bytes and of strings, from the position and from elsewhere), and the stream implements `ByteCursor` |
| `file_stream` | failed streams are at their end although no call asks for failbit, so a read on a good stream is whole; only `Align` separates the two offsets |
| `blend_file` | blocks tile the source, bodies belong to their headers (a block of length 0 carries the body of the one before), only complete files are accepted, lengths are as written in both byte orders, errors are truthful (an unexpected end of memory; bytes behind the ENDB block of either), reading ends |
| `sdna` | the four tables tile the body, and what is accepted has the counts that were written, or those that their bytes make backwards |
| `field_name` | well-formed declarators are read, what is accepted is well-formed but for three slips, reading ends |
| `type_database` | no chain of types is circular, fields are contiguous by the sizes types have in the end, fields lead to the types meant, lookups find them, simple structs are laid out as in C, errors are truthful |
| `query_string` | the tokens are the runs between delimiters, and queries are made exactly of names and numbers |
| `query_each` | data lies in one block unless a check was passed by a wrapped number, queries answer what their paths mean, walks go from each element to the next and end if the list does |
| `blend` | no `Blend` is in two objects, views select exactly the blocks of their code or type in every pass, types answer from their own file or not at all |
| `file_open` | **violated**: `Create` never reports `AccessDenied` (`cblend_stream.cpp:174`), since an `ifstream` that cannot open its file is failed and not bad |
| `field_name_arrays` | **violated**: a field of two or more dimensions gets only the first one (`cblend.cpp:431`) |
| `query_index` | **violated**: an index of several digits is read from the wrong end (`cblend_query.cpp:49`), so `[12]` is 21 |

Each property of a passing run has a mutant, an operator marked `Mutant` in
front of the definition that it replaces, under which TLC finds the property
violated.

The bounds of `query_each` are a pointer of two bytes with six values each and
words of 36 values, so that every pointer is an address and some of them wrap
when a size is added. The files have the head of a list, two links, a block that
is too short for one and an empty one; the second link lies behind the first
one, overlaps it or has its address, and the pointers between them make lists
that are empty, circular from the first or the second element, or lead out of a
block. Each query of up to two of ten tokens is evaluated from a mesh and a link
and behind `base.first[0]`, and longer ones where a case needs them. `blend` has
three objects, so that a `Blend` can be moved twice while another one comes to
the place it left; two good files, of which one has a type in slot 0 and a block
whose struct is missing in the other; and one file that fails in the first stage
and one that fails in the last.

Fairness is assumed in three specifications: `WF_vars(Step)` in `BlendFile`,
where `Step` are the actions of the library, and `WF_vars(Next)` in `FieldName`
and `QueryEach`. All are loops in the calling thread, which takes its next step
as long as there is one; the environment of `BlendFile` (a file that changes its
length) need not do anything and may go on for ever without keeping the reader
from its end, and the callbacks of `QueryEach` return. A walk along a list that
leads back into itself never ends (`cblend.cpp:218`), which `CallsEndOrReturn`
excepts: every other one ends. The other specifications state no liveness: their
calls are the client's choice, or their loops are bounded by a number.

Deadlock checking is off where the models end: a file, an SDNA, a name, a
database and a call are finished, and nothing follows an undefined step.

## The proofs

| module | theorems, each for every value of the constants |
|---|---|
| `MemoryStreamProofs` | `TypeOK`, `PositionInBounds`, `CallsDoAsAsked`, refinement of `ByteCursor` |
| `FileStreamProofs` | `TypeOK`, `FailedStreamsAreAtEnd`, `GoodReadsAreWhole`, `OnlyAlignLosesTheOffset`, `PositionalReadRestores` |
| `BlendFileProofs` | `TypeOK`, `BlocksTile`, `BodiesAreTheirBlocks`, `AcceptedIsComplete`, `LengthsAreAsWritten`, `ErrorsAreTruthful` |
| `SdnaProofs` | `TypeOK`, `TablesTile`, `AcceptedIsAsWritten` |
| `FieldNameProofs` | `TypeOK`, `DeclaratorsAreRead`, `AcceptedIsWellFormed` |
| `TypeDatabaseProofs` | `TypeOK`, `FieldsAreContiguous`, `ReferencesResolve`, `LookupsFindTheirTypes`, `SimpleStructsMatchC`, `ErrorsNeedABadSdna` |
| `QueryEachProofs` | `TypeOK`, `DataLiesInOneBlock`, `QueriesMeanPaths`, `WalksVisitInOrder` |
| `BlendProofs` | `TypeOK`, `TypesAnswerFromTheirFile`, `ViewsSelectExactly` of `Blend`; `QueryTypeOK`, `TokensAreTheRuns`, `QueriesAreWhole` of `QueryString` |

**MemoryStream.** The argument runs over the outcomes of the virtual functions:
each of them, started at a position in the span, answers with a position in the
span, and if it hands out bytes they lie between. A positional read composes three such facts: where its seek goes (`SeekGoes`),
what is read there (`ReadGives`, `StringGives`), and that it comes back
(`SeekBackReturns`). Every action is one outcome and `Return`, so that
the step of the induction is one lemma for outcomes and one for `Return`.
`CallsDoAsAsked` needs no invariant beyond the position in the span, but a lemma
for each kind of call that says what its outcome is. For the refinement the place
that a positional read asked for, `Sought` of its seek, is the same before and
after the call, since the position is.

**FileStream.** `m_Position` follows the offset of the `ifstream` except after an
`Align`. Every call is refused and changes nothing, is an `Align`, or ends by
asking `tellg`, which is `SIZE_MAX` when the `ifstream` has failed; the lemmas
`...Told` say so per function. That a failed stream is at its end follows from
`tellg`, that a read on a good one is whole from what sets failbit, and the
offset is 0 until the file is opened.

**BlendFile.** None of the invariants is inductive alone. `IInv` adds where in a
block header the reader is (`Placed`: the position is the place of the item that
comes next, unless the last read was short), that blocks lie in the source
(`InSource`), that ENDB ends the loop (`EndsOnce`), and that the local block and
the lengths written agree with what has been read of the block (`LengthsKept`,
`BodiesKept`). `Fetch` moves by the width of the item or to `SIZE_MAX`; which of
these holds decides every case.

**Sdna.** The position is a function of the section, of the part of it and of the
entries that have been read, and the tables that are finished have as many
entries as their counts say. Every entry takes at least a byte, so that a count
above the length of the body can never be reached. What is accepted has therefore
as many entries as the counts that were read; that these are the bytes of the
written ones backwards is a matter of digits: a number below `Radix^4` is the one
its four bytes make (`NumberHasBytes`), and so turning them around twice leads
back to it (`SwapTurnsAround`), for every radix.

**FieldName.** `PartsAreRead` says, for each place in the parser, which characters
lie behind it: pointers, a valid name and, behind the first bracket, only
characters that may follow each other (`Goes`). `AsSpelled` says what is known besides when the text is
the spelling of a declarator. `Spell` is a fold and a `FlattenSeq`; the proofs
use that the recursive functions behind these exist, which gives their equations
and with them the length and the places of each part of a spelling.

**TypeDatabase.** The first pass makes types without elements; arrays and pointers
refer to slots below theirs or to types of that pass. Sizes therefore have an
explicit solution, an array of a type of the first pass, and replacing a type by
an aggregate changes none that a field has been given (`Followed`). `Mapped` says
which slots the maps lead to, and `Resolving` that the types pushed for a field
lie one behind the other and lead to the type that its struct names, for every
struct that the second pass is done with and the last one to build a slot.
`SimpleStructsMatchC` follows from both: what is built for a simple declarator has
the size it has in C, up to its width, and the offsets agree by induction over the
fields. A simple field is neither a pointer to an array nor one to a function and
has one dimension at most; nothing is said of the fields behind another one.

**Queries.** A table of ranges is built from the blocks of a file. If an address is
in a range whose end did not wrap, the address and the size lie in the block of
that range, since its head and its length are those of the block; a range whose
end has wrapped covers nothing. `DataLiesInOneBlock` follows from this for the
memory that a pointer leads to, and from the checks of `QueryValue` for fields and
indices, as long as `unchecked` is false: the data stays in the block of the
element that the query began with, or of the last pointer. `AddressAssumption`
says that the bytes of a pointer make an address. It follows from
`Radix^PointerSize <= MaxUsize + 1`, but the sum is a fold, and so it is assumed
and evaluated by TLC.

What an answer means is compared with `Reached`, the places that the path leads
to after each of its tokens. That is a recursive function, so a lemma first says
that it exists and what equations it has; the same for the size of a type. Then
each branch of the evaluation has a lemma that says which places of the reference
it goes to: a name (`NamePlacesAre`), an index into an array or behind a pointer
(`ArrayPlacesAre`, `PointerPlacesAre`). For a pointer it takes that the table has
a range for every block with a body (`Complete`), which is true until a callback
moves the `Blend`: then nothing is found, and the evaluation fails where it
would have gone on. The invariant `QInv` says that the evaluation
is at one of the places that the tokens it has taken lead to, and that an array
or a pointer is still the field it was named as, which is what indices in a row
would break (`Tracks`); and, of a walk, that each element remembered is a next
one of the one before, that the walk is at the last of them or at a next one of
it, and that it is at an element without a next one when it is about to end well
(`Walked`). An error that a path has come to stays to its end, so that failing
early is right. `QueriesMeanPaths` and `WalksVisitInOrder` follow at the end of
an evaluation. Where a walk ends is claimed only if no callback has moved the
`Blend`, after which it ends early and well; that each element it has called back
for is the next one is claimed in any case. Looking for that proof showed that an index may be refused for a
pointer whose address and size wrap, where the reference has no such element;
`unchecked` covers that now, and the run has a query that does it.

**Blend.** What a type answers depends on where its Blend is and on what the object
holds whose table it refers to. `Refers` says that as long as nothing is gone,
the first is in some object and the second holds this Blend or the empty shell it
left. An assignment could break it by putting another Blend into the object, or
by losing the Blend of the type; that it can lose it in one object only is the
uniqueness in `TypeOK`, so the two are proved together. For views, `CriterionKept`
says that the client's variable is a code or a type in a slot other than 0, and `ViewKept` that the view can still be read, that it remembers the
first block its filter accepts, and that what has been handed out are the blocks
accepted up to where it is. The filter and the meaning agree on each block
(`Hits`), for types because `CriterionKept` keeps them out of slot 0, which a
struct that is not listed is mapped to.

**Query strings.** The searches of the tokenizer are recursive functions that count
towards the end of the string, so a lemma first says that such a function exists
(`SearchExists`) and a second one that it finds the first place of a set
(`SearchFinds`); the NUL in the string makes sure that there is one. `QueryIInv`
says that the tokenizer stands on a run of the string or at its end (`Standing`),
and that the tokens are, each of them once and in order, the runs that end before
its position (`Collects`). A step of the loop adds the run that the tokenizer
stands on (`NextRun`), for which it takes that two runs that overlap are the same
one (`RunsAreApart`). `TokensAreTheRuns` follows when the position is the end.
`QueriesAreWhole` is about `Create`, which compares numbers of tokens: sequences of
at most one element, laid end to end, have as many elements as there are
sequences only if none of them is empty, and then each is in its place
(`FlattenIs`). The theorems are in `BlendProofs`, which is about what a client
does with the library's objects and strings; the definitions of `QueryString`
that would meet those of `Blend` carry its name in theirs.

All rest only on the assumptions that the modules name, which TLC evaluates on
every run that uses the module: a word has at least one value of each sign, sizes
are below `SsizeLimit`, alignments are positive; SDNAs are what `IsSdna` says
(first dimensions fit a word), spellings are those of `IsSpelling` (a valid name,
digits, and a pointer to function without dimensions); counts are of four bytes;
`AddressAssumption` as above; and the sources of `Blend` are none of the markers
`"undefined"` and `"dangling"` or of those for objects without a Blend.

What stays with TLC, and why:

* `ReadingEnds` and `CallsEndOrReturn`, and the end of `FieldName`: liveness under
  fairness.
* `Weighed`, the value of an index, as more than a number: what a fold comes to is
  induction over data. (That it is not the number its digits say is what the run
  `query_index` shows.)

## What is not modelled

* Memory: allocations that a count or a length in a file asks for before the
  data is there (`cblend_format.cpp:108`, `156`). Whether a size is refused
  depends on the allocator and the machine; the read that follows it is modelled.
* The texts of names beyond what declarators and queries are made of, locales of
  `isalpha` and `isdigit`, formatting of errors.
* `Trim`, `MaxTokens` and delimiters of several characters in `Tokenize`, which
  the library does not use.
* `GetFieldOffset` and `GetFieldType` by index, `GetEndian`, `GetPointer` and the
  count of all blocks, which read a member each.
* A `BlendFieldInfo` that outlives the `BlendType` it was asked of: its reference
  to the declaring type dangles as a view's reference to its type does.
* What the bytes of a value mean beyond their number: `ReinterpretCast` and typed
  reads are modelled by sizes.
* Build files, tests and debugger views.

## Plan

The modules were written in the order in which a file passes through the code:
streams, file, names and types, SDNA, query strings, memory and queries, and the
`Blend` that owns it all. What is left is a `Loader`, the stages of
`ReadBlendData` composed of the modules: `Blend` has the error of each stage as a
choice, and the composition would derive it.
