----------------------------- MODULE MCQueryEach -----------------------------
(* Files with a mesh, two links and blocks that are short or empty.  The   *)
(* mesh is the head of a list of the links; pointers lead to the links, to *)
(* nothing, to where a block is too short, or to where their sum wraps.    *)
(* The second link lies behind the first one, overlaps it or has its       *)
(* address.                                                                *)
EXTENDS QueryEach

Field(o, n, slot) == [offset |-> o, name |-> n, type |-> slot]
Pointer(slot)      == Around(PointerType, slot)
Array(count, slot) == Around(ArrayType(count), slot)

Number == 0
Link == 2
Base == 3
Mesh == 4
Wide == 5

MCTypes ==
  <<Fundamental("int", 1), Fundamental("void", 0),
    Aggregate("Link", 6, <<Field(0, "next", 6), Field(2, "v", 7), Field(4, "p", 8)>>),
    Aggregate("Base", 4, <<Field(0, "first", 6), Field(2, "last", 6)>>),
    Aggregate("Mesh", 9, <<Field(0, "base", 3), Field(4, "n", 0), Field(5, "pp", 10),
                           Field(7, "f", 13), Field(9, "e", 11)>>),
    Aggregate("Wide", 9, <<Field(0, "x", 14), Field(35, "y", 7), Field(0, "x", 0)>>),
    Pointer(Link), Array(2, Number), Pointer(1), Pointer(Number), Pointer(9),
    Array(0, Number), Around(FunctionType, NoSlot), Pointer(12), Array(35, Number)>>

Cells(n, native) == IF native THEN <<n % 6, n \div 6>> ELSE <<n \div 6, n % 6>>

MCFile(first, next, p, second, native) ==
  LET P(n) == Cells(n, native)
      Body(i) == CASE i = 1 -> P(first) \o P(second) \o <<3>> \o P(8) \o P(0)
                   [] i = 2 -> P(second) \o <<1, 2>> \o P(p)
                   [] i = 3 -> P(next) \o <<4, 5>> \o P(p)
                   [] i = 4 -> P(0) \o <<1>>
      Block(a, n, body) == [address |-> a, length |-> n, body |-> body]
  IN  [blocks |-> <<Block(1, 9, Body(1)), Block(11, 6, Body(2)), Block(second, 6, Body(3)),
                    Block(25, 3, Body(4)), Block(28, 0, Body(4))>>,
       types |-> MCTypes, native |-> native]

Untyped  == [kind |-> "untyped", size |-> 0]
As(k, n) == [kind |-> k, size |-> n]

BodyOf(f, i) == [block |-> i, offset |-> 0, size |-> Len(f.blocks[i].body)]
SpanOf(i, o, n) == [block |-> i, offset |-> o, size |-> n]

MCNames   == {"next", "v", "p", "first", "last", "base", "n", "pp", "f", "e", "x", "y"}
MCTokens  == {Name(n) : n \in {"next", "v", "p", "first", "n", "x", "y"}} \cup {Index(i) : i \in {0, 1, 6}}
MCCall(kind, f, slot, span, cast, tokens, as) ==
  [kind |-> kind, file |-> f, type |-> slot, data |-> span, cast |-> cast,
   query |-> tokens, as |-> as]

Upto(n) == UNION {[1 .. k -> MCTokens] : k \in 0 .. n}
First   == <<Name("base"), Name("first"), Index(0)>>

MCQueries ==
  Upto(2) \cup {First \o q : q \in Upto(2)} \cup {<<Name("base"), Name("first"), Index(1)>>}
    \cup {<<Name("pp"), Index(0), Index(0)>>, <<Name("pp"), Index(0), Name("n")>>,
          <<Name("f"), Index(0)>>, <<Name("f"), Index(0), Index(0)>>, <<Name("e"), Index(0)>>,
          <<Name("next"), Index(0), Name("next"), Index(0), Name("v"), Index(1)>>}

MCValueFiles ==
  {MCFile(first, 0, 17, second, native) :
     first \in {0, 11, 34}, second \in {17, 14}, native \in BOOLEAN}
MCWalkFiles ==
  {MCFile(first, next, 25, second, native) :
     first \in {0, 11, 17, 25, 34}, next \in {0, 11, 17, 20}, second \in {11, 14, 17},
     native \in BOOLEAN}
MCFiles == MCValueFiles \cup MCWalkFiles

(* Every query against a mesh and a link; short ones against data that is  *)
(* no struct, too short or cast to something larger; every C++ type;       *)
(* walks from the mesh, from data without next and with a type without it; *)
(* and the fields of links, of one that is cut off and of a mesh.          *)
MCCalls ==
  {MCCall("QueryValue", f, tb[1], BodyOf(f, tb[2]), FALSE, q, Untyped) :
     f \in MCValueFiles, q \in MCQueries, tb \in {<<Mesh, 1>>, <<Link, 2>>}}
    \cup {MCCall("QueryValue", f, tb[1], BodyOf(f, tb[2]), tb[3], q, as) :
     f \in {MCFile(11, 0, 17, second, TRUE) : second \in {14, 17}},
     q \in Upto(2), as \in {Untyped, As("value", 1)},
     tb \in {<<Wide, 1, FALSE>>, <<Link, 5, FALSE>>, <<Base, 4, TRUE>>, <<7, 2, FALSE>>}}
    \cup {MCCall("QueryValue", f, Mesh, BodyOf(f, 1), FALSE, First \o q, As(k, n)) :
     f \in MCValueFiles, k \in {"span", "pointer", "value"}, n \in {1, 6},
     q \in {<<>>, <<Name("next")>>, <<Name("v"), Index(1)>>, <<Name("p"), Index(0)>>}}
    \cup {MCCall("QueryEachValue", f, tb[1], tb[2], FALSE, q, as) :
     f \in MCWalkFiles, tb \in {<<Link, SpanOf(1, 0, 9)>>, <<Link, SpanOf(1, 4, 1)>>, <<Base, SpanOf(1, 0, 4)>>},
     q \in {<<>>, <<Name("v")>>, <<Name("p"), Index(0)>>},
     as \in {Untyped, As("value", 1), As("value", 2)}}
    \cup {MCCall(kq[1], f, tb[1], BodyOf(f, tb[2]), FALSE, kq[2], As("value", n)) :
     f \in MCValueFiles, n \in {1, 2, 4, 6}, tb \in {<<Link, 2>>, <<Link, 3>>, <<Link, 4>>},
     kq \in {<<"GetValue", <<Name("next")>>>>, <<"GetValue", <<Name("v")>>>>,
             <<"GetPointer", <<Name("next"), Index(0)>>>>, <<"GetPointer", <<Name("p"), Index(0)>>>>,
             <<"GetPointer", <<Name("v"), Index(0)>>>>}}
    \cup {MCCall("GetPointer", f, Base, BodyOf(f, bc[1]), bc[2], <<Name(q), Index(0)>>, As("value", 6)) :
     f \in MCValueFiles, bc \in {<<1, FALSE>>, <<4, TRUE>>}, q \in {"first", "last"}}
=============================================================================
