------------------------------ MODULE MCBlend ------------------------------
(* Two good files, with blocks of two codes and two structs, one of which  *)
(* has the type in slot 0, and one bad file for every stage.               *)
EXTENDS Blend, TLC

CONSTANTS o1, o2, o3, scene, mesh

Block(c, i) == [code |-> c, struct_index |-> i]
Source(name, blocks, map, fault) ==
  [name |-> name, blocks |-> blocks, struct_map |-> map, type_count |-> 3, fault |-> fault]

MCSources ==
  {Source("A", <<Block(scene, 0), Block(mesh, 1), Block(mesh, 0)>>, <<2, 1>>, "none"),
   Source("B", <<Block(mesh, 1), Block(scene, 2)>>, <<0, 2, 1>>, "none")}
    \cup {Source(stage, <<>>, <<>>, stage) : stage \in {"create", "types"}}

Symmetry == Permutations({o1, o2, o3})
=============================================================================
