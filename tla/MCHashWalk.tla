---------------------------- MODULE MCHashWalk ----------------------------
(* Instances of HashWalk with two cells to a chunk.                        *)
EXTENDS HashWalk

Shape(kind, n, z, cap) == [kind |-> kind, n |-> n, z |-> z, cap |-> cap]

(* Every kind of field at the lengths around the chunk boundaries.  In     *)
(* chunks all limits but those of the last two shapes are powers of two.   *)
Lengths ==
    {Shape("uint", 1, 0, 0)}
      \cup {Shape("bytes", n, 0, 0) : n \in {1, 2, 3, 5}}
      \cup {Shape("dynbytes", n, 0, cap) : n \in {0, 1, 3, 4}, cap \in {0, 2, 4, 7}}
      \cup {Shape("bitlist", n, z, cap) : n \in {0, 1, 3}, z \in 0 .. 2, cap \in {4, 8}}
      \cup {Shape("uints", n, 0, 0) : n \in {2, 3, 4, 6, 7}}
      \cup {Shape("uintlist", n, 0, cap) : n \in 0 .. 5, cap \in {0, 2, 4, 8}}
      \cup {Shape("roots", n, 0, 0) : n \in 1 .. 5}
      \cup {Shape("rootlist", n, 0, cap) : n \in 0 .. 4, cap \in {0, 1, 2, 4, 8}}
      \cup {Shape("rootlist", n, 0, 3) : n \in {2, 3}}

(* Bitlists over their limit, by zeros only and by data, in trees of each  *)
(* of the depths that TreeFromNodes tells apart.                           *)
Overlong ==
    {Shape("bitlist", 1, 6, 4), Shape("bitlist", 3, 0, 1)}
      \cup {Shape("bitlist", n, 0, cap) : n \in {3, 5, 7, 9, 11, 13, 15}, cap \in {2, 4, 8}}

(* One limit of each kind, and none, for fields in open frames.            *)
OneLimit == {f \in Lengths : f.cap \in {0, 3, 4} /\ f.z # 2}

(* A few fields, for deeper nesting.                                       *)
Nesting == {Shape("uint", 1, 0, 0), Shape("uints", 3, 0, 0),
            Shape("dynbytes", 1, 0, 4), Shape("bytes", 3, 0, 0)}

(* Vectors whose last chunk is partial: after an even number of whole ones *)
(* or the only one.                                                        *)
Partial == {Shape("uint", 1, 0, 0), Shape("uints", 5, 0, 0), Shape("uints", 1, 0, 0)}

Bounds(shapes, fields, members, nesting, walked, limits) ==
    [fields |-> shapes, maxOps |-> fields, maxMembers |-> members, maxNesting |-> nesting,
     maxWalks |-> walked, listLimits |-> limits]

(* Every kind at every length, two fields in two walks, or at one limit in *)
(* one with containers and lists open; few kinds nested three deep; four   *)
(* fields in one container or list; and over-long bitlists.                *)
MCPlans == [lengths |-> Bounds(Lengths, 2, 2, 1, 2, {}),
            nested |-> Bounds(OneLimit, 2, 2, 2, 1, {0, 2}),
            deep |-> Bounds(Nesting, 3, 2, 3, 1, {2}),
            wide |-> Bounds({Shape("uint", 1, 0, 0), Shape("bytes", 3, 0, 0)},
                            4, 4, 2, 1, {1, 3, 4}),
            overlong |-> Bounds(Overlong, 2, 2, 1, 1, {})]

PartialPlan == [partial |-> Bounds(Partial, 2, 2, 2, 2, {2})]
===========================================================================
