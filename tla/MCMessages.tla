----------------------------- MODULE MCMessages -----------------------------
(* Messages with objects of every type, an array in an array and a map in  *)
(* an array; parameters beyond the first capacity and beyond the limit of  *)
(* a reader.                                                               *)
EXTENDS Messages

Obj(t, v) == [t |-> t, v |-> v]

\* The first three are an element or a copy of another.
AllObjects ==
    { Obj("map", 0), Obj("array", <<Obj("bin", "wave")>>), Obj("array", <<Obj("map", 0), Obj("bool", 1)>>),
      Obj("und", 0), Nil, Obj("bool", 1), Obj("int", -1), Obj("int", 1), Obj("uint", 1),
      Obj("str", "kick"), Obj("str", Empty), Obj("bin", "wave"), Obj("bin", Empty), Obj("map", 1),
      Obj("array", <<>>),
      Obj("array", <<Obj("int", 1), Obj("str", "kick")>>),
      Obj("array", <<Obj("array", <<Obj("bin", "wave")>>), Nil>>),
      Obj("array", <<Obj("map", 1), Obj("bool", 1)>>),
      Obj("array", <<Nil, Nil, Nil>>) }

RECURSIVE ArraysIn(_)
ArraysIn(o) ==
    IF o.t # "array" THEN 0 ELSE 1 + Max({0} \union {ArraysIn(o.v[i]) : i \in DOMAIN o.v})

DepthOfAll == [o \in AllObjects |-> ArraysIn(o)]
=============================================================================
