---------------------------- MODULE MCPassthrough -----------------------------
(* Programs of Direct3D 9 and of Direct3D 8, each of a few kinds of objects that meet   *)
(* in one program, and after the first another program, on what it left.                *)
EXTENDS Direct3D8

Program(api, kinds, sets, handles) ==
  [api |-> api, kinds |-> kinds, sets |-> sets, handles |-> handles]

MCPrograms ==
  << {Program(9, {"texture", "block"}, {"view"} \X {1}, 3),
      Program(9, {"declaration", "block"}, {"format"} \X {0, 1}, 3),
      Program(9, {"buffer", "shader", "query", "surface", "memory"}, {}, 3),
      Program(9, {"block"}, {"state", "constant"} \X {0, 1}, 2),
      Program(8, {"texture"}, {}, 3),
      Program(8, {"declaration", "shader"}, {"format"} \X {0, 1}, 3),
      Program(8, {"pixel", "block"}, {"constant"} \X {1}, 3),
      Program(8, {"buffer", "surface", "memory"}, {}, 3),
      Program(8, {}, {"state", "view"} \X {1}, 2)},
     {Program(9, {"texture"}, {}, 2)} >>
=============================================================================
