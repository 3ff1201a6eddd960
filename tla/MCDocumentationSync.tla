------------------------- MODULE MCDocumentationSync -------------------------
(* Two mapped spaces, A and B.C: pages of A, one of them in the nested      *)
(* space A.N and one (z) that the database refuses, and a page of B.C,      *)
(* whose first segment names no mapped space.                               *)
EXTENDS DocumentationSync

CONSTANTS a1, a2, z, n, c, A, B, C, N, name

MCPages == {a1, a2, z, n, c}
MCPath == a1 :> <<A, name>> @@ a2 :> <<A, name>> @@ z :> <<A, name>>
          @@ n :> <<A, N, name>> @@ c :> <<B, C, name>>
MCPlace == a1 :> 1 @@ a2 :> 2 @@ z :> 3 @@ n :> 4 @@ c :> 5
MCSpaces == <<<<A>>, <<B, C>>>>
MCBad == {z}
MCExisting == <<a2, n, a1>>
MCWithBad == <<a2, n, z>>
=============================================================================
