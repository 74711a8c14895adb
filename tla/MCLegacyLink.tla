---------------------------- MODULE MCLegacyLink ----------------------------
(***************************************************************************)
(* The instance of LegacyLink that TLC checks.                             *)
(***************************************************************************)
EXTENDS LegacyLink, TLC

CONSTANTS x, y, z, \* OTIs: of two blocks, of one, and of no decoder
          a, b     \* contents

Objects == [o \in {x, y, z} |->
               IF o = x THEN (0 :> 2 @@ 1 :> 1) ELSE (0 :> 2)]

\* A file, two with another OTI, and one the receiver refuses.
FourFiles == {[oti |-> x, content |-> a], [oti |-> y, content |-> a],
              [oti |-> y, content |-> b], [oti |-> z, content |-> a]}
=============================================================================
