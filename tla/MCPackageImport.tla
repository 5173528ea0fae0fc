----------------------------- MODULE MCPackageImport -----------------------------
(* Two packages that overlap: b2 brings e1 again with a new message, and e2, *)
(* another identifier of the same phone.                                    *)
EXTENDS PackageImport, TLC

CONSTANTS w1, w2

MCPhoneOf == [e \in Exts |-> "p1"]
MCPackage ==
  [b \in Batches |->
     IF b = "b1" THEN "e1" :> {"m1"} ELSE ("e1" :> {"m1", "m2"}) @@ ("e2" :> {})]
Interchangeable == Permutations(Workers)
=============================================================================
