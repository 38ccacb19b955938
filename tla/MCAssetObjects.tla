--------------------------- MODULE MCAssetObjects ---------------------------
(* p1 plans an icon or a photo, p2 the same icon together with a logo.  p1    *)
(* allows one object and p2 two, so neither fits all three.  Metadata records *)
(* one deployment, and three use the icon.                                    *)
EXTENDS AssetObjects, TLC

CONSTANTS p1, p2, k1, k2, k3, icon, logo, photo, t1, t2, t3, t4, d1, d2, d3

MCKeyOf == (icon :> k1) @@ (logo :> k2) @@ (photo :> k3)
MCBy == (t1 :> p1) @@ (t2 :> p2) @@ (t3 :> p2) @@ (t4 :> p1)
MCFor == (t1 :> icon) @@ (t2 :> icon) @@ (t3 :> logo) @@ (t4 :> photo)
MCBundles == (p1 :> {{icon}, {photo}}) @@ (p2 :> {{icon, logo}})
MCUses == [d \in {d1, d2, d3} |-> icon]
MCQuota == (p1 :> 1) @@ (p2 :> 2)
Symmetry == Permutations({d1, d2, d3})
=============================================================================
