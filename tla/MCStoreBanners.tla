---------------------------- MODULE MCStoreBanners ----------------------------
(* Small instances of StoreBanners for TLC.  Requests are interchangeable. *)
EXTENDS StoreBanners, TLC

Symmetry == Permutations(Requests)

(* A PATCH may name one image of another site, or more banners than        *)
(* MaxBanners = 2: that one and a file of the store (which the other field *)
(* may hold, too) twice.                                                   *)
ListsPatched == {{<<0, 1>>}, {<<0, 1>>, <<1, 1>>, <<1, 2>>}}
=============================================================================
