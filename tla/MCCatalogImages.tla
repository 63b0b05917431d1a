---------------------------- MODULE MCCatalogImages ----------------------------
(* Small instances of CatalogImages for TLC.  Requests, and packages, are *)
(* interchangeable.                                                       *)
EXTENDS CatalogImages, TLC

Symmetry == Permutations(Places) \cup Permutations(Packages)

(* Administrators may enter the URL that the first upload had, or would   *)
(* have had, in the folder of any package.                                *)
PackageUrls == {u \in Urls : u.file.folder = "package" /\ u.v = 1}
=============================================================================
