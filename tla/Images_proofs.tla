----------------------------- MODULE Images_proofs -----------------------------
(***************************************************************************)
(* Theorems about the images of a store: StoreBanners, for every limit,    *)
(* every number of files and any number of overlapping requests, and       *)
(* CatalogImages, for any packages, extensions and overlapping requests.   *)
(*                                                                         *)
(* The limit of the banners holds, until a PATCH lists more, because each  *)
(* request has room for its own uploads in what it has read (RoomLeft),    *)
(* whatever the row has become.  Banners are served because a file that no *)
(* PATCH has listed belongs to one entry of one field, and until it is     *)
(* saved to one request (FilesApart), and a request that is not stale      *)
(* knows its field (Begun).                                                *)
(*                                                                         *)
(* The images of the packages are safe, whatever URLs are entered for      *)
(* them, because a request holds no file to delete but those it has found  *)
(* unused, and it knows the images that are shown but for those that have  *)
(* been replaced since it began (Knows).                                   *)
(***************************************************************************)
EXTENDS StoreBanners, CatalogImages, FiniteSetTheorems, TLAPS

-----------------------------------------------------------------------------
(* StoreBanners                                                            *)

Limit(x) == IF x = "banners" THEN MaxBanners ELSE 1

(* A request deletes what it takes out, and takes out what it has read,    *)
(* which is what the row has unless the request is stale.                  *)
Begun ==
  \A r \in Requests : IsOpen(r) =>
    /\ req[r].gone \subseteq FilesOf(req[r].drop)
    /\ req[r].drop \subseteq req[r].snap
    /\ ~req[r].stale => req[r].snap = row[req[r].field]

Room(q) == Cardinality(q.snap \ q.drop) + q.todo + Cardinality(q.new)

(* Until a PATCH has listed more banners, they are limited. *)
Limited(x) == x = "offer" \/ ~oversized

RoomLeft == \A r \in Requests :
  IsOpen(r) /\ Limited(req[r].field) => Room(req[r]) <= Limit(req[r].field)

RowsFit == \A x \in Fields : Limited(x) => Cardinality(row[x]) <= Limit(x)

(* Files in use have been uploaded. *)
Old(S) == \A e \in S : e[1] \in 0 .. uploads
Numbered ==
  /\ \A x \in Fields : Old(row[x])
  /\ \A r \in Requests : IsOpen(r) => Old(req[r].snap) /\ Old(req[r].new)

(* Two lists share no file but those a PATCH has listed, and one list      *)
(* names such a file once.                                                 *)
Apart(S, T) == \A e \in S, f \in T : e[1] = f[1] => e[1] \in relisted
Once(S) == \A e \in S : e[2] = 1 \/ e[1] \in relisted

(* A file belongs to one entry of one field; one that is not saved yet is  *)
(* in no row, in nothing that was read, and in one request only.           *)
FilesApart ==
  /\ \A x \in Fields : Once(row[x])
  /\ \A x, y \in Fields : x # y => Apart(row[x], row[y])
  /\ \A r \in Requests : IsOpen(r) =>
       /\ Once(req[r].snap) /\ Once(req[r].new)
       /\ \A x \in Fields : x # req[r].field => Apart(req[r].snap, row[x])
       /\ \A x \in Fields : Apart(req[r].new, row[x])
       /\ \A q \in Requests : IsOpen(q) =>
            /\ req[q].field # req[r].field => Apart(req[r].snap, req[q].snap)
            /\ Apart(req[r].new, req[q].snap)
            /\ q # r => Apart(req[r].new, req[q].new)

NewServed == \A r \in Requests :
  IsOpen(r) => \A e \in req[r].new : e[1] \in bucket \cup relisted

IInv ==
  /\ TypeOK /\ RowsFit
  /\ Begun /\ RoomLeft /\ Numbered /\ FilesApart /\ NewServed /\ ImagesServed

-----------------------------------------------------------------------------
(* Requests. *)

LEMMA OpenIsRecord ==
  ASSUME TypeOK, NEW r \in Requests
  PROVE  /\ IsOpen(r) <=> req[r] \in Open
         /\ ~IsOpen(r) <=> req[r] = Idle
<1>1. req[r] \in Open => IsOpen(r)
  BY DEF Open, IsOpen
<1>2. req[r] = Idle => ~IsOpen(r)
  BY DEF Idle, IsOpen
<1> QED
  BY <1>1, <1>2 DEF TypeOK

LEMMA OpenFields ==
  ASSUME TypeOK, NEW r \in Requests, IsOpen(r)
  PROVE  /\ req[r] \in Open
         /\ req[r].field \in Fields
         /\ req[r].snap \subseteq Entries /\ req[r].gone \subseteq AllFiles
         /\ req[r].drop \subseteq Entries /\ req[r].new \subseteq Entries
         /\ req[r].todo \in 0 .. MaxBanners /\ req[r].strict \in BOOLEAN
<1>1. req[r] \in Open
  BY OpenIsRecord
<1> QED
  BY <1>1 DEF Open

LEMMA EntriesFinite ==
  ASSUME NEW S, S \subseteq Entries
  PROVE  IsFiniteSet(S) /\ Cardinality(S) \in Nat
<1>1. IsFiniteSet(0 .. MaxFiles) /\ IsFiniteSet(1 .. MaxCopies)
  BY FS_Interval, BannersAssumption
<1>2. IsFiniteSet(Entries)
  BY <1>1, FS_Product DEF Entries, AllFiles
<1>3. IsFiniteSet(S)
  BY <1>2, FS_Subset
<1> QED
  BY <1>3, FS_CardinalityType

LEMMA LimitIsNat ==
  ASSUME NEW x
  PROVE  Limit(x) \in Nat
BY BannersAssumption DEF Limit

(* A request goes on as it was, with no more to do than before. *)
GoesOn(q) ==
  /\ IsOpen(q)
  /\ req'[q].field = req[q].field /\ req'[q].snap = req[q].snap
  /\ req'[q].drop = req[q].drop /\ req'[q].new = req[q].new
  /\ req'[q].gone \subseteq req[q].gone
  /\ req'[q].todo \in Int /\ req'[q].todo <= req[q].todo
  /\ req'[q].stale = req[q].stale

LEMMA SameGoesOn ==
  ASSUME TypeOK, NEW q \in Requests, req'[q] = req[q], IsOpen(q)'
  PROVE  GoesOn(q)
<1>1. IsOpen(q)
  BY DEF IsOpen
<1>2. req[q].todo \in 0 .. MaxBanners
  BY <1>1, OpenFields
<1>3. req[q].todo \in Int /\ req[q].todo <= req[q].todo
  BY <1>2
<1> QED
  BY <1>1, <1>3 DEF GoesOn

(* What holds of the requests when none writes the row or uploads a file.  *)
LEMMA RequestsGoOn ==
  ASSUME IInv, row' = row, uploads' = uploads, oversized' = oversized, relisted' = relisted,
         \A q \in Requests : IsOpen(q)' => GoesOn(q)
  PROVE  RowsFit' /\ Begun' /\ RoomLeft' /\ Numbered' /\ FilesApart'
<1>1. RowsFit'
  BY DEF IInv, RowsFit, Limit, Limited
<1>2. Begun'
  BY DEF IInv, Begun, GoesOn
<1>3. RoomLeft'
  <2> SUFFICES ASSUME NEW r \in Requests, IsOpen(r)', Limited(req[r].field)'
               PROVE  Room(req[r])' <= Limit(req[r].field)'
    BY DEF RoomLeft
  <2>1. GoesOn(r)
    OBVIOUS
  <2>2. Room(req[r]) <= Limit(req[r].field) /\ TypeOK
    BY <2>1 DEF IInv, RoomLeft, GoesOn, Limited
  <2>3. /\ req[r].todo \in 0 .. MaxBanners
        /\ req[r].snap \subseteq Entries /\ req[r].new \subseteq Entries
    BY <2>1, <2>2, OpenFields DEF GoesOn
  <2>4. PICK a \in Nat, b \in Nat :
          a = Cardinality(req[r].snap \ req[r].drop) /\ b = Cardinality(req[r].new)
    BY <2>3, EntriesFinite
  <2>5. Limit(req[r].field) \in Nat
    BY LimitIsNat
  <2>6. a + req[r].todo + b <= Limit(req[r].field)
    BY <2>2, <2>4 DEF Room
  <2>7. a + req'[r].todo + b <= Limit(req[r].field)
    <3>1. req'[r].todo \in Int /\ req'[r].todo <= req[r].todo /\ req[r].todo \in Int
      BY <2>1, <2>3 DEF GoesOn
    <3> QED
      BY <3>1, <2>4, <2>5, <2>6
  <2>8. /\ a = Cardinality(req'[r].snap \ req'[r].drop) /\ b = Cardinality(req'[r].new)
        /\ req'[r].field = req[r].field
    BY <2>1, <2>4 DEF GoesOn
  <2> QED
    BY <2>7, <2>8 DEF Room, Limit
<1>4. Numbered'
  BY DEF IInv, Numbered, Old, GoesOn
<1>5. FilesApart'
  BY DEF IInv, FilesApart, Apart, Once, GoesOn
<1> QED
  BY <1>1, <1>2, <1>3, <1>4, <1>5

-----------------------------------------------------------------------------
(* The beginning of a request. *)

LEMMA BeginKeeps ==
  ASSUME IInv, NEW r \in Requests, NEW x \in Fields, NEW gone, NEW drop,
         NEW n \in 0 .. MaxBanners, NEW strict \in BOOLEAN,
         Begin(r, x, gone, drop, n, strict),
         gone \subseteq FilesOf(drop), drop \subseteq row[x],
         Limited(x) => Cardinality(row[x] \ drop) + n <= Limit(x)
  PROVE  IInv'
<1>0. row[x] \subseteq Entries /\ gone \subseteq AllFiles /\ drop \subseteq Entries
  BY DEF IInv, TypeOK, FilesOf, Entries
<1>1. PICK new : new = [at |-> "open", field |-> x, snap |-> row[x], gone |-> gone,
                        drop |-> drop, todo |-> n, strict |-> strict,
                        new |-> {}, stale |-> FALSE]
  OBVIOUS
<1>2. new \in Open
  BY <1>0, <1>1 DEF Open
<1>3. /\ new.field = x /\ new.snap = row[x] /\ new.gone = gone /\ new.drop = drop
      /\ new.todo = n /\ new.new = {} /\ ~new.stale
  BY <1>1
<1>4. /\ req[r] = Idle /\ req' = [req EXCEPT ![r] = new]
      /\ row' = row /\ bucket' = bucket /\ uploads' = uploads /\ disturbed' = disturbed
      /\ oversized' = oversized /\ relisted' = relisted
  BY <1>1 DEF Begin, patches
<1>5. /\ req' \in [Requests -> Open \cup {Idle}] /\ req'[r] = new
      /\ \A q \in Requests : q # r => req'[q] = req[q]
  BY <1>2, <1>4 DEF IInv, TypeOK
<1>6. \A q \in Requests : q # r => (IsOpen(q)' => IsOpen(q)) /\ (IsOpen(q) => IsOpen(q)')
  BY <1>5 DEF IsOpen
<1>7. TypeOK'
  BY <1>4, <1>5 DEF IInv, TypeOK
<1>8. RowsFit'
  BY <1>4 DEF IInv, RowsFit, Limit, Limited
<1>9. Begun'
  BY <1>3, <1>4, <1>5, <1>6 DEF IInv, Begun
<1>10. RoomLeft'
  <2>1. Limited(x) => Room(new) <= Limit(x)
    <3>1. Cardinality(row[x] \ drop) \in Nat
      BY <1>0, EntriesFinite
    <3>2. Cardinality({}) = 0
      BY FS_EmptySet
    <3> QED
      BY <1>3, <3>1, <3>2 DEF Room
  <2>2. \A q \in Requests : q # r /\ IsOpen(q)' /\ Limited(req'[q].field)
          => Room(req'[q]) <= Limit(req'[q].field)
    BY <1>5, <1>6 DEF IInv, RoomLeft
  <2>3. \A q \in Requests : IsOpen(q)' /\ Limited(req'[q].field)
          => Room(req'[q]) <= Limit(req'[q].field)
    BY <1>3, <1>5, <2>1, <2>2
  <2> QED
    BY <1>4, <2>3 DEF RoomLeft, Room, Limit, Limited
<1>11. Numbered'
  BY <1>3, <1>4, <1>5, <1>6 DEF IInv, Numbered, Old
<1>12. FilesApart'
  <2>1. FilesApart
    BY DEF IInv
  <2>2. \A y, z \in Fields : Once(row[y])' /\ (y # z => Apart(row[y], row[z])')
    BY <1>4, <2>1 DEF FilesApart, Apart, Once
  <2>3. ASSUME NEW q \in Requests, IsOpen(q)'
        PROVE  /\ Once(req[q].snap)' /\ Once(req[q].new)'
               /\ \A y \in Fields : y # req'[q].field => Apart(req[q].snap, row[y])'
               /\ \A y \in Fields : Apart(req[q].new, row[y])'
    BY <1>3, <1>4, <1>5, <1>6, <2>1, <2>3 DEF FilesApart, Apart, Once
  <2>4. ASSUME NEW p \in Requests, IsOpen(p)', NEW q \in Requests, IsOpen(q)'
        PROVE  /\ req'[q].field # req'[p].field => Apart(req[p].snap, req[q].snap)'
               /\ Apart(req[p].new, req[q].snap)'
               /\ q # p => Apart(req[p].new, req[q].new)'
    <3>1. CASE p = r /\ q = r
      BY <1>3, <1>5, <3>1 DEF Apart
    <3>2. CASE p = r /\ q # r
      <4>1. IsOpen(q) /\ req'[q] = req[q]
        BY <1>5, <1>6, <2>4, <3>2
      <4>2. req[q].field # x => Apart(req[q].snap, row[x])
        BY <2>1, <4>1 DEF FilesApart
      <4> QED
        BY <1>3, <1>4, <1>5, <3>2, <4>1, <4>2 DEF Apart
    <3>3. CASE p # r /\ q = r
      <4>1. IsOpen(p) /\ req'[p] = req[p]
        BY <1>5, <1>6, <2>4, <3>3
      <4>2. /\ req[p].field # x => Apart(req[p].snap, row[x])
            /\ Apart(req[p].new, row[x])
        BY <2>1, <4>1 DEF FilesApart
      <4> QED
        BY <1>3, <1>4, <1>5, <3>3, <4>1, <4>2 DEF Apart
    <3>4. CASE p # r /\ q # r
      BY <1>4, <1>5, <1>6, <2>1, <2>4, <3>4 DEF FilesApart, Apart
    <3> QED
      BY <3>1, <3>2, <3>3, <3>4
  <2> QED
    BY <2>2, <2>3, <2>4 DEF FilesApart
<1>13. NewServed'
  BY <1>3, <1>4, <1>5, <1>6 DEF IInv, NewServed
<1>14. ImagesServed'
  <2>1. ~IsOpen(r)
    BY <1>4 DEF IsOpen, Idle
  <2>2. ASSUME NEW y \in Fields \ disturbed,
               NEW f \in FilesOf(row[y]) \ (bucket \cup relisted)
        PROVE  \E q \in Requests : IsOpen(q)' /\ req'[q].field = y /\ f \in FilesOf(req'[q].drop)
    BY <1>5, <1>6, <2>1 DEF IInv, ImagesServed
  <2> QED
    BY <1>4, <2>2 DEF ImagesServed, FilesOf
<1> QED
  BY <1>7, <1>8, <1>9, <1>10, <1>11, <1>12, <1>13, <1>14 DEF IInv

(* Taking something out of a field leaves it within its limit. *)
LEMMA LessFits ==
  ASSUME IInv, NEW x \in Fields, NEW drop
  PROVE  Limited(x) => Cardinality(row[x] \ drop) + 0 <= Limit(x)
<1> SUFFICES ASSUME Limited(x) PROVE Cardinality(row[x] \ drop) + 0 <= Limit(x)
  OBVIOUS
<1>1. row[x] \subseteq Entries /\ Cardinality(row[x]) <= Limit(x)
  BY DEF IInv, TypeOK, RowsFit
<1>2. row[x] \ drop \in SUBSET row[x]
  OBVIOUS
<1>3. Cardinality(row[x] \ drop) <= Cardinality(row[x])
  BY <1>1, <1>2, EntriesFinite, FS_Subset
<1>4. Cardinality(row[x]) \in Nat /\ Cardinality(row[x] \ drop) \in Nat
  BY <1>1, EntriesFinite
<1>5. Limit(x) \in Nat
  BY LimitIsNat
<1> QED
  BY <1>1, <1>3, <1>4, <1>5

LEMMA BeginsKeep ==
  ASSUME IInv, NEW r \in Requests, BeginSome(r)
  PROVE  IInv'
<1>0. /\ 0 \in 0 .. MaxBanners /\ 1 \in 0 .. MaxBanners
      /\ \A n \in 1 .. MaxBanners : n \in 0 .. MaxBanners
      /\ "banners" \in Fields /\ "offer" \in Fields
  BY BannersAssumption DEF Fields
<1>1. ASSUME NEW n \in 0 .. MaxBanners, Slots(n), NEW strict \in BOOLEAN,
             Begin(r, "banners", {}, {}, n, strict)
      PROVE  IInv'
  <2>1. row["banners"] \ {} = row["banners"]
    OBVIOUS
  <2>2. Cardinality(row["banners"] \ {}) + n <= Limit("banners")
    BY <1>1, <2>1 DEF Slots, Limit
  <2>3. {} \subseteq FilesOf({}) /\ {} \subseteq row["banners"]
    OBVIOUS
  <2> QED
    BY <1>0, <1>1, <2>2, <2>3, BeginKeeps
<1>2. AddBanner(r) => IInv'
  BY <1>0, <1>1 DEF AddBanner
<1>3. AddMultipleBanners(r) => IInv'
  BY <1>0, <1>1 DEF AddMultipleBanners
<1>4. ASSUME NEW x \in Fields, NEW gone, NEW drop,
             Begin(r, x, gone, drop, 0, TRUE),
             gone \subseteq FilesOf(drop), drop \subseteq row[x]
      PROVE  IInv'
  BY <1>0, <1>4, LessFits, BeginKeeps
<1>5. RemoveBanner(r) => IInv'
  <2> SUFFICES ASSUME NEW e \in row["banners"], Begin(r, "banners", {e[1]}, {e}, 0, TRUE)
               PROVE  IInv'
    BY DEF RemoveBanner
  <2>1. PICK gone, drop : gone = {e[1]} /\ drop = {e}
    OBVIOUS
  <2>2. gone \subseteq FilesOf(drop) /\ drop \subseteq row["banners"]
    BY <2>1 DEF FilesOf
  <2>3. Begin(r, "banners", gone, drop, 0, TRUE)
    BY <2>1
  <2> QED
    BY <1>0, <1>4, <2>2, <2>3
<1>6. RemoveMultipleBanners(r) => IInv'
  <2> SUFFICES ASSUME NEW drop \in SUBSET row["banners"], NEW named \in SUBSET drop \ {{}},
                      Begin(r, "banners", FilesOf(named), drop, 0, TRUE)
               PROVE  IInv'
    BY DEF RemoveMultipleBanners
  <2>1. FilesOf(named) \subseteq FilesOf(drop) /\ drop \subseteq row["banners"]
    BY DEF FilesOf
  <2> QED
    BY <1>0, <1>4, <2>1
<1>7. UploadOfferBanner(r) => IInv'
  <2> SUFFICES ASSUME Begin(r, "offer", FilesOf(row["offer"]), row["offer"], 1, TRUE) PROVE IInv'
    BY DEF UploadOfferBanner
  <2>1. row["offer"] \ row["offer"] = {}
    OBVIOUS
  <2>2. Cardinality(row["offer"] \ row["offer"]) + 1 <= Limit("offer")
    BY <2>1, FS_EmptySet DEF Limit
  <2> QED
    BY <1>0, <2>2, BeginKeeps
<1>8. RemoveOfferBanner(r) => IInv'
  BY <1>0, <1>4 DEF RemoveOfferBanner
<1> QED
  BY <1>2, <1>3, <1>5, <1>6, <1>7, <1>8 DEF BeginSome

-----------------------------------------------------------------------------
(* The steps of a request. *)

LEMMA DeleteFileKeeps ==
  ASSUME IInv, NEW r \in Requests, DeleteFile(r)
  PROVE  IInv'
<1>0. IsOpen(r) /\ TypeOK
  BY DEF DeleteFile, IInv
<1>1. PICK f \in req[r].gone :
        bucket' \in {bucket, bucket \ {f}} /\ req' = [req EXCEPT ![r].gone = @ \ {f}]
  BY DEF DeleteFile
<1>2. /\ row' = row /\ uploads' = uploads /\ disturbed' = disturbed
      /\ oversized' = oversized /\ relisted' = relisted
  BY DEF DeleteFile, patches
<1>3. PICK new : new = [req[r] EXCEPT !.gone = @ \ {f}]
  OBVIOUS
<1>4. /\ new \in Open /\ new.field = req[r].field /\ new.snap = req[r].snap
      /\ new.drop = req[r].drop /\ new.new = req[r].new /\ new.gone = req[r].gone \ {f}
      /\ new.todo = req[r].todo /\ new.stale = req[r].stale
  BY <1>0, <1>3, OpenIsRecord DEF Open
<1>5. /\ req' \in [Requests -> Open \cup {Idle}] /\ req'[r] = new
      /\ \A q \in Requests : q # r => req'[q] = req[q]
  BY <1>0, <1>1, <1>3, <1>4 DEF TypeOK
<1>6. req[r].todo \in Int /\ req[r].todo <= req[r].todo
  <2>1. req[r].todo \in 0 .. MaxBanners
    BY <1>0, OpenFields
  <2> QED
    BY <2>1
<1>7. GoesOn(r)
  BY <1>0, <1>4, <1>5, <1>6 DEF GoesOn
<1>8. \A q \in Requests : IsOpen(q)' => GoesOn(q)
  BY <1>0, <1>5, <1>7, SameGoesOn
<1>9. RowsFit' /\ Begun' /\ RoomLeft' /\ Numbered' /\ FilesApart'
  BY <1>2, <1>8, RequestsGoOn
<1>10. TypeOK'
  BY <1>0, <1>1, <1>2, <1>5 DEF TypeOK
<1>11. PICK e \in req[r].drop : e \in req[r].snap /\ e[1] = f
  <2>1. f \in FilesOf(req[r].drop) /\ req[r].drop \subseteq req[r].snap
    BY <1>0 DEF IInv, Begun
  <2> QED
    BY <2>1 DEF FilesOf
<1>12. NewServed'
  <2>1. ASSUME NEW q \in Requests, IsOpen(q), NEW n \in req[q].new, n[1] = f
        PROVE  f \in relisted
    <3>1. Apart(req[q].new, req[r].snap)
      BY <1>0, <2>1 DEF IInv, FilesApart
    <3> QED
      BY <1>11, <2>1, <3>1 DEF Apart
  <2>2. \A q \in Requests : IsOpen(q)' => IsOpen(q) /\ req'[q].new = req[q].new
    BY <1>8 DEF GoesOn
  <2> QED
    BY <1>1, <1>2, <2>1, <2>2 DEF IInv, NewServed
<1>13. ImagesServed'
  <2>1. \A q \in Requests : IsOpen(q) =>
          IsOpen(q)' /\ req'[q].field = req[q].field /\ req'[q].drop = req[q].drop
    <3>1. IsOpen(r)'
      BY <1>4, <1>5 DEF IsOpen, Open
    <3> QED
      BY <1>4, <1>5, <3>1 DEF IsOpen
  <2>2. ASSUME NEW y \in Fields \ disturbed,
               NEW g \in FilesOf(row[y]) \ (bucket' \cup relisted)
        PROVE  \E q \in Requests : IsOpen(q) /\ req[q].field = y /\ g \in FilesOf(req[q].drop)
    <3>1. g \notin bucket \/ g = f
      BY <1>1, <2>2
    <3>2. g \notin bucket =>
            \E q \in Requests : IsOpen(q) /\ req[q].field = y /\ g \in FilesOf(req[q].drop)
      BY <2>2 DEF IInv, ImagesServed
    <3>3. ASSUME g = f
          PROVE  req[r].field = y /\ g \in FilesOf(req[r].drop)
      <4>1. y # req[r].field => Apart(req[r].snap, row[y])
        BY <1>0 DEF IInv, FilesApart
      <4>2. PICK d \in row[y] : d[1] = f
        BY <2>2, <3>3 DEF FilesOf
      <4> QED
        BY <1>11, <2>2, <3>3, <4>1, <4>2 DEF Apart, FilesOf
    <3> QED
      BY <1>0, <3>1, <3>2, <3>3
  <2> QED
    BY <1>2, <2>1, <2>2 DEF ImagesServed, FilesOf
<1> QED
  BY <1>9, <1>10, <1>12, <1>13 DEF IInv

LEMMA UploadFileKeeps ==
  ASSUME IInv, NEW r \in Requests, UploadFile(r)
  PROVE  IInv'
<1>0. IsOpen(r) /\ TypeOK /\ FilesApart /\ req[r].todo > 0
  BY DEF UploadFile, Uploading, IInv
<1>1. PICK u, e : u = uploads + 1 /\ e = <<u, 1>>
  OBVIOUS
<1>2. /\ uploads < MaxFiles /\ uploads' = u /\ bucket' = bucket \cup {u}
      /\ row' = row /\ disturbed' = disturbed
      /\ oversized' = oversized /\ relisted' = relisted
  BY <1>1 DEF UploadFile, patches
<1>3. req' = [req EXCEPT ![r].todo = @ - 1, ![r].new = @ \cup {e}]
  BY <1>1, <1>2 DEF UploadFile
<1>4. uploads \in 0 .. MaxFiles /\ MaxFiles \in Nat /\ 1 \in 1 .. MaxCopies
  BY <1>0, BannersAssumption DEF TypeOK
<1>5. /\ u \in Files /\ u \in 0 .. MaxFiles /\ u \in 0 .. u /\ u \notin 0 .. uploads
      /\ e \in Entries /\ e[1] = u /\ e[2] = 1
  BY <1>1, <1>2, <1>4 DEF Files, Entries, AllFiles
<1>6. \A i \in 0 .. uploads : i \in 0 .. u
  BY <1>1, <1>4
<1>7. PICK new : new = [req[r] EXCEPT !.todo = @ - 1, !.new = @ \cup {e}]
  OBVIOUS
<1>8. /\ req[r] \in Open /\ req[r].todo \in 0 .. MaxBanners
      /\ req[r].new \subseteq Entries /\ req[r].snap \subseteq Entries
  BY <1>0, OpenFields
<1>9. req[r].todo - 1 \in 0 .. MaxBanners
  BY <1>0, <1>8, BannersAssumption
<1>10. /\ new \in Open /\ new.field = req[r].field /\ new.snap = req[r].snap
       /\ new.drop = req[r].drop /\ new.new = req[r].new \cup {e} /\ new.gone = req[r].gone
       /\ new.todo = req[r].todo - 1 /\ new.stale = req[r].stale
  BY <1>5, <1>7, <1>8, <1>9 DEF Open
<1>11. /\ req' \in [Requests -> Open \cup {Idle}] /\ req'[r] = new
       /\ \A q \in Requests : q # r => req'[q] = req[q]
  BY <1>0, <1>3, <1>7, <1>10 DEF TypeOK
<1>12. \A q \in Requests : (IsOpen(q)' => IsOpen(q)) /\ (IsOpen(q) => IsOpen(q)')
  <2>1. IsOpen(r)'
    BY <1>10, <1>11 DEF IsOpen, Open
  <2> QED
    BY <1>0, <1>11, <2>1 DEF IsOpen
<1>13. TypeOK'
  BY <1>0, <1>2, <1>5, <1>11 DEF TypeOK
<1>14. RowsFit'
  BY <1>2 DEF IInv, RowsFit, Limit, Limited
<1>15. Begun'
  BY <1>2, <1>10, <1>11, <1>12 DEF IInv, Begun
<1>16. RoomLeft'
  <2>1. PICK a \in Nat, b \in Nat :
          a = Cardinality(req[r].snap \ req[r].drop) /\ b = Cardinality(req[r].new)
    BY <1>8, EntriesFinite
  <2>2. Cardinality(req[r].new \cup {e}) \in Nat /\ Cardinality(req[r].new \cup {e}) <= b + 1
    <3>1. PICK S : S = req[r].new /\ IsFiniteSet(S)
      BY <1>8, EntriesFinite
    <3>2. Cardinality(S \cup {e}) = IF e \in S THEN Cardinality(S) ELSE Cardinality(S) + 1
      BY <3>1, FS_AddElement
    <3> QED
      BY <2>1, <3>1, <3>2
  <2>3. Limit(req[r].field) \in Nat
    BY LimitIsNat
  <2>4. ASSUME Limited(req[r].field) PROVE Room(new) <= Limit(new.field)
    <3>1. a + req[r].todo + b <= Limit(req[r].field)
      BY <1>0, <2>1, <2>4 DEF IInv, RoomLeft, Room
    <3>2. a + (req[r].todo - 1) + Cardinality(req[r].new \cup {e}) <= Limit(req[r].field)
      BY <1>8, <2>2, <2>3, <3>1
    <3> QED
      BY <1>10, <2>1, <3>2 DEF Room
  <2>5. \A q \in Requests : IsOpen(q)' /\ Limited(req'[q].field)
          => Room(req'[q]) <= Limit(req'[q].field)
    BY <1>10, <1>11, <1>12, <2>4 DEF IInv, RoomLeft
  <2> QED
    BY <1>2, <2>5 DEF RoomLeft, Room, Limit, Limited
<1>17. Numbered'
  <2>1. Numbered
    BY DEF IInv
  <2>2. \A x \in Fields : Old(row[x])'
    BY <1>2, <1>6, <2>1 DEF Numbered, Old
  <2>3. \A q \in Requests : IsOpen(q)' => Old(req[q].snap)' /\ Old(req[q].new)'
    BY <1>2, <1>5, <1>6, <1>10, <1>11, <1>12, <2>1 DEF Numbered, Old
  <2> QED
    BY <2>2, <2>3 DEF Numbered
<1>18. FilesApart'
  <2>1. /\ \A x \in Fields : \A d \in row[x] : d[1] # u
        /\ \A q \in Requests : IsOpen(q) =>
             /\ \A d \in req[q].snap : d[1] # u
             /\ \A d \in req[q].new : d[1] # u
    BY <1>5 DEF IInv, Numbered, Old
  <2>2. \A q \in Requests : IsOpen(q)' =>
          /\ IsOpen(q) /\ req'[q].field = req[q].field /\ req'[q].snap = req[q].snap
          /\ req'[q].new = IF q = r THEN req[q].new \cup {e} ELSE req[q].new
    BY <1>10, <1>11, <1>12
  <2>3. ASSUME NEW q \in Requests, IsOpen(q)'
        PROVE  Once(req[q].snap)' /\ Once(req[q].new)'
    <3>1. Once(req[q].snap) /\ Once(req[q].new)
      BY <1>0, <2>2, <2>3 DEF FilesApart
    <3> QED
      BY <1>2, <1>5, <2>2, <2>3, <3>1 DEF Once
  <2>4. ASSUME NEW q \in Requests, IsOpen(q)', NEW y \in Fields
        PROVE  /\ y # req'[q].field => Apart(req[q].snap, row[y])'
               /\ Apart(req[q].new, row[y])'
    <3>1. /\ IsOpen(q) /\ req'[q].field = req[q].field /\ req'[q].snap = req[q].snap
          /\ req'[q].new = req[q].new \/ req'[q].new = req[q].new \cup {e}
      BY <2>2, <2>4
    <3>2. /\ y # req[q].field => Apart(req[q].snap, row[y])
          /\ Apart(req[q].new, row[y])
      BY <1>0, <3>1 DEF FilesApart
    <3>3. \A d \in row[y] : d[1] # e[1]
      BY <1>5, <2>1
    <3> QED
      BY <1>2, <3>1, <3>2, <3>3 DEF Apart
  <2>5. ASSUME NEW p \in Requests, NEW q \in Requests, IsOpen(p)', IsOpen(q)'
        PROVE  /\ req'[q].field # req'[p].field => Apart(req[p].snap, req[q].snap)'
               /\ Apart(req[p].new, req[q].snap)'
               /\ q # p => Apart(req[p].new, req[q].new)'
    <3>1. /\ IsOpen(p) /\ req'[p].field = req[p].field /\ req'[p].snap = req[p].snap
          /\ IsOpen(q) /\ req'[q].field = req[q].field /\ req'[q].snap = req[q].snap
          /\ req'[p].new = IF p = r THEN req[p].new \cup {e} ELSE req[p].new
          /\ req'[q].new = IF q = r THEN req[q].new \cup {e} ELSE req[q].new
      BY <2>2, <2>5
    <3>2. /\ req[q].field # req[p].field => Apart(req[p].snap, req[q].snap)
          /\ Apart(req[p].new, req[q].snap)
          /\ q # p => Apart(req[p].new, req[q].new)
      BY <1>0, <3>1 DEF FilesApart
    <3>3. /\ \A d \in req[q].snap : d[1] # e[1]
          /\ \A d \in req[q].new : d[1] # e[1]
          /\ \A d \in req[p].new : d[1] # e[1]
      BY <1>5, <2>1, <3>1
    <3> QED
      BY <1>2, <3>1, <3>2, <3>3 DEF Apart
  <2>6. \A y, z \in Fields : Once(row[y])' /\ (y # z => Apart(row[y], row[z])')
    BY <1>0, <1>2 DEF FilesApart, Once, Apart
  <2> QED
    BY <2>3, <2>4, <2>5, <2>6 DEF FilesApart
<1>19. NewServed'
  <2>1. ASSUME NEW q \in Requests, IsOpen(q)', NEW d \in req'[q].new
        PROVE  d[1] \in bucket' \cup relisted'
    <3>1. IsOpen(q) /\ (d \in req[q].new \/ d = e)
      BY <1>10, <1>11, <1>12, <2>1
    <3> QED
      BY <1>2, <1>5, <3>1 DEF IInv, NewServed
  <2> QED
    BY <2>1 DEF NewServed
<1>20. ImagesServed'
  <2>1. \A q \in Requests : IsOpen(q) =>
          IsOpen(q)' /\ req'[q].field = req[q].field /\ req'[q].drop = req[q].drop
    BY <1>10, <1>11, <1>12
  <2> QED
    BY <1>2, <2>1 DEF IInv, ImagesServed, FilesOf
<1> QED
  BY <1>13, <1>14, <1>15, <1>16, <1>17, <1>18, <1>19, <1>20 DEF IInv

LEMMA UploadFailsKeeps ==
  ASSUME IInv, NEW r \in Requests, UploadFails(r)
  PROVE  IInv'
<1>0. /\ IsOpen(r) /\ TypeOK /\ req[r].todo > 0
      /\ row' = row /\ bucket' = bucket /\ uploads' = uploads
      /\ oversized' = oversized /\ relisted' = relisted
  BY DEF UploadFails, Uploading, IInv, patches
<1>1. req[r] \in Open /\ req[r].todo \in 0 .. MaxBanners /\ req[r].field \in Fields
  BY <1>0, OpenFields
<1>2. ASSUME req' = [req EXCEPT ![r] = Idle],
             disturbed' = disturbed \cup (IF req[r].drop = {} THEN {} ELSE {req[r].field})
      PROVE  IInv'
  <2>1. /\ req' \in [Requests -> Open \cup {Idle}] /\ ~IsOpen(r)'
        /\ \A q \in Requests : q # r => req'[q] = req[q]
    BY <1>0, <1>2 DEF TypeOK, IsOpen, Idle
  <2>2. \A q \in Requests : IsOpen(q)' => GoesOn(q)
    BY <1>0, <2>1, SameGoesOn
  <2>3. RowsFit' /\ Begun' /\ RoomLeft' /\ Numbered' /\ FilesApart'
    BY <1>0, <2>2, RequestsGoOn
  <2>4. disturbed' \in SUBSET Fields /\ disturbed \subseteq disturbed'
    BY <1>0, <1>1, <1>2 DEF TypeOK
  <2>5. TypeOK'
    BY <1>0, <2>1, <2>4 DEF TypeOK
  <2>6. NewServed'
    BY <1>0, <2>2 DEF IInv, NewServed, GoesOn
  <2>7. ImagesServed'
    <3>1. ASSUME NEW x \in Fields, x \notin disturbed',
                 NEW f \in FilesOf(row[x]) \ (bucket \cup relisted)
          PROVE  \E q \in Requests : IsOpen(q)' /\ req'[q].field = x /\ f \in FilesOf(req'[q].drop)
      <4>1. PICK q \in Requests : IsOpen(q) /\ req[q].field = x /\ f \in FilesOf(req[q].drop)
        BY <2>4, <3>1 DEF IInv, ImagesServed
      <4>2. q # r
        BY <1>2, <3>1, <4>1 DEF FilesOf
      <4> QED
        BY <2>1, <4>1, <4>2 DEF IsOpen
    <3> QED
      BY <1>0, <3>1 DEF ImagesServed, FilesOf
  <2> QED
    BY <2>3, <2>5, <2>6, <2>7 DEF IInv
<1>3. ASSUME req' = [req EXCEPT ![r].todo = @ - 1], disturbed' = disturbed
      PROVE  IInv'
  <2>1. PICK new : new = [req[r] EXCEPT !.todo = @ - 1]
    OBVIOUS
  <2>2. req[r].todo - 1 \in 0 .. MaxBanners /\ req[r].todo - 1 <= req[r].todo
    BY <1>0, <1>1, BannersAssumption
  <2>3. /\ new \in Open /\ new.field = req[r].field /\ new.snap = req[r].snap
        /\ new.drop = req[r].drop /\ new.new = req[r].new /\ new.gone = req[r].gone
        /\ new.todo = req[r].todo - 1 /\ new.stale = req[r].stale
    BY <1>1, <2>1, <2>2 DEF Open
  <2>4. /\ req' \in [Requests -> Open \cup {Idle}] /\ req'[r] = new
        /\ \A q \in Requests : q # r => req'[q] = req[q]
    BY <1>0, <1>3, <2>1, <2>3 DEF TypeOK
  <2>5. new.todo \in Int
    BY <2>2, <2>3
  <2>6. GoesOn(r)
    BY <1>0, <2>2, <2>3, <2>4, <2>5 DEF GoesOn
  <2>7. \A q \in Requests : IsOpen(q)' => GoesOn(q)
    BY <1>0, <2>4, <2>6, SameGoesOn
  <2>8. RowsFit' /\ Begun' /\ RoomLeft' /\ Numbered' /\ FilesApart'
    BY <1>0, <2>7, RequestsGoOn
  <2>9. TypeOK'
    BY <1>0, <1>3, <2>4 DEF TypeOK
  <2>10. NewServed'
    BY <1>0, <2>7 DEF IInv, NewServed, GoesOn
  <2>11. ImagesServed'
    <3>1. IsOpen(r)'
      BY <2>3, <2>4 DEF IsOpen, Open
    <3>2. \A q \in Requests : IsOpen(q) =>
            IsOpen(q)' /\ req'[q].field = req[q].field /\ req'[q].drop = req[q].drop
      BY <2>3, <2>4, <3>1 DEF IsOpen
    <3> QED
      BY <1>0, <1>3, <3>2 DEF IInv, ImagesServed, FilesOf
  <2> QED
    BY <2>8, <2>9, <2>10, <2>11 DEF IInv
<1> QED
  BY <1>2, <1>3 DEF UploadFails

(* Writing a field makes the requests that are open on it stale. *)
LEMMA OutdatedRequests ==
  ASSUME NEW rs \in [Requests -> Open \cup {Idle}], NEW W, NEW q \in Requests,
         NEW o, o = Outdated(rs, W)[q]
  PROVE  /\ rs[q] = Idle => o = Idle
         /\ rs[q] # Idle =>
              /\ o \in Open /\ o # Idle
              /\ o.field = rs[q].field /\ o.snap = rs[q].snap /\ o.drop = rs[q].drop
              /\ o.new = rs[q].new /\ o.gone = rs[q].gone /\ o.todo = rs[q].todo
              /\ ~o.stale => ~rs[q].stale /\ rs[q].field \notin W
<1>1. o = IF rs[q] # Idle /\ rs[q].field \in W THEN [rs[q] EXCEPT !.stale = TRUE] ELSE rs[q]
  BY DEF Outdated
<1>2. rs[q] = Idle => o = Idle
  BY <1>1
<1>3. ASSUME NEW y \in Open, NEW n, n = [y EXCEPT !.stale = TRUE]
      PROVE  /\ n \in Open /\ n.field = y.field /\ n.snap = y.snap /\ n.drop = y.drop
             /\ n.new = y.new /\ n.gone = y.gone /\ n.todo = y.todo /\ n.stale
  BY <1>3 DEF Open
<1>4. \A y \in Open : y # Idle
  BY DEF Open, Idle
<1>5. ASSUME rs[q] # Idle
      PROVE  /\ o \in Open
             /\ o.field = rs[q].field /\ o.snap = rs[q].snap /\ o.drop = rs[q].drop
             /\ o.new = rs[q].new /\ o.gone = rs[q].gone /\ o.todo = rs[q].todo
             /\ ~o.stale => ~rs[q].stale /\ rs[q].field \notin W
  <2>1. rs[q] \in Open
    BY <1>5
  <2>2. PICK n : n = [rs[q] EXCEPT !.stale = TRUE]
    OBVIOUS
  <2>3. (o = rs[q] /\ rs[q].field \notin W) \/ o = n
    BY <1>1, <1>5, <2>2
  <2> QED
    BY <1>3, <2>1, <2>2, <2>3
<1> QED
  BY <1>2, <1>4, <1>5

(* The requests after rs have been outdated. *)
LEMMA OutdatedType ==
  ASSUME NEW rs \in [Requests -> Open \cup {Idle}], NEW W
  PROVE  Outdated(rs, W) \in [Requests -> Open \cup {Idle}]
<1>1. ASSUME NEW q \in Requests PROVE Outdated(rs, W)[q] \in Open \cup {Idle}
  BY OutdatedRequests
<1> QED
  BY <1>1 DEF Outdated

LEMMA SaveKeeps ==
  ASSUME IInv, NEW r \in Requests, Save(r)
  PROVE  IInv'
<1>0. /\ IsOpen(r) /\ TypeOK /\ FilesApart /\ bucket' = bucket /\ uploads' = uploads
      /\ oversized' = oversized /\ relisted' = relisted
  BY DEF Save, IInv, patches
<1>1. PICK x \in Fields : x = req[r].field
  BY <1>0, OpenFields
<1>2. PICK W : W = (req[r].snap \ req[r].drop) \cup req[r].new
  OBVIOUS
<1>3. /\ req[r] \in Open /\ req[r].snap \subseteq Entries /\ req[r].new \subseteq Entries
      /\ W \subseteq Entries
  BY <1>0, <1>2, OpenFields
<1>4. /\ row' \in [Fields -> SUBSET Entries] /\ row'[x] = W
      /\ \A y \in Fields : y # x => row'[y] = row[y]
  BY <1>0, <1>1, <1>2, <1>3 DEF Save, Written, TypeOK
<1>5. /\ disturbed' \in SUBSET Fields /\ disturbed \subseteq disturbed'
      /\ x \notin disturbed' => ~req[r].stale
  BY <1>0, <1>1 DEF Save, TypeOK
<1>6. PICK rs : rs = [req EXCEPT ![r] = Idle]
  OBVIOUS
<1>7. /\ rs \in [Requests -> Open \cup {Idle}] /\ rs[r] = Idle
      /\ \A q \in Requests : q # r => rs[q] = req[q]
      /\ req' = Outdated(rs, {x})
  BY <1>0, <1>1, <1>6 DEF Save, TypeOK
<1>8. req' \in [Requests -> Open \cup {Idle}]
  BY <1>7, OutdatedType
<1>9. ASSUME NEW q \in Requests, IsOpen(q)'
      PROVE  /\ q # r /\ IsOpen(q)
             /\ req'[q].field = req[q].field /\ req'[q].snap = req[q].snap
             /\ req'[q].drop = req[q].drop /\ req'[q].new = req[q].new
             /\ req'[q].gone = req[q].gone /\ req'[q].todo = req[q].todo
             /\ ~req'[q].stale => ~req[q].stale /\ req[q].field # x
  <2>1. req'[q] # Idle
    BY <1>9 DEF IsOpen, Idle
  <2>2. rs[q] # Idle
    BY <1>7, <2>1, OutdatedRequests
  <2>3. q # r /\ rs[q] = req[q] /\ IsOpen(q)
    BY <1>0, <1>7, <2>2, OpenIsRecord
  <2> QED
    BY <1>7, <2>2, <2>3, OutdatedRequests
<1>10. \A q \in Requests : q # r /\ IsOpen(q) =>
         IsOpen(q)' /\ req'[q].field = req[q].field /\ req'[q].drop = req[q].drop
  <2>1. ASSUME NEW q \in Requests, q # r, IsOpen(q) PROVE IsOpen(q)'
    <3>1. rs[q] = req[q] /\ rs[q] # Idle
      BY <1>7, <2>1 DEF IsOpen, Idle
    <3>2. req'[q] \in Open
      BY <1>7, <3>1, OutdatedRequests
    <3> QED
      BY <3>2 DEF IsOpen, Open
  <2> QED
    BY <1>9, <2>1
<1>11. TypeOK'
  BY <1>0, <1>4, <1>5, <1>8 DEF TypeOK
<1>12. RowsFit'
  <2>1. ASSUME Limited(x) PROVE Cardinality(W) <= Limit(x)
    <3>1. req[r].snap \ req[r].drop \subseteq Entries
      BY <1>3
    <3>2. PICK S, T : S = req[r].snap \ req[r].drop /\ T = req[r].new
      OBVIOUS
    <3>3. /\ IsFiniteSet(S) /\ IsFiniteSet(T) /\ IsFiniteSet(S \cap T)
      BY <1>3, <3>1, <3>2, EntriesFinite, FS_Intersection
    <3>4. Cardinality(S \cup T) = Cardinality(S) + Cardinality(T) - Cardinality(S \cap T)
      BY <3>3, FS_Union
    <3>5. /\ Cardinality(S) \in Nat /\ Cardinality(T) \in Nat /\ Cardinality(S \cap T) \in Nat
      BY <3>3, FS_CardinalityType
    <3>6. Cardinality(S) + req[r].todo + Cardinality(T) <= Limit(x) /\ req[r].todo = 0
      BY <1>0, <1>1, <2>1, <3>2 DEF IInv, RoomLeft, Room, Save
    <3>7. Limit(x) \in Nat
      BY LimitIsNat
    <3>8. Cardinality(S \cup T) <= Limit(x)
      BY <3>4, <3>5, <3>6, <3>7
    <3> QED
      BY <1>2, <3>2, <3>8
  <2>2. \A y \in Fields : Limited(y) => Cardinality(row'[y]) <= Limit(y)
    BY <1>4, <2>1 DEF IInv, RowsFit
  <2> QED
    BY <1>0, <2>2 DEF RowsFit, Limit, Limited
<1>13. Begun'
  <2>1. \A q \in Requests : IsOpen(q)' =>
          req'[q].gone \subseteq FilesOf(req'[q].drop) /\ req'[q].drop \subseteq req'[q].snap
    BY <1>9 DEF IInv, Begun
  <2>2. ASSUME NEW q \in Requests, IsOpen(q)', ~req'[q].stale
        PROVE  req'[q].snap = row'[req'[q].field]
    <3>1. /\ IsOpen(q) /\ ~req[q].stale /\ req[q].field # x
          /\ req'[q].field = req[q].field /\ req'[q].snap = req[q].snap
      BY <1>9, <2>2
    <3>2. req[q].field \in Fields
      BY <1>0, <3>1, OpenFields
    <3> QED
      BY <1>4, <3>1, <3>2 DEF IInv, Begun
  <2> QED
    BY <2>1, <2>2 DEF Begun, FilesOf
<1>14. RoomLeft'
  <2>1. \A q \in Requests : IsOpen(q)' =>
          Room(req'[q]) = Room(req[q]) /\ req'[q].field = req[q].field /\ IsOpen(q)
    BY <1>9 DEF Room
  <2>2. \A q \in Requests : IsOpen(q)' /\ Limited(req'[q].field)
          => Room(req'[q]) <= Limit(req'[q].field)
    BY <2>1 DEF IInv, RoomLeft
  <2> QED
    BY <1>0, <2>2 DEF RoomLeft, Room, Limit, Limited
<1>15. Numbered'
  <2>1. Old(W)
    BY <1>0, <1>2 DEF IInv, Numbered, Old
  <2> QED
    BY <1>0, <1>4, <1>9, <2>1 DEF IInv, Numbered, Old
<1>16. FilesApart'
  <2>1. Once(W)
    BY <1>0, <1>2 DEF FilesApart, Once
  <2>2. ASSUME NEW y \in Fields, y # x
        PROVE  Apart(W, row[y]) /\ Apart(row[y], W)
    <3>1. Apart(req[r].snap, row[y]) /\ Apart(req[r].new, row[y])
      BY <1>0, <1>1, <2>2 DEF FilesApart
    <3> QED
      BY <1>2, <3>1 DEF Apart
  <2>3. ASSUME NEW q \in Requests, q # r, IsOpen(q)
        PROVE  /\ req[q].field # x => Apart(req[q].snap, W)
               /\ Apart(req[q].new, W)
    <3>1. /\ req[q].field # x => Apart(req[q].snap, req[r].snap)
          /\ Apart(req[r].new, req[q].snap)
          /\ Apart(req[q].new, req[r].snap) /\ Apart(req[q].new, req[r].new)
      BY <1>0, <1>1, <2>3 DEF FilesApart
    <3> QED
      BY <1>2, <3>1 DEF Apart
  <2>4. \A y, z \in Fields : Once(row'[y]) /\ (y # z => Apart(row'[y], row'[z]))
    BY <1>0, <1>4, <2>1, <2>2 DEF FilesApart
  <2>5. ASSUME NEW q \in Requests, IsOpen(q)'
        PROVE  /\ Once(req'[q].snap) /\ Once(req'[q].new)
               /\ \A y \in Fields : y # req'[q].field => Apart(req'[q].snap, row'[y])
               /\ \A y \in Fields : Apart(req'[q].new, row'[y])
    <3>1. /\ q # r /\ IsOpen(q) /\ req'[q].field = req[q].field
          /\ req'[q].snap = req[q].snap /\ req'[q].new = req[q].new
      BY <1>9, <2>5
    <3>2. /\ Once(req[q].snap) /\ Once(req[q].new)
          /\ \A y \in Fields : y # req[q].field => Apart(req[q].snap, row[y])
          /\ \A y \in Fields : Apart(req[q].new, row[y])
      BY <1>0, <3>1 DEF FilesApart
    <3> QED
      BY <1>4, <2>3, <3>1, <3>2
  <2>6. ASSUME NEW p \in Requests, IsOpen(p)', NEW q \in Requests, IsOpen(q)'
        PROVE  /\ req'[q].field # req'[p].field => Apart(req'[p].snap, req'[q].snap)
               /\ Apart(req'[p].new, req'[q].snap)
               /\ q # p => Apart(req'[p].new, req'[q].new)
    BY <1>0, <1>9, <2>6 DEF FilesApart
  <2> QED
    BY <1>0, <2>4, <2>5, <2>6 DEF FilesApart, Apart, Once
<1>17. NewServed'
  BY <1>0, <1>9 DEF IInv, NewServed
<1>18. ImagesServed'
  <2>1. ASSUME NEW y \in Fields, y \notin disturbed', NEW e \in row'[y],
               e[1] \notin bucket, e[1] \notin relisted
        PROVE  \E q \in Requests : q # r /\ IsOpen(q) /\ req[q].field = y
                                   /\ e[1] \in FilesOf(req[q].drop)
    <3>1. y = x => e \in req[r].snap \ req[r].drop /\ req[r].snap = row[x]
      <4>1. y = x => req[r].snap = row[x]
        BY <1>0, <1>1, <1>5, <2>1 DEF IInv, Begun
      <4>2. e \notin req[r].new
        BY <1>0, <2>1 DEF IInv, NewServed
      <4> QED
        BY <1>2, <1>4, <2>1, <4>1, <4>2
    <3>2. e \in row[y]
      BY <1>4, <2>1, <3>1
    <3>3. PICK q \in Requests : /\ IsOpen(q) /\ req[q].field = y
                                /\ e[1] \in FilesOf(req[q].drop)
      BY <1>5, <2>1, <3>2 DEF IInv, ImagesServed, FilesOf
    <3>4. ASSUME q = r PROVE FALSE
      <4>1. y = x
        BY <1>1, <3>3, <3>4
      <4>2. PICK d \in req[r].drop : d[1] = e[1]
        BY <3>3, <3>4 DEF FilesOf
      <4>3. d \in req[r].snap /\ d # e
        BY <1>0, <3>1, <4>1, <4>2 DEF IInv, Begun
      <4>4. d[2] = 1 /\ e[2] = 1
        BY <1>0, <2>1, <3>1, <4>1, <4>2, <4>3 DEF FilesApart, Once
      <4>5. d \in Entries /\ e \in Entries
        BY <1>3, <3>1, <4>1, <4>3
      <4> QED
        BY <4>2, <4>3, <4>4, <4>5 DEF Entries
    <3> QED
      BY <3>3, <3>4
  <2>2. ASSUME NEW y \in Fields, y \notin disturbed',
               NEW f \in FilesOf(row'[y]) \ (bucket \cup relisted)
        PROVE  \E q \in Requests : IsOpen(q)' /\ req'[q].field = y /\ f \in FilesOf(req'[q].drop)
    <3>1. PICK e \in row'[y] : e[1] = f
      BY <2>2 DEF FilesOf
    <3>2. PICK q \in Requests : /\ q # r /\ IsOpen(q) /\ req[q].field = y
                                /\ f \in FilesOf(req[q].drop)
      BY <2>1, <2>2, <3>1
    <3> QED
      BY <1>10, <3>2
  <2> QED
    BY <1>0, <2>2 DEF ImagesServed, FilesOf
<1> QED
  BY <1>11, <1>12, <1>13, <1>14, <1>15, <1>16, <1>17, <1>18 DEF IInv

LEMMA UpdateStoreKeeps ==
  ASSUME IInv, NEW new \in [Fields -> Lists \cup {row[x] : x \in Fields}], UpdateStore(new)
  PROVE  IInv'
<1>0. /\ TypeOK /\ FilesApart /\ row' = new /\ bucket' = bucket /\ uploads' = uploads
      /\ disturbed' = disturbed /\ req' = Outdated(req, {x \in Fields : new[x] # row[x]})
      /\ oversized' = (oversized \/ Cardinality(new["banners"]) > MaxBanners)
      /\ relisted' = relisted \cup FilesOf(UNION {new[x] \ row[x] : x \in Fields})
      /\ Cardinality(new["offer"]) <= 1
  BY DEF UpdateStore, IInv
<1>1. \A x \in Fields : row[x] \subseteq Entries /\ new[x] \subseteq Entries
  BY <1>0, BannersAssumption DEF TypeOK
<1>2. \A x \in Fields : \A e \in new[x] : e \in row[x] \/ e[1] \in relisted'
  BY <1>0 DEF FilesOf
<1>3. \A x \in Fields : Old(new[x])
  BY DEF UpdateStore, FilesOf, Old, Fields
<1>4. /\ relisted \subseteq relisted' /\ relisted' \in SUBSET AllFiles
      /\ oversized' \in BOOLEAN /\ (oversized => oversized')
  <2>1. \A e \in Entries : e[1] \in AllFiles
    BY DEF Entries
  <2> QED
    BY <1>0, <1>1, <2>1 DEF TypeOK, FilesOf
<1>5. req' \in [Requests -> Open \cup {Idle}]
  BY <1>0, OutdatedType DEF TypeOK
<1>6. ASSUME NEW q \in Requests
      PROVE  /\ IsOpen(q)' <=> IsOpen(q)
             /\ IsOpen(q) =>
                  /\ req'[q].field = req[q].field /\ req'[q].snap = req[q].snap
                  /\ req'[q].drop = req[q].drop /\ req'[q].new = req[q].new
                  /\ req'[q].gone = req[q].gone /\ req'[q].todo = req[q].todo
                  /\ ~req'[q].stale => ~req[q].stale /\ new[req[q].field] = row[req[q].field]
  <2>1. \A y \in Open : y # Idle /\ y.at = "open" /\ y.field \in Fields
    BY DEF Open, Idle
  <2>2. IsOpen(q) <=> req[q] # Idle
    BY <1>0, <2>1 DEF TypeOK, IsOpen, Idle
  <2>3. IsOpen(q)' <=> req'[q] # Idle
    BY <1>5, <2>1 DEF IsOpen, Idle
  <2>4. PICK o : o = req'[q]
    OBVIOUS
  <2>5. PICK W : W = {x \in Fields : new[x] # row[x]}
    OBVIOUS
  <2>6. o = Outdated(req, W)[q] /\ req \in [Requests -> Open \cup {Idle}]
    BY <1>0, <2>4, <2>5 DEF TypeOK
  <2>7. /\ req[q] = Idle => o = Idle
        /\ req[q] # Idle =>
             /\ o # Idle
             /\ o.field = req[q].field /\ o.snap = req[q].snap /\ o.drop = req[q].drop
             /\ o.new = req[q].new /\ o.gone = req[q].gone /\ o.todo = req[q].todo
             /\ ~o.stale => ~req[q].stale /\ req[q].field \notin W
    BY <2>6, OutdatedRequests
  <2>8. IsOpen(q) /\ req[q].field \notin W => new[req[q].field] = row[req[q].field]
    BY <1>0, <2>1, <2>2, <2>5 DEF TypeOK
  <2> QED
    BY <2>2, <2>3, <2>4, <2>7, <2>8
<1>7. TypeOK'
  BY <1>0, <1>1, <1>4, <1>5 DEF TypeOK
<1>8. RowsFit'
  <2>1. PICK n \in Nat : n = Cardinality(new["banners"])
    BY <1>1, EntriesFinite DEF Fields
  <2>2. ~oversized' => ~(n > MaxBanners)
    BY <1>0, <2>1, Zenon
  <2>3. ~oversized' => Cardinality(new["banners"]) <= MaxBanners
    BY <2>1, <2>2, BannersAssumption
  <2> QED
    BY <1>0, <2>3 DEF RowsFit, Limit, Limited, Fields
<1>9. Begun'
  BY <1>0, <1>6 DEF IInv, Begun, FilesOf
<1>10. RoomLeft'
  <2>1. ASSUME NEW q \in Requests, IsOpen(q)', Limited(req[q].field)'
        PROVE  Room(req[q])' <= Limit(req[q].field)'
    <3>1. IsOpen(q) /\ Limited(req[q].field)
      BY <1>4, <1>6, <2>1 DEF Limited
    <3>2. Room(req[q]) <= Limit(req[q].field)
      BY <3>1 DEF IInv, RoomLeft
    <3> QED
      BY <1>6, <3>1, <3>2 DEF Room, Limit
  <2> QED
    BY <2>1 DEF RoomLeft
<1>11. Numbered'
  BY <1>0, <1>3, <1>6 DEF IInv, Numbered, Old
<1>12. FilesApart'
  <2>1. \A x \in Fields : Once(row[x])'
    BY <1>0, <1>2, <1>4 DEF FilesApart, Once
  <2>2. \A x, y \in Fields : x # y => Apart(row[x], row[y])'
    <3> SUFFICES ASSUME NEW x \in Fields, NEW y \in Fields, x # y,
                        NEW e \in new[x], NEW f \in new[y], e[1] = f[1]
                 PROVE  e[1] \in relisted'
      BY <1>0 DEF Apart
    <3>1. e \in row[x] /\ f \in row[y] => e[1] \in relisted
      BY <1>0 DEF FilesApart, Apart
    <3> QED
      BY <1>2, <1>4, <3>1
  <2>3. ASSUME NEW q \in Requests, IsOpen(q)'
        PROVE  /\ Once(req[q].snap)' /\ Once(req[q].new)'
               /\ \A x \in Fields : x # req'[q].field => Apart(req[q].snap, row[x])'
               /\ \A x \in Fields : Apart(req[q].new, row[x])'
    <3>1. /\ IsOpen(q) /\ req'[q].field = req[q].field
          /\ req'[q].snap = req[q].snap /\ req'[q].new = req[q].new
      BY <1>6, <2>3
    <3>2. /\ Once(req[q].snap) /\ Once(req[q].new)
          /\ \A x \in Fields : x # req[q].field => Apart(req[q].snap, row[x])
          /\ \A x \in Fields : Apart(req[q].new, row[x])
      BY <1>0, <3>1 DEF FilesApart
    <3>3. ASSUME NEW S, NEW x \in Fields, Apart(S, row[x])
          PROVE  \A e \in S, f \in row'[x] : e[1] = f[1] => e[1] \in relisted'
      BY <1>0, <1>2, <1>4, <3>3 DEF Apart
    <3>4. Once(req[q].snap)' /\ Once(req[q].new)'
      BY <1>4, <3>1, <3>2 DEF Once
    <3>5. ASSUME NEW x \in Fields, x # req'[q].field
          PROVE  Apart(req[q].snap, row[x])'
      BY <3>1, <3>2, <3>3, <3>5 DEF Apart
    <3>6. ASSUME NEW x \in Fields
          PROVE  Apart(req[q].new, row[x])'
      BY <3>1, <3>2, <3>3 DEF Apart
    <3> QED
      BY <3>4, <3>5, <3>6
  <2>4. ASSUME NEW p \in Requests, IsOpen(p)', NEW q \in Requests, IsOpen(q)'
        PROVE  /\ req'[q].field # req'[p].field => Apart(req[p].snap, req[q].snap)'
               /\ Apart(req[p].new, req[q].snap)'
               /\ q # p => Apart(req[p].new, req[q].new)'
    <3>1. /\ IsOpen(p) /\ req'[p].field = req[p].field
          /\ req'[p].snap = req[p].snap /\ req'[p].new = req[p].new
          /\ IsOpen(q) /\ req'[q].field = req[q].field
          /\ req'[q].snap = req[q].snap /\ req'[q].new = req[q].new
      BY <1>6, <2>4
    <3>2. /\ req[q].field # req[p].field => Apart(req[p].snap, req[q].snap)
          /\ Apart(req[p].new, req[q].snap)
          /\ q # p => Apart(req[p].new, req[q].new)
      BY <1>0, <3>1 DEF FilesApart
    <3> QED
      BY <1>4, <3>1, <3>2 DEF Apart
  <2> QED
    BY <2>1, <2>2, <2>3, <2>4 DEF FilesApart
<1>13. NewServed'
  BY <1>0, <1>4, <1>6 DEF IInv, NewServed
<1>14. ImagesServed'
  <2>1. ASSUME NEW y \in Fields, y \notin disturbed,
               NEW f \in FilesOf(new[y]) \ (bucket \cup relisted')
        PROVE  \E q \in Requests : IsOpen(q)' /\ req'[q].field = y /\ f \in FilesOf(req'[q].drop)
    <3>1. f \in FilesOf(row[y])
      BY <1>2, <2>1 DEF FilesOf
    <3>2. PICK q \in Requests : IsOpen(q) /\ req[q].field = y /\ f \in FilesOf(req[q].drop)
      BY <1>4, <2>1, <3>1 DEF IInv, ImagesServed
    <3> QED
      BY <1>6, <3>2
  <2> QED
    BY <1>0, <2>1 DEF ImagesServed, FilesOf
<1> QED
  BY <1>7, <1>8, <1>9, <1>10, <1>11, <1>12, <1>13, <1>14 DEF IInv

LEMMA RestartKeeps ==
  ASSUME IInv, Restart
  PROVE  IInv'
<1>1. /\ row' = row /\ bucket' = bucket /\ uploads' = uploads
      /\ oversized' = oversized /\ relisted' = relisted
      /\ req' = [q \in Requests |-> Idle]
      /\ disturbed' = disturbed \cup {req[q].field : q \in {p \in Requests : IsOpen(p)}}
  BY DEF Restart, patches
<1>2. \A q \in Requests : ~IsOpen(q)'
  BY <1>1 DEF IsOpen, Idle
<1>3. RowsFit' /\ Begun' /\ RoomLeft' /\ Numbered' /\ FilesApart'
  BY <1>1, <1>2, RequestsGoOn
<1>4. disturbed' \in SUBSET Fields
  BY <1>1, OpenFields DEF IInv, TypeOK
<1>5. TypeOK'
  BY <1>1, <1>4 DEF IInv, TypeOK
<1>6. NewServed'
  BY <1>2 DEF NewServed
<1>7. ImagesServed'
  <2>1. ASSUME NEW x \in Fields, x \notin disturbed',
               NEW f \in FilesOf(row[x]) \ (bucket \cup relisted)
        PROVE  FALSE
    <3>1. PICK q \in Requests : IsOpen(q) /\ req[q].field = x
      BY <1>1, <2>1 DEF IInv, ImagesServed
    <3> QED
      BY <1>1, <2>1, <3>1
  <2> QED
    BY <1>1, <2>1 DEF ImagesServed, FilesOf
<1> QED
  BY <1>3, <1>5, <1>6, <1>7 DEF IInv

-----------------------------------------------------------------------------
(* The invariant. *)

LEMMA InitInv == Init => IInv
<1> SUFFICES ASSUME Init PROVE IInv
  OBVIOUS
<1>1. /\ uploads \in 0 .. MaxFiles /\ 1 \in 1 .. MaxCopies
      /\ 1 .. uploads \subseteq AllFiles /\ 1 .. uploads \subseteq Files
  BY BannersAssumption DEF Init, AllFiles, Files
<1>2. \A q \in Requests : ~IsOpen(q)
  BY DEF Init, IsOpen, Idle
<1>3. \A x \in Fields : \A e \in row[x] :
        /\ e[1] \in 1 .. uploads /\ e[2] = 1 /\ e = <<e[1], 1>>
        /\ e[1] \in 0 .. uploads /\ e \in Entries
  BY <1>1 DEF Init, Entries
<1>4. TypeOK
  <2>1. row \in [Fields -> SUBSET Entries]
    BY <1>3 DEF Init
  <2>2. bucket \in SUBSET Files /\ disturbed \in SUBSET Fields /\ relisted \in SUBSET AllFiles
    BY <1>1 DEF Init
  <2>3. req \in [Requests -> Open \cup {Idle}] /\ oversized \in BOOLEAN
    BY DEF Init
  <2> QED
    BY <1>1, <2>1, <2>2, <2>3 DEF TypeOK
<1>5. RowsFit
  BY DEF Init, RowsFit, Limit, Limited, Fields
<1>6. Begun /\ RoomLeft /\ NewServed
  BY <1>2 DEF Begun, RoomLeft, NewServed
<1>7. Numbered
  BY <1>2, <1>3 DEF Numbered, Old
<1>8. FilesApart
  <2>1. \A x, y \in Fields : x # y => row[x] \cap row[y] = {}
    BY DEF Init, Fields
  <2>2. \A x, y \in Fields : x # y => Apart(row[x], row[y])
    BY <1>3, <2>1 DEF Apart
  <2> QED
    BY <1>2, <1>3, <2>2 DEF FilesApart, Once
<1>9. ImagesServed
  <2>1. \A x \in Fields : FilesOf(row[x]) \subseteq bucket
    BY <1>3 DEF FilesOf, Init
  <2> QED
    BY <2>1 DEF ImagesServed
<1> QED
  BY <1>4, <1>5, <1>6, <1>7, <1>8, <1>9 DEF IInv

LEMMA StepInv == IInv /\ [Next]_vars => IInv'
<1> SUFFICES ASSUME IInv, [Next]_vars PROVE IInv'
  OBVIOUS
<1>1. ASSUME NEW r \in Requests, BeginSome(r)
      PROVE  IInv'
  BY <1>1, BeginsKeep
<1>2. ASSUME NEW r \in Requests, RequestStep(r)
      PROVE  IInv'
  BY <1>2, DeleteFileKeeps, UploadFileKeeps, UploadFailsKeeps, SaveKeeps DEF RequestStep
<1>3. ASSUME NEW new \in [Fields -> Lists \cup {row[x] : x \in Fields}], UpdateStore(new)
      PROVE  IInv'
  BY <1>3, UpdateStoreKeeps
<1>4. Restart => IInv'
  BY RestartKeeps
<1>5. UNCHANGED vars => IInv'
  BY DEF vars, IInv, TypeOK, RowsFit, Limit, Limited, Begun, RoomLeft, Room, Numbered, Old,
         FilesApart, Apart, Once, NewServed, ImagesServed, FilesOf, IsOpen
<1> QED
  BY <1>1, <1>2, <1>3, <1>4, <1>5 DEF Next

(* What the requests on the banners keep, whatever overlaps and fails.     *)
THEOREM BannersInvariant == Spec => []IInv
<1>1. Init => IInv
  BY InitInv
<1>2. IInv /\ [Next]_vars => IInv'
  BY StepInv
<1> QED
  BY <1>1, <1>2, PTL DEF Spec

(* Every field, file and request of the banners keeps its type.            *)
THEOREM BannersTypeCorrect == Spec => []TypeOK
<1>1. IInv => TypeOK
  BY DEF IInv
<1> QED
  BY <1>1, BannersInvariant, PTL

(* The store shows no more than maxBanners banners and one offer, for any  *)
(* number of overlapping requests that add, remove and replace them, until *)
(* a PATCH lists more banners itself, which nothing forbids.               *)
THEOREM LimitHolds == Spec => []AtMostFive
<1>1. IInv => AtMostFive
  BY DEF IInv, RowsFit, Limit, Limited, Fields, AtMostFive
<1> QED
  BY <1>1, BannersInvariant, PTL

(* A field that no request has disturbed points to files that exist, but   *)
(* for those an open request is taking out and those a PATCH has listed.   *)
THEOREM ImagesAreServed == Spec => []ImagesServed
<1>1. IInv => ImagesServed
  BY DEF IInv
<1> QED
  BY <1>1, BannersInvariant, PTL

(* A banner leaves the row only by a request that takes it out, by one     *)
(* that has read the row before another wrote it, or by a PATCH.           *)
THEOREM BannersKept == Spec => LostOnlyToStaleWrite
<1>1. ASSUME IInv, [Next]_vars, NEW x \in Fields, NEW e \in row[x] \ row'[x]
      PROVE  \/ UpdateStore(row')
             \/ \E r \in Requests : /\ IsOpen(r) /\ ~(IsOpen(r))'
                                    /\ e \in req[r].drop \/ req[r].stale
  <2>1. row' # row
    BY <1>1
  <2>2. CASE \E new \in [Fields -> Lists \cup {row[y] : y \in Fields}] : UpdateStore(new)
    <3>1. PICK new : UpdateStore(new)
      BY <2>2
    <3>2. row' = new
      BY <3>1 DEF UpdateStore
    <3> QED
      BY <3>1, <3>2
  <2>3. CASE \E r \in Requests : Save(r)
    <3>1. PICK r \in Requests : Save(r)
      BY <2>3
    <3>2. IsOpen(r) /\ ~(IsOpen(r))'
      <4>1. PICK rs : rs = [req EXCEPT ![r] = Idle]
        OBVIOUS
      <4>2. rs \in [Requests -> Open \cup {Idle}] /\ rs[r] = Idle
        BY <1>1, <4>1 DEF IInv, TypeOK
      <4>3. req' = Outdated(rs, {req[r].field}) /\ IsOpen(r)
        BY <3>1, <4>1 DEF Save
      <4>4. req'[r] = Idle
        BY <4>2, <4>3, OutdatedRequests
      <4> QED
        BY <4>3, <4>4 DEF IsOpen, Idle
    <3>3. x = req[r].field /\ row'[x] = (req[r].snap \ req[r].drop) \cup req[r].new
      BY <1>1, <3>1 DEF Save, Written, IInv, TypeOK
    <3>4. ~req[r].stale => req[r].snap = row[x]
      BY <1>1, <3>2, <3>3 DEF IInv, Begun
    <3>5. e \in req[r].drop \/ req[r].stale
      BY <1>1, <3>3, <3>4
    <3> QED
      BY <3>2, <3>5
  <2>4. \/ \E r \in Requests : Save(r)
        \/ \E new \in [Fields -> Lists \cup {row[y] : y \in Fields}] : UpdateStore(new)
    BY <1>1, <2>1 DEF Next, vars, BeginSome, AddBanner, AddMultipleBanners, RemoveBanner,
         RemoveMultipleBanners, UploadOfferBanner, RemoveOfferBanner, Begin,
         RequestStep, DeleteFile, UploadFile, UploadFails, Restart
  <2> QED
    BY <2>2, <2>3, <2>4
<1>2. IInv /\ [Next]_vars =>
        [\A x \in Fields : \A e \in row[x] \ row'[x] :
           \/ UpdateStore(row')
           \/ \E r \in Requests : /\ IsOpen(r) /\ ~(IsOpen(r))'
                                  /\ e \in req[r].drop \/ req[r].stale]_vars
  BY <1>1
<1> QED
  BY <1>2, BannersInvariant, PTL DEF Spec, LostOnlyToStaleWrite

-----------------------------------------------------------------------------
(* CatalogImages                                                           *)

(* What a request does at its stage, and the rows it may still write. *)
Fits(q) ==
  /\ q.at = "defaults" => q.op \in {"single", "remove", "cleanup"}
  /\ q.at = "delete" => q.op \in {"single", "settings"}
  /\ q.at \in {"upload", "save"} => q.op \in {"single", "all", "settings"}
  /\ q.at = "list" => q.op \in {"all", "cleanup"}
  /\ q.at \in {"count", "drop"} => q.op = "remove"
  /\ q.at = "sweep" => q.op \in {"all", "cleanup", "remove"}
  /\ q.op \in {"single", "remove"} => q.pkg \in Packages
  /\ q.op = "single" => q.rows \subseteq {q.pkg}
  /\ q.op \in {"settings", "remove", "cleanup"} => q.rows = {}
  /\ q.at \in {"list", "sweep"} => q.rows = {}

(* What a request has in its hands. *)
Holds(q) ==
  /\ Default \notin q.doomed
  /\ q.at = "count" \/ (q.at = "delete" /\ q.op = "single") => Default \in q.spare
  /\ q.op = "all" /\ q.url # NoUrl => q.url.file.folder = "shared"
  /\ q.at = "save" => q.url # NoUrl
  /\ q.op \in {"all", "cleanup"} => \A f \in q.doomed : f.folder = "package"
  /\ q.op = "remove" => \A f \in q.doomed : q.prev # NoUrl /\ f = q.prev.file

(* What a request knows of the images im of the packages, but for those    *)
(* that have got another one since it began.                               *)
Knows(q, im) ==
  \A p \in Packages \ q.fresh :
    /\ q.op = "all" => im[p] = NoUrl \/ p \in q.rows \/ im[p].file.folder = "shared"
    /\ q.op = "cleanup" /\ q.at = "list" => im[p] = NoUrl \/ im[p].file \in q.spare
    /\ q.op = "cleanup" /\ q.at = "sweep" => im[p] = NoUrl \/ im[p].file \notin q.doomed
    /\ q.op = "remove" /\ q.at \in {"drop", "sweep"} /\ q.doomed # {} =>
         p = q.pkg \/ im[p] # q.prev
    /\ q.op = "remove" /\ q.at = "sweep" /\ p = q.pkg => im[p] = NoUrl

RequestsFit ==
  \A r \in Places : Busy(r) => Fits(request[r]) /\ Holds(request[r]) /\ Knows(request[r], img)

CatalogInv == CatalogTypeOK /\ RequestsFit

-----------------------------------------------------------------------------
(* Files and requests. *)

LEMMA TheFiles ==
  /\ AnyExt \in Exts /\ {Default, Elsewhere} \subseteq CatalogFiles /\ DefaultUrl \in Urls
  /\ Default.folder = "default" /\ DefaultUrl # NoUrl /\ DefaultUrl.file = Default
  /\ \A f \in CatalogFiles : f.folder = "default" => f = Default
<1>1. AnyExt \in Exts
  BY CatalogAssumption DEF AnyExt
<1>2. {Default, Elsewhere} \subseteq CatalogFiles /\ Default.folder = "default"
  BY DEF Default, Elsewhere, CatalogFiles, File
<1>3. DefaultUrl \in Urls /\ DefaultUrl.file = Default
  BY <1>2, CatalogAssumption DEF DefaultUrl, Urls
<1>4. DefaultUrl # NoUrl
  BY <1>3, CatalogAssumption
<1>5. ASSUME NEW f \in CatalogFiles, f # Default
      PROVE  f.folder \in {"other", "card", "shared", "package"}
  BY <1>5 DEF CatalogFiles, File, Elsewhere
<1> QED
  BY <1>1, <1>2, <1>3, <1>4, <1>5

LEMMA TheUrls ==
  ASSUME NEW u \in Urls \cup {NoUrl}
  PROVE  /\ u # NoUrl => u \in Urls /\ u.file \in CatalogFiles
         /\ FileOf(u) = IF u = NoUrl THEN {} ELSE {u.file}
         /\ FileOf(u) \subseteq CatalogFiles
  BY DEF FileOf, Urls

LEMMA NoRequestIsNone == NoRequest \notin Request
  BY DEF NoRequest, Request, Stages

LEMMA OpenIsRequest ==
  ASSUME CatalogTypeOK, NEW r \in Places, NEW s \in Stages, At(r, s)
  PROVE  Busy(r) /\ request[r] \in Request
  BY DEF CatalogTypeOK, At, Busy, NoRequest, Stages

(* A step of one request that leaves the rows alone. *)
LEMMA OneStep ==
  ASSUME CatalogTypeOK, RequestsFit, NEW r \in Places, NEW q,
         q \in Request => Fits(q) /\ Holds(q) /\ Knows(q, img),
         q \in Request \cup {NoRequest},
         request' = [request EXCEPT ![r] = q], img' = img
  PROVE  request' \in [Places -> Request \cup {NoRequest}] /\ RequestsFit'
<1>1. request' \in [Places -> Request \cup {NoRequest}]
  BY DEF CatalogTypeOK
<1>2. ASSUME NEW s \in Places, request'[s] # NoRequest
      PROVE  Fits(request'[s]) /\ Holds(request'[s]) /\ Knows(request'[s], img)
  <2>1. CASE s = r
    BY <1>2, <2>1 DEF CatalogTypeOK
  <2>2. CASE s # r
    <3>1. request'[s] = request[s]
      BY <2>2 DEF CatalogTypeOK
    <3> QED
      BY <1>2, <3>1 DEF RequestsFit, Busy
  <2> QED
    BY <2>1, <2>2
<1>3. RequestsFit'
  BY <1>2 DEF RequestsFit, Busy
<1> QED
  BY <1>1, <1>3

LEMMA InitCatalogInv == CatalogInit => CatalogInv
<1> SUFFICES ASSUME CatalogInit PROVE CatalogInv
  OBVIOUS
<1>1. CatalogTypeOK
  BY TheFiles, CatalogAssumption DEF CatalogInit, CatalogTypeOK
<1>2. RequestsFit
  BY DEF CatalogInit, RequestsFit, Busy
<1> QED
  BY <1>1, <1>2 DEF CatalogInv

-----------------------------------------------------------------------------
(* The beginning of a request. *)

LEMMA StartKeepsCatalogInv ==
  ASSUME CatalogInv, NEW r \in Places, NEW s \in Stages, NEW o \in Ops,
         NEW p \in Packages \cup {NoUrl}, NEW u \in Urls \cup {NoUrl}, NEW e \in Exts,
         Start(r, s, o, p, u, e),
         s \in {"defaults", "upload", "delete"},
         s = "defaults" => o \in {"single", "remove", "cleanup"},
         s = "upload" => o \in {"all", "settings"},
         s = "delete" => o = "settings",
         o \in {"single", "remove"} => p \in Packages
  PROVE  CatalogInv'
<1> DEFINE rows == RowsOf(o, p)
           q == [at |-> s, op |-> o, pkg |-> p, prev |-> u, ext |-> e, spare |-> {},
                 doomed |-> {}, url |-> NoUrl, rows |-> rows, ok |-> TRUE, fresh |-> {}]
<1>1. /\ rows \subseteq Packages
      /\ o = "all" => \A x \in Packages : img[x] = NoUrl \/ x \in rows
      /\ o = "single" => rows \subseteq {p}
      /\ o \in {"settings", "remove", "cleanup"} => rows = {}
  BY DEF RowsOf, Exists, Ops
<1> HIDE DEF rows
<1>2. q \in Request
  BY <1>1 DEF Request
<1>3. Fits(q)
  BY <1>1 DEF Fits, Ops
<1>4. Holds(q)
  BY DEF Holds
<1>5. Knows(q, img)
  BY <1>1 DEF Knows
<1>6. /\ request' = [request EXCEPT ![r] = q]
      /\ begun' = begun + 1 /\ begun < MaxRequests
      /\ UNCHANGED <<img, settings, files, version>>
  BY DEF Start, rows
<1> HIDE DEF q
<1>7. request' \in [Places -> Request \cup {NoRequest}] /\ RequestsFit'
  BY <1>2, <1>3, <1>4, <1>5, <1>6, OneStep DEF CatalogInv
<1>8. CatalogTypeOK'
  BY <1>6, <1>7, CatalogAssumption DEF CatalogTypeOK, CatalogInv
<1> QED
  BY <1>7, <1>8 DEF CatalogInv

LEMMA BeginKeepsCatalogInv ==
  ASSUME CatalogInv, NEW r \in Places, BeginRequest(r)
  PROVE  CatalogInv'
<1>0. AnyExt \in Exts
  BY TheFiles
<1>1. ASSUME UploadCardImage(r) PROVE CatalogInv'
  <2>1. PICK p \in Packages, e \in Exts :
          \/ Start(r, "defaults", "single", p, img[p], e)
          \/ Start(r, "upload", "all", NoUrl, NoUrl, e)
    BY <1>1 DEF UploadCardImage
  <2>2. img[p] \in Urls \cup {NoUrl}
    BY DEF CatalogInv, CatalogTypeOK
  <2>3. CASE Start(r, "defaults", "single", p, img[p], e)
    BY <2>2, <2>3, StartKeepsCatalogInv DEF Stages, Ops
  <2>4. CASE Start(r, "upload", "all", NoUrl, NoUrl, e)
    BY <2>4, StartKeepsCatalogInv DEF Stages, Ops
  <2> QED
    BY <2>1, <2>3, <2>4
<1>2. ASSUME Remove(r) PROVE CatalogInv'
  <2>1. PICK p \in Packages : Start(r, "defaults", "remove", p, img[p], AnyExt)
    BY <1>2 DEF Remove
  <2>2. img[p] \in Urls \cup {NoUrl}
    BY DEF CatalogInv, CatalogTypeOK
  <2> QED
    BY <1>0, <2>1, <2>2, StartKeepsCatalogInv DEF Stages, Ops
<1>3. ASSUME CleanupPackageImages(r) PROVE CatalogInv'
  <2>1. Start(r, "defaults", "cleanup", NoUrl, NoUrl, AnyExt)
    BY <1>3 DEF CleanupPackageImages
  <2> QED
    BY <1>0, <2>1, StartKeepsCatalogInv DEF Stages, Ops
<1>4. ASSUME UpdateStoreProductImage(r) PROVE CatalogInv'
  <2>1. PICK e \in Exts :
          Start(r, IF settings = NoUrl THEN "upload" ELSE "delete", "settings", NoUrl, settings, e)
    BY <1>4 DEF UpdateStoreProductImage
  <2>2. settings \in Urls \cup {NoUrl}
    BY DEF CatalogInv, CatalogTypeOK
  <2>3. CASE settings = NoUrl
    <3>1. Start(r, "upload", "settings", NoUrl, settings, e)
      BY <2>1, <2>3
    <3> QED
      BY <2>2, <3>1, StartKeepsCatalogInv DEF Stages, Ops
  <2>4. CASE settings # NoUrl
    <3>1. Start(r, "delete", "settings", NoUrl, settings, e)
      BY <2>1, <2>4
    <3> QED
      BY <2>2, <3>1, StartKeepsCatalogInv DEF Stages, Ops
  <2> QED
    BY <2>3, <2>4
<1> QED
  BY <1>1, <1>2, <1>3, <1>4 DEF BeginRequest

-----------------------------------------------------------------------------
(* The steps of an open request. *)

LEMMA TheRequest ==
  ASSUME CatalogInv, NEW r \in Places, NEW s \in Stages, At(r, s)
  PROVE  /\ request[r] \in Request /\ request[r].at = s /\ Busy(r)
         /\ Fits(request[r]) /\ Holds(request[r]) /\ Knows(request[r], img)
  BY OpenIsRequest DEF CatalogInv, RequestsFit, At

(* A step that changes the request only, and perhaps the bucket. *)
LEMMA QuietStep ==
  ASSUME CatalogInv, NEW r \in Places, NEW q,
         q \in Request => Fits(q) /\ Holds(q) /\ Knows(q, img),
         q \in Request \cup {NoRequest},
         request' = [request EXCEPT ![r] = q],
         UNCHANGED <<img, settings, version, begun>>, files' \in SUBSET CatalogFiles
  PROVE  CatalogInv'
<1>1. request' \in [Places -> Request \cup {NoRequest}] /\ RequestsFit'
  BY OneStep DEF CatalogInv
<1> QED
  BY <1>1 DEF CatalogInv, CatalogTypeOK

LEMMA SparesAreFiles ==
  ASSUME CatalogTypeOK, NEW r \in Places
  PROVE  /\ Spares(r) \subseteq CatalogFiles /\ Default \in Spares(r)
         /\ request[r].op = "cleanup" =>
              \A p \in Packages : img[p] = NoUrl \/ img[p].file \in Spares(r)
<1>1. FileOf(settings) \subseteq CatalogFiles
  BY TheUrls DEF CatalogTypeOK
<1>2. Shown \subseteq CatalogFiles
  BY TheUrls DEF CatalogTypeOK, Shown, Exists
<1>3. \A p \in Packages : img[p] = NoUrl \/ img[p].file \in Shown
  BY DEF Shown, Exists
<1> QED
  BY <1>1, <1>2, <1>3, TheFiles DEF Spares

LEMMA ReadDefaultsKeepsCatalogInv ==
  ASSUME CatalogInv, NEW r \in Places, ReadDefaults(r)
  PROVE  CatalogInv'
<1>1. /\ request[r] \in Request /\ request[r].at = "defaults"
      /\ Fits(request[r]) /\ Holds(request[r]) /\ Knows(request[r], img)
  BY TheRequest DEF ReadDefaults, Stages
<1> DEFINE sp == Spares(r)
           nx == AfterDefaults[request[r].op]
           q == [request[r] EXCEPT !.spare = sp, !.at = nx]
<1>2. /\ sp \subseteq CatalogFiles /\ Default \in sp
      /\ request[r].op = "cleanup" => \A p \in Packages : img[p] = NoUrl \/ img[p].file \in sp
  BY SparesAreFiles DEF CatalogInv
<1>3. /\ request[r].op \in {"single", "remove", "cleanup"}
      /\ nx \in Stages
      /\ request[r].op = "single" => nx = "delete"
      /\ request[r].op = "remove" => nx = "count"
      /\ request[r].op = "cleanup" => nx = "list"
  BY <1>1 DEF Fits, AfterDefaults, Stages
<1>4. request' = [request EXCEPT ![r] = q] /\ UNCHANGED <<img, settings, version, begun, files>>
  BY <1>1 DEF ReadDefaults, CatalogInv, CatalogTypeOK
<1> HIDE DEF sp, nx
<1>5. q \in Request
  BY <1>1, <1>2, <1>3 DEF Request
<1>6. Fits(q)
  BY <1>1, <1>3 DEF Fits, Request
<1>7. Holds(q)
  BY <1>1, <1>2, <1>3 DEF Holds, Request
<1>8. Knows(q, img)
  BY <1>1, <1>2, <1>3 DEF Knows, Request
<1> HIDE DEF q
<1> QED
  BY <1>4, <1>5, <1>6, <1>7, <1>8, QuietStep DEF CatalogInv, CatalogTypeOK

LEMMA DeletePreviousKeepsCatalogInv ==
  ASSUME CatalogInv, NEW r \in Places, DeletePrevious(r)
  PROVE  CatalogInv'
<1>1. /\ request[r] \in Request /\ request[r].at = "delete"
      /\ Fits(request[r]) /\ Holds(request[r]) /\ Knows(request[r], img)
  BY TheRequest DEF DeletePrevious, Stages
<1> DEFINE q == [request[r] EXCEPT !.at = "upload", !.prev = NoUrl, !.spare = {}]
<1>2. /\ request' = [request EXCEPT ![r] = q] /\ UNCHANGED <<img, settings, version, begun>>
      /\ files' \in SUBSET CatalogFiles
  BY <1>1 DEF DeletePrevious, CatalogInv, CatalogTypeOK
<1>3. q \in Request
  BY <1>1 DEF Request, Stages
<1>4. Fits(q) /\ Knows(q, img)
  BY <1>1 DEF Fits, Knows, Request
<1>5. Holds(q)
  BY <1>1 DEF Fits, Holds, Request
<1> HIDE DEF q
<1> QED
  BY <1>2, <1>3, <1>4, <1>5, QuietStep

LEMMA TheTarget ==
  ASSUME NEW r \in Places, request[r] \in Request, Fits(request[r]), request[r].at = "upload"
  PROVE  /\ Target(r) \in CatalogFiles
         /\ request[r].op = "all" => Target(r).folder = "shared"
<1>1. request[r].ext \in Exts /\ request[r].op \in {"single", "all", "settings"}
  BY DEF Fits, Request
<1>2. CASE request[r].op = "single"
  <2>1. Target(r) = File("package", request[r].pkg, request[r].ext) /\ request[r].pkg \in Packages
    BY <1>2 DEF Target, Fits
  <2> QED
    BY <1>1, <1>2, <2>1 DEF File, CatalogFiles
<1>3. CASE request[r].op = "all"
  <2>1. Target(r) = File("shared", NoUrl, request[r].ext)
    BY <1>3 DEF Target
  <2> QED
    BY <1>1, <1>3, <2>1 DEF File, CatalogFiles
<1>4. CASE request[r].op = "settings"
  <2>1. Target(r) = File("card", NoUrl, request[r].ext)
    BY <1>4 DEF Target
  <2> QED
    BY <1>1, <1>4, <2>1 DEF File, CatalogFiles
<1> QED
  BY <1>1, <1>2, <1>3, <1>4

LEMMA UploadKeepsCatalogInv ==
  ASSUME CatalogInv, NEW r \in Places, Upload(r)
  PROVE  CatalogInv'
<1>1. /\ request[r] \in Request /\ request[r].at = "upload"
      /\ Fits(request[r]) /\ Holds(request[r]) /\ Knows(request[r], img)
  BY TheRequest DEF Upload, Stages
<1> DEFINE t == Target(r)
           u == [file |-> t, v |-> version + 1]
           q == [request[r] EXCEPT !.url = u, !.at = "save"]
<1>2. /\ t \in CatalogFiles
      /\ request[r].op = "all" => t.folder = "shared"
  BY <1>1, TheTarget
<1>3. /\ request' = [request EXCEPT ![r] = q] /\ UNCHANGED <<img, settings, begun>>
      /\ files' = files \cup {t}
      /\ version' = version + 1 /\ version < MaxVersion /\ version \in 0..MaxVersion
  BY <1>1 DEF Upload, CatalogInv, CatalogTypeOK
<1> HIDE DEF t
<1>4. version' \in 0..MaxVersion
  BY <1>3, CatalogAssumption
<1>5. u \in Urls /\ u # NoUrl /\ u.file = t
  BY <1>2, <1>3, <1>4, CatalogAssumption DEF Urls
<1> HIDE DEF u
<1>6. q \in Request
  BY <1>1, <1>5 DEF Request, Stages
<1>7. Fits(q) /\ Knows(q, img)
  BY <1>1 DEF Fits, Knows, Request
<1>8. Holds(q)
  BY <1>1, <1>2, <1>5 DEF Fits, Holds, Request
<1> HIDE DEF q
<1>9. request' \in [Places -> Request \cup {NoRequest}] /\ RequestsFit'
  BY <1>3, <1>6, <1>7, <1>8, OneStep DEF CatalogInv
<1> QED
  BY <1>2, <1>3, <1>4, <1>9 DEF CatalogInv, CatalogTypeOK

(* A request ends, and the images stay as they are. *)
LEMMA CloseKeepsCatalogInv ==
  ASSUME CatalogInv, NEW r \in Places, Close(r), UNCHANGED <<img, version, begun, files>>,
         settings' \in Urls \cup {NoUrl}
  PROVE  CatalogInv'
<1>1. request' = [request EXCEPT ![r] = NoRequest]
  BY DEF Close
<1>2. request' \in [Places -> Request \cup {NoRequest}] /\ RequestsFit'
  BY <1>1, OneStep, NoRequestIsNone DEF CatalogInv
<1> QED
  BY <1>2 DEF CatalogInv, CatalogTypeOK

LEMMA SaveSettingsKeepsCatalogInv ==
  ASSUME CatalogInv, NEW r \in Places, SaveSettings(r)
  PROVE  CatalogInv'
<1>1. request[r] \in Request
  BY TheRequest DEF SaveSettings, Stages
<1>2. request[r].url \in Urls \cup {NoUrl}
  BY <1>1 DEF Request
<1> QED
  BY <1>2, CloseKeepsCatalogInv DEF SaveSettings

LEMMA SavedKeepsCatalogInv ==
  ASSUME CatalogInv, NEW r \in Places, Saved(r)
  PROVE  CatalogInv'
<1>1. /\ request[r] \in Request /\ request[r].at = "save"
      /\ Fits(request[r]) /\ Holds(request[r]) /\ Knows(request[r], img)
  BY TheRequest DEF Saved, Stages
<1>2. CASE Close(r)
  BY <1>2, CloseKeepsCatalogInv DEF Saved, CatalogInv, CatalogTypeOK
<1>3. CASE request[r].op = "all" /\ GoTo(r, "list")
  <2> DEFINE q == [request[r] EXCEPT !.at = "list"]
  <2>1. /\ request' = [request EXCEPT ![r] = q] /\ UNCHANGED <<img, settings, version, begun>>
        /\ files' \in SUBSET CatalogFiles /\ request[r].rows = {}
    BY <1>1, <1>3 DEF Saved, GoTo, CatalogInv, CatalogTypeOK
  <2>2. q \in Request
    BY <1>1 DEF Request, Stages
  <2>3. Fits(q) /\ Knows(q, img)
    BY <1>1, <1>3, <2>1 DEF Fits, Knows, Request
  <2>4. Holds(q)
    BY <1>1, <1>3 DEF Holds, Request
  <2> HIDE DEF q
  <2> QED
    BY <2>1, <2>2, <2>3, <2>4, QuietStep
<1> QED
  BY <1>2, <1>3 DEF Saved

LEMMA ListFilesKeepsCatalogInv ==
  ASSUME CatalogInv, NEW r \in Places, ListFiles(r)
  PROVE  CatalogInv'
<1>1. /\ request[r] \in Request /\ request[r].at = "list"
      /\ Fits(request[r]) /\ Holds(request[r]) /\ Knows(request[r], img)
  BY TheRequest DEF ListFiles, Stages
<1> DEFINE d == {f \in files : f.folder = "package"} \ request[r].spare
           q == [request[r] EXCEPT !.at = "sweep", !.doomed = d, !.spare = {}]
<1>2. /\ request' = [request EXCEPT ![r] = q] \/ request' = [request EXCEPT ![r] = NoRequest]
      /\ UNCHANGED <<img, settings, version, begun, files>>
  BY <1>1 DEF ListFiles, CatalogInv, CatalogTypeOK
<1>3. CASE request' = [request EXCEPT ![r] = NoRequest]
  BY <1>2, <1>3, CloseKeepsCatalogInv DEF Close, CatalogInv, CatalogTypeOK
<1>4. CASE request' = [request EXCEPT ![r] = q]
  <2>1. /\ d \subseteq CatalogFiles /\ Default \notin d
        /\ \A f \in d : f.folder = "package" /\ f \notin request[r].spare
    BY TheFiles DEF CatalogInv, CatalogTypeOK
  <2> HIDE DEF d
  <2>2. q \in Request
    BY <1>1, <2>1 DEF Request, Stages
  <2>3. Fits(q)
    BY <1>1 DEF Fits, Request
  <2>4. Holds(q)
    BY <1>1, <2>1 DEF Fits, Holds, Request
  <2>5. Knows(q, img)
    BY <1>1, <2>1 DEF Fits, Knows, Request
  <2> HIDE DEF q
  <2> QED
    BY <1>2, <1>4, <2>2, <2>3, <2>4, <2>5, QuietStep DEF CatalogInv, CatalogTypeOK
<1> QED
  BY <1>2, <1>3, <1>4

LEMMA CountOthersKeepsCatalogInv ==
  ASSUME CatalogInv, NEW r \in Places, CountOthers(r)
  PROVE  CatalogInv'
<1>1. /\ request[r] \in Request /\ request[r].at = "count"
      /\ Fits(request[r]) /\ Holds(request[r]) /\ Knows(request[r], img)
  BY TheRequest DEF CountOthers, Stages
<1> DEFINE d == {f \in FileOf(request[r].prev) \ request[r].spare :
                   Others(r) = {} /\ (f.of = request[r].pkg \/ f.folder = "shared")}
           q == [request[r] EXCEPT !.at = "drop", !.spare = {}, !.doomed = d]
<1>2. /\ request' = [request EXCEPT ![r] = q]
      /\ UNCHANGED <<img, settings, version, begun, files>>
  BY <1>1 DEF CountOthers, CatalogInv, CatalogTypeOK
<1>3. /\ d \subseteq FileOf(request[r].prev) \ request[r].spare
      /\ d # {} => Others(r) = {}
  OBVIOUS
<1> HIDE DEF d
<1>4. request[r].prev \in Urls \cup {NoUrl} /\ request[r].op = "remove" /\ Default \in request[r].spare
  BY <1>1 DEF Request, Fits, Holds
<1>5. /\ d \subseteq CatalogFiles /\ Default \notin d
      /\ \A f \in d : request[r].prev # NoUrl /\ f = request[r].prev.file
  BY <1>3, <1>4, TheUrls
<1>6. q \in Request
  BY <1>1, <1>5 DEF Request, Stages
<1>7. Fits(q)
  BY <1>1, <1>4 DEF Fits, Request
<1>8. Holds(q)
  BY <1>1, <1>4, <1>5 DEF Holds, Request
<1>9. Knows(q, img)
  <2>1. d # {} => \A p \in Packages : p = request[r].pkg \/ img[p] # request[r].prev
    BY <1>3 DEF Others
  <2> QED
    BY <1>1, <1>4, <2>1 DEF Knows, Request
<1> HIDE DEF q
<1> QED
  BY <1>2, <1>6, <1>7, <1>8, <1>9, QuietStep DEF CatalogInv, CatalogTypeOK

LEMMA SweepKeepsCatalogInv ==
  ASSUME CatalogInv, NEW r \in Places, Sweep(r)
  PROVE  CatalogInv'
<1>1. /\ request[r] \in Request /\ request[r].at = "sweep"
      /\ Fits(request[r]) /\ Holds(request[r]) /\ Knows(request[r], img)
  BY TheRequest DEF Sweep, Stages
<1>2. CASE Close(r) /\ UNCHANGED files
  BY <1>2, CloseKeepsCatalogInv DEF Sweep, CatalogInv, CatalogTypeOK
<1>3. ASSUME NEW f \in request[r].doomed,
             files' \in {files, files \ {f}},
             request' = [request EXCEPT ![r].doomed = @ \ {f}]
      PROVE  CatalogInv'
  <2> DEFINE d == request[r].doomed \ {f}
             q == [request[r] EXCEPT !.doomed = d]
  <2>1. /\ request' = [request EXCEPT ![r] = q] /\ UNCHANGED <<img, settings, version, begun>>
        /\ files' \in SUBSET CatalogFiles
    BY <1>1, <1>3 DEF Sweep, CatalogInv, CatalogTypeOK
  <2>2. d \subseteq request[r].doomed
    OBVIOUS
  <2> HIDE DEF d
  <2>3. q \in Request
    BY <1>1, <2>2 DEF Request
  <2>4. Fits(q)
    BY <1>1 DEF Fits, Request
  <2>5. Holds(q)
    BY <1>1, <2>2 DEF Holds, Request
  <2>6. Knows(q, img)
    BY <1>1, <2>2 DEF Knows, Request
  <2> HIDE DEF q
  <2> QED
    BY <2>1, <2>3, <2>4, <2>5, <2>6, QuietStep
<1> QED
  BY <1>2, <1>3 DEF Sweep

-----------------------------------------------------------------------------
(* The rows of the packages. *)

(* What a request has noted covers another image of p. *)
NotedOne(q, p) ==
  IF q.op \in {"all", "cleanup", "remove"} THEN [q EXCEPT !.fresh = @ \cup {p}] ELSE q

LEMMA NotedKeeps ==
  ASSUME NEW q \in Request, NEW p \in Packages, NEW im \in [Packages -> Urls \cup {NoUrl}],
         NEW u \in Urls \cup {NoUrl},
         Fits(q), Holds(q), Knows(q, im)
  PROVE  /\ NotedOne(q, p) \in Request
         /\ Fits(NotedOne(q, p)) /\ Holds(NotedOne(q, p))
         /\ Knows(NotedOne(q, p), [im EXCEPT ![p] = u])
<1>1. CASE q.op \in {"all", "cleanup", "remove"}
  <2> DEFINE n == [q EXCEPT !.fresh = @ \cup {p}]
  <2>1. NotedOne(q, p) = n
    BY <1>1 DEF NotedOne
  <2>2. n \in Request
    BY DEF Request
  <2>3. Fits(n)
    BY DEF Fits, Request
  <2>4. Holds(n)
    BY DEF Holds, Request
  <2>5. /\ n.fresh = q.fresh \cup {p} /\ n.op = q.op /\ n.at = q.at /\ n.rows = q.rows
        /\ n.spare = q.spare /\ n.doomed = q.doomed /\ n.pkg = q.pkg /\ n.prev = q.prev
    BY DEF Request
  <2>6. \A x \in Packages \ {p} : [im EXCEPT ![p] = u][x] = im[x]
    OBVIOUS
  <2> HIDE DEF n
  <2>7. Knows(n, [im EXCEPT ![p] = u])
    BY <2>5, <2>6 DEF Knows
  <2> QED
    BY <2>1, <2>2, <2>3, <2>4, <2>7
<1>2. CASE q.op \notin {"all", "cleanup", "remove"}
  BY <1>2 DEF NotedOne, Knows
<1> QED
  BY <1>1, <1>2

LEMMA DroppedKeeps ==
  ASSUME NEW q \in Request, NEW p \in Packages, NEW im \in [Packages -> Urls \cup {NoUrl}],
         Fits(q), Holds(q), Knows(q, im)
  PROVE  Knows(q, [im EXCEPT ![p] = NoUrl])
<1>1. q.op = "remove" /\ q.doomed # {} => q.prev # NoUrl
  BY DEF Holds
<1>2. \A x \in Packages : [im EXCEPT ![p] = NoUrl][x] = IF x = p THEN NoUrl ELSE im[x]
  OBVIOUS
<1> QED
  BY <1>1, <1>2 DEF Knows

(* p gets image u, and every request notes it or is as it should be. *)
LEMMA ImageStep ==
  ASSUME CatalogInv, NEW p \in Packages, NEW u \in Urls \cup {NoUrl},
         img' = [img EXCEPT ![p] = u], request' = [s \in Places |-> request'[s]],
         \A s \in Places :
           \/ request'[s] = IF request[s] = NoRequest THEN NoRequest ELSE NotedOne(request[s], p)
           \/ request'[s] \in Request /\ Fits(request'[s]) /\ Holds(request'[s]) /\ Knows(request'[s], img'),
         UNCHANGED <<settings, files, version, begun>>
  PROVE  CatalogInv'
<1>1. img \in [Packages -> Urls \cup {NoUrl}] /\ request \in [Places -> Request \cup {NoRequest}]
  BY DEF CatalogInv, CatalogTypeOK
<1>2. ASSUME NEW s \in Places
      PROVE  /\ request'[s] \in Request \cup {NoRequest}
             /\ request'[s] # NoRequest => Fits(request'[s]) /\ Holds(request'[s]) /\ Knows(request'[s], img')
  <2>1. CASE request[s] = NoRequest /\ request'[s] = NoRequest
    BY <2>1
  <2>2. CASE request[s] # NoRequest /\ request'[s] = NotedOne(request[s], p)
    <3>1. request[s] \in Request /\ Fits(request[s]) /\ Holds(request[s]) /\ Knows(request[s], img)
      BY <1>1, <2>2 DEF CatalogInv, RequestsFit, Busy
    <3>2. /\ NotedOne(request[s], p) \in Request
          /\ Fits(NotedOne(request[s], p)) /\ Holds(NotedOne(request[s], p))
          /\ Knows(NotedOne(request[s], p), [img EXCEPT ![p] = u])
      BY <1>1, <3>1, NotedKeeps
    <3> QED
      BY <2>2, <3>2
  <2> QED
    BY <2>1, <2>2
<1>3. CatalogTypeOK'
  BY <1>1, <1>2 DEF CatalogTypeOK, CatalogInv
<1>4. RequestsFit'
  BY <1>2 DEF RequestsFit, Busy
<1> QED
  BY <1>3, <1>4 DEF CatalogInv

LEMMA SetPackageKeepsCatalogInv ==
  ASSUME CatalogInv, NEW p \in Packages, SetPackage(p)
  PROVE  CatalogInv'
<1>1. PICK u \in Typed \cup {DefaultUrl, CustomImage} : img' = [img EXCEPT ![p] = u]
  BY DEF SetPackage
<1>2. u \in Urls \cup {NoUrl}
  BY TheFiles, CatalogAssumption DEF CustomImage, CatalogInv, CatalogTypeOK
<1>3. /\ \A s \in Places : request'[s] = IF request[s] = NoRequest THEN NoRequest ELSE NotedOne(request[s], p)
      /\ request' = [s \in Places |-> request'[s]]
      /\ UNCHANGED <<settings, files, version, begun>>
  BY DEF SetPackage, Noted, NotedOne
<1> QED
  BY <1>1, <1>2, <1>3, ImageStep

LEMMA SaveRowKeepsCatalogInv ==
  ASSUME CatalogInv, NEW r \in Places, SaveRow(r)
  PROVE  CatalogInv'
<1>1. /\ request[r] \in Request /\ request[r].at = "save" /\ request[r] # NoRequest
      /\ Fits(request[r]) /\ Holds(request[r]) /\ Knows(request[r], img)
  BY TheRequest DEF SaveRow, Stages, Busy
<1>2. /\ img \in [Packages -> Urls \cup {NoUrl}] /\ request \in [Places -> Request \cup {NoRequest}]
      /\ files \in SUBSET CatalogFiles
  BY DEF CatalogInv, CatalogTypeOK
<1> DEFINE Left(p) == [request[r] EXCEPT !.rows = @ \ {p}, !.ok = @ /\ Exists(p)]
<1>3. PICK p \in request[r].rows :
        LET left == [request EXCEPT ![r].rows = @ \ {p}, ![r].ok = @ /\ Exists(p)]
        IN  IF Exists(p)
            THEN img' = [img EXCEPT ![p] = request[r].url] /\ request' = Noted(left, p, {r})
            ELSE request' = left /\ UNCHANGED img
  BY DEF SaveRow
<1>4. /\ p \in Packages /\ request[r].op \in {"single", "all"}
      /\ request[r].op = "single" => p = request[r].pkg
      /\ UNCHANGED <<settings, files, version, begun>>
  BY <1>1 DEF Fits, Request, SaveRow
<1> DEFINE q == Left(p)
<1>5. /\ q \in Request /\ q.rows = request[r].rows \ {p}
      /\ q.at = "save" /\ q.op = request[r].op /\ q.fresh = request[r].fresh
  BY <1>1 DEF Request, Exists
<1>6. Fits(q) /\ Holds(q)
  <2>1. Fits(q)
    BY <1>1 DEF Fits, Request
  <2>2. Holds(q)
    BY <1>1 DEF Holds, Request
  <2> QED
    BY <2>1, <2>2
<1>7. [request EXCEPT ![r].rows = @ \ {p}, ![r].ok = @ /\ Exists(p)] = [request EXCEPT ![r] = q]
  BY <1>1, <1>2 DEF Request
<1> HIDE DEF Left
<1>8. CASE Exists(p)
  <2>1. img' = [img EXCEPT ![p] = request[r].url] /\ request' = Noted([request EXCEPT ![r] = q], p, {r})
    BY <1>3, <1>7, <1>8
  <2>2. /\ request[r].url \in Urls \cup {NoUrl}
        /\ request[r].op = "all" => request[r].url.file.folder = "shared"
    BY <1>1, <1>4 DEF Holds, Request
  <2>3. Knows(q, [img EXCEPT ![p] = request[r].url])
    BY <1>1, <1>2, <1>4, <1>5, <2>2 DEF Knows
  <2>4. /\ \A s \in Places \ {r} : request'[s] = IF request[s] = NoRequest THEN NoRequest ELSE NotedOne(request[s], p)
        /\ request'[r] = q /\ request' = [s \in Places |-> request'[s]]
    BY <1>2, <2>1 DEF Noted, NotedOne
  <2>5. request'[r] \in Request /\ Fits(request'[r]) /\ Holds(request'[r]) /\ Knows(request'[r], img')
    BY <1>5, <1>6, <2>1, <2>3, <2>4
  <2> QED
    BY <1>4, <2>1, <2>2, <2>4, <2>5, ImageStep
<1>9. CASE ~Exists(p)
  <2>1. request' = [request EXCEPT ![r] = q] /\ img' = img
    BY <1>3, <1>7, <1>9
  <2>2. Knows(q, img)
    BY <1>1, <1>4, <1>5, <1>9 DEF Knows, Exists
  <2> QED
    BY <1>2, <1>4, <1>5, <1>6, <2>1, <2>2, QuietStep
<1> QED
  BY <1>8, <1>9

LEMMA DropRowKeepsCatalogInv ==
  ASSUME CatalogInv, NEW r \in Places, DropRow(r)
  PROVE  CatalogInv'
<1>1. /\ request[r] \in Request /\ request[r].at = "drop" /\ request[r].op = "remove"
      /\ request[r].pkg \in Packages
      /\ Fits(request[r]) /\ Holds(request[r]) /\ Knows(request[r], img)
  BY TheRequest DEF DropRow, Stages, Fits
<1>2. CASE ~Exists(request[r].pkg)
  BY <1>2, CloseKeepsCatalogInv DEF DropRow, CatalogInv, CatalogTypeOK
<1>3. CASE Exists(request[r].pkg)
  <2>1. PICK p \in Packages : p = request[r].pkg
    BY <1>1
  <2> DEFINE q == [request[r] EXCEPT !.at = "sweep"]
             im == [img EXCEPT ![p] = NoUrl]
  <2>2. /\ img \in [Packages -> Urls \cup {NoUrl}]
        /\ request \in [Places -> Request \cup {NoRequest}]
        /\ UNCHANGED <<settings, files, version, begun>>
    BY DEF CatalogInv, CatalogTypeOK, DropRow
  <2>3. img' = im /\ request' = [request EXCEPT ![r] = q]
    BY <1>3, <2>1, <2>2 DEF DropRow, GoTo
  <2>4. q \in Request
    BY <1>1 DEF Request, Stages
  <2>5. Fits(q) /\ Holds(q)
    <3>1. Fits(q)
      BY <1>1 DEF Fits, Request
    <3>2. Holds(q)
      BY <1>1 DEF Holds, Request
    <3> QED
      BY <3>1, <3>2
  <2>6. Knows(q, im)
    <3>1. Knows(request[r], im) /\ im[p] = NoUrl
      BY <1>1, <2>2, DroppedKeeps
    <3> QED
      BY <1>1, <2>1, <3>1 DEF Knows, Request
  <2>7. ASSUME NEW s \in Places, request'[s] # NoRequest
        PROVE  Fits(request'[s]) /\ Holds(request'[s]) /\ Knows(request'[s], im)
    <3>1. CASE s = r
      BY <2>2, <2>3, <2>5, <2>6, <3>1
    <3>2. CASE s # r
      <4>1. /\ request'[s] = request[s] /\ request[s] \in Request
            /\ Fits(request[s]) /\ Holds(request[s]) /\ Knows(request[s], img)
        BY <2>2, <2>3, <2>7, <3>2 DEF CatalogInv, RequestsFit, Busy
      <4> QED
        BY <2>2, <4>1, DroppedKeeps
    <3> QED
      BY <3>1, <3>2
  <2> HIDE DEF q
  <2>8. CatalogTypeOK'
    BY <2>2, <2>3, <2>4 DEF CatalogTypeOK, CatalogInv
  <2>9. RequestsFit'
    BY <2>3, <2>7 DEF RequestsFit, Busy
  <2> QED
    BY <2>8, <2>9 DEF CatalogInv
<1> QED
  BY <1>2, <1>3

THEOREM NextCatalogInv ==
  ASSUME CatalogInv, [CatalogNext]_catalogVars
  PROVE  CatalogInv'
<1>1. ASSUME NEW r \in Places, CatalogStep(r) PROVE CatalogInv'
  <2>1. ASSUME CardUploadFails(r) PROVE CatalogInv'
    BY <2>1, CloseKeepsCatalogInv DEF CardUploadFails, CatalogInv, CatalogTypeOK
  <2> QED
    BY <1>1, <2>1, ReadDefaultsKeepsCatalogInv, DeletePreviousKeepsCatalogInv, UploadKeepsCatalogInv,
       SaveRowKeepsCatalogInv, SaveSettingsKeepsCatalogInv, SavedKeepsCatalogInv, ListFilesKeepsCatalogInv,
       CountOthersKeepsCatalogInv, DropRowKeepsCatalogInv, SweepKeepsCatalogInv
    DEF CatalogStep
<1>2. ASSUME PatchSettings \/ RemoveSettings PROVE CatalogInv'
  <2>1. settings' \in Urls \cup {NoUrl}
    BY <1>2, TheFiles, CatalogAssumption
    DEF PatchSettings, RemoveSettings, CustomImage, CatalogInv, CatalogTypeOK
  <2> QED
    BY <1>2, <2>1
    DEF PatchSettings, RemoveSettings, CatalogInv, CatalogTypeOK, RequestsFit, Busy
<1>3. ASSUME CatalogRestart PROVE CatalogInv'
  BY <1>3 DEF CatalogRestart, CatalogInv, CatalogTypeOK, RequestsFit, Busy
<1>4. ASSUME UNCHANGED catalogVars PROVE CatalogInv'
  BY <1>4 DEF catalogVars, CatalogInv, CatalogTypeOK, RequestsFit, Busy
<1> QED
  BY <1>1, <1>2, <1>3, <1>4, BeginKeepsCatalogInv, SetPackageKeepsCatalogInv DEF CatalogNext

THEOREM SpecCatalogInv == CatalogSpec => []CatalogInv
<1>1. CatalogInv /\ [CatalogNext]_catalogVars => CatalogInv'
  BY NextCatalogInv
<1> QED
  BY <1>1, InitCatalogInv, PTL DEF CatalogSpec

(* Rows, bucket and requests always have their types.                      *)
THEOREM CatalogTypeCorrect == CatalogSpec => []CatalogTypeOK
<1>1. CatalogInv => CatalogTypeOK
  BY DEF CatalogInv
<1> QED
  BY <1>1, SpecCatalogInv, PTL

-----------------------------------------------------------------------------
(* The deletions. *)

(* A file leaves the bucket by one of two steps. *)
LEMMA Deletions ==
  ASSUME CatalogInv, [CatalogNext]_catalogVars, NEW f \in files \ files'
  PROVE  \E r \in Places :
           /\ request'[r] # request[r] /\ request[r] \in Request
           /\ Fits(request[r]) /\ Holds(request[r]) /\ Knows(request[r], img)
           /\ \/ At(r, "delete") /\ f \in FileOf(request[r].prev) \ request[r].spare
              \/ At(r, "sweep") /\ f \in request[r].doomed
<1>1. ASSUME NEW r \in Places, DeletePrevious(r)
      PROVE  /\ request'[r] # request[r] /\ request[r] \in Request
             /\ Fits(request[r]) /\ Holds(request[r]) /\ Knows(request[r], img)
             /\ At(r, "delete") /\ f \in FileOf(request[r].prev) \ request[r].spare
  <2>1. /\ request[r] \in Request /\ request[r].at = "delete"
        /\ Fits(request[r]) /\ Holds(request[r]) /\ Knows(request[r], img)
    BY <1>1, TheRequest DEF DeletePrevious, Stages
  <2>2. request'[r].at = "upload"
    BY <1>1, <2>1 DEF DeletePrevious, CatalogInv, CatalogTypeOK, Request
  <2> QED
    BY <1>1, <2>1, <2>2 DEF DeletePrevious
<1>2. ASSUME NEW r \in Places, Sweep(r)
      PROVE  /\ request'[r] # request[r] /\ request[r] \in Request
             /\ Fits(request[r]) /\ Holds(request[r]) /\ Knows(request[r], img)
             /\ At(r, "sweep") /\ f \in request[r].doomed
  <2>1. /\ request[r] \in Request /\ request[r].at = "sweep"
        /\ Fits(request[r]) /\ Holds(request[r]) /\ Knows(request[r], img)
    BY <1>2, TheRequest DEF Sweep, Stages
  <2>2. PICK g \in request[r].doomed :
          /\ files' \in {files, files \ {g}}
          /\ request' = [request EXCEPT ![r].doomed = @ \ {g}]
    BY <1>2 DEF Sweep
  <2>3. f = g
    BY <2>2
  <2>4. request'[r].doomed = request[r].doomed \ {g}
    BY <2>1, <2>2 DEF CatalogInv, CatalogTypeOK, Request
  <2> QED
    BY <1>2, <2>1, <2>3, <2>4 DEF Sweep
<1>3. ASSUME NEW r \in Places, BeginRequest(r) PROVE FALSE
  BY <1>3 DEF BeginRequest, UploadCardImage, Remove, CleanupPackageImages,
              UpdateStoreProductImage, Start
<1>4. ASSUME NEW r \in Places, CatalogStep(r), ~DeletePrevious(r), ~Sweep(r)
      PROVE  FALSE
  BY <1>4 DEF CatalogStep, ReadDefaults, Upload, CardUploadFails, SaveRow, SaveSettings,
              Saved, ListFiles, CountOthers, DropRow
<1>5. ~(UNCHANGED files)
  OBVIOUS
<1> QED
  BY <1>1, <1>2, <1>3, <1>4, <1>5
  DEF CatalogNext, catalogVars, SetPackage, PatchSettings, RemoveSettings, CatalogRestart

(* The default image of the product survives all requests about packages:  *)
(* DefaultSurvives.                                                        *)
THEOREM DefaultNeverDeleted == CatalogSpec => DefaultSurvives
<1>1. ASSUME CatalogInv, [CatalogNext]_catalogVars, Default \in files \ files'
      PROVE  \E r \in Places :
               At(r, "delete") /\ request[r].op = "settings" /\ request[r].prev.file = Default
  <2>1. PICK r \in Places :
          /\ request[r] \in Request /\ Fits(request[r]) /\ Holds(request[r])
          /\ \/ At(r, "delete") /\ Default \in FileOf(request[r].prev) \ request[r].spare
             \/ At(r, "sweep") /\ Default \in request[r].doomed
    BY <1>1, Deletions
  <2>2. At(r, "delete") /\ Default \in FileOf(request[r].prev) \ request[r].spare
    BY <2>1 DEF Holds
  <2>3. request[r].op = "settings"
    BY <2>1, <2>2 DEF Fits, Holds, At
  <2>4. request[r].prev.file = Default
    BY <2>2 DEF FileOf
  <2> QED
    BY <2>2, <2>3, <2>4
<1>2. CatalogInv /\ [CatalogNext]_catalogVars =>
        [(Default \in files \ files') =>
           \E r \in Places : /\ At(r, "delete") /\ request[r].op = "settings"
                             /\ request[r].prev.file = Default]_catalogVars
  BY <1>1
<1> QED
  BY <1>2, SpecCatalogInv, PTL DEF CatalogSpec, DefaultSurvives

(* No request deletes the image of a package without a cause of those that *)
(* MayBreak lists: ImageLossHasCause.                                      *)
THEOREM ImagesLostWithCause == CatalogSpec => ImageLossHasCause
<1>1. ASSUME CatalogInv, [CatalogNext]_catalogVars, NEW p \in Packages,
             Exists(p), img'[p] = img[p], img[p].file \in files \ files'
      PROVE  \E r \in Places : request'[r] # request[r] /\ MayBreak(r, p)
  <2> DEFINE f == img[p].file
  <2>1. PICK r \in Places :
          /\ request'[r] # request[r] /\ request[r] \in Request
          /\ Fits(request[r]) /\ Holds(request[r]) /\ Knows(request[r], img)
          /\ \/ At(r, "delete") /\ f \in FileOf(request[r].prev) \ request[r].spare
             \/ At(r, "sweep") /\ f \in request[r].doomed
    BY <1>1, Deletions
  <2>2. img[p] \in Urls /\ img[p] # NoUrl
    BY <1>1 DEF Exists, CatalogInv, CatalogTypeOK
  <2>3. CASE At(r, "delete") /\ f \in FileOf(request[r].prev) \ request[r].spare
    BY <2>1, <2>3 DEF FileOf, Fits, At, MayBreak
  <2>4. CASE At(r, "sweep") /\ f \in request[r].doomed
    <3>0. SUFFICES ASSUME p \notin request[r].fresh PROVE MayBreak(r, p)
      BY <2>1 DEF MayBreak
    <3>1. request[r].op \in {"all", "cleanup", "remove"} /\ request[r].rows = {}
      BY <2>1, <2>4 DEF Fits, At
    <3>2. CASE request[r].op = "all"
      BY <2>1, <2>2, <2>4, <3>0, <3>1, <3>2 DEF Holds, Knows
    <3>3. CASE request[r].op = "cleanup"
      BY <2>1, <2>2, <2>4, <3>0, <3>3 DEF Knows, At
    <3>4. CASE request[r].op = "remove"
      <4>1. f = request[r].prev.file /\ request[r].prev # NoUrl
        BY <2>1, <2>4, <3>4 DEF Holds
      <4>2. img[p] # request[r].prev
        BY <2>1, <2>2, <2>4, <3>0, <3>4 DEF Knows, At
      <4>3. request[r].prev \in Urls
        BY <2>1, <4>1 DEF Request
      <4>4. img[p].v # request[r].prev.v
        BY <2>2, <4>1, <4>2, <4>3 DEF Urls
      <4> QED
        BY <3>4, <4>1, <4>4 DEF MayBreak
    <3> QED
      BY <3>1, <3>2, <3>3, <3>4
  <2> QED
    BY <2>1, <2>3, <2>4
<1>2. CatalogInv /\ [CatalogNext]_catalogVars =>
        [\A p \in Packages :
           Exists(p) /\ img'[p] = img[p] /\ img[p].file \in files \ files'
             => \E r \in Places : request'[r] # request[r] /\ MayBreak(r, p)]_catalogVars
  BY <1>1
<1> QED
  BY <1>2, SpecCatalogInv, PTL DEF CatalogSpec, ImageLossHasCause
================================================================================
