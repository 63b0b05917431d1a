----------------------------- MODULE StoreBanners -----------------------------
(***************************************************************************)
(* StoreService: the banners and the offer banner of one store.  Their     *)
(* images are files of a bucket; the row of the store holds their URLs     *)
(* (bannersUrl and secondaryBannerUrl).                                    *)
(*                                                                         *)
(* Every request of the administrator reads the field it changes, deletes  *)
(* and uploads files, and in the end writes the whole field, computed from *)
(* what it read.  No transaction holds the three together.                 *)
(*                                                                         *)
(* Files are numbered in the order of their upload (their names hold the   *)
(* time); 0 stands for a URL of no file of the bucket.  A field is the set *)
(* of the entries of its list: an entry is the file its URL points to and, *)
(* as a list written by POST or PATCH may name a file several times, which *)
(* of its copies it is.  The order of the list is left out, and an index   *)
(* is the entry it selects.                                                *)
(***************************************************************************)
EXTENDS Integers, FiniteSets

CONSTANTS
  Requests,    \* places for the requests of the administrators
  MaxBanners,  \* maxBanners (5)
  MaxFiles,    \* bound: how many files are ever uploaded
  MaxCopies,   \* bound: how often a list names one file
  Lists        \* lists of entries a PATCH may bring

Files    == 1..MaxFiles
AllFiles == 0..MaxFiles
Entries  == AllFiles \X (1..MaxCopies)
Fields   == {"banners", "offer"}

FilesOf(list) == {e[1] : e \in list}

ASSUME BannersAssumption ==
  /\ MaxBanners \in Nat \ {0}
  /\ MaxFiles \in Nat
  /\ MaxCopies \in Nat \ {0}
  /\ Lists \subseteq SUBSET Entries

VARIABLES
  row,       \* row[x]: the entries of field x of the store
  bucket,    \* the files in the bucket
  uploads,   \* how many files have been uploaded
  req,       \* req[r]: what the request in place r is doing
  disturbed, \* fields a request has overwritten with what it had read before
             \* another one wrote, or has left between its files and its row
  oversized, \* whether a PATCH has listed more than MaxBanners banners
  relisted   \* files a PATCH has listed where they were not listed before

patches == <<oversized, relisted>>
vars    == <<row, bucket, uploads, req, disturbed, oversized, relisted>>

(* A request on a field: what it read, the files it has to delete (gone),  *)
(* the entries its write leaves out (drop), the uploads that are left,     *)
(* whether a failed upload ends it, and the entries of its uploads.        *)
Open == [at : {"open"}, field : Fields, snap : SUBSET Entries, gone : SUBSET AllFiles,
         drop : SUBSET Entries, todo : 0..MaxBanners, strict : BOOLEAN,
         new : SUBSET Entries, stale : BOOLEAN]
Idle == [at |-> "idle"]

TypeOK ==
  /\ row \in [Fields -> SUBSET Entries]
  /\ bucket \in SUBSET Files
  /\ uploads \in 0..MaxFiles
  /\ req \in [Requests -> Open \cup {Idle}]
  /\ disturbed \in SUBSET Fields
  /\ oversized \in BOOLEAN /\ relisted \in SUBSET AllFiles

(* A store whose banners have all been uploaded before. *)
Init ==
  /\ uploads \in 0..MaxFiles
  /\ bucket = 1..uploads
  /\ row \in [Fields -> SUBSET ((1..uploads) \X {1})]
  /\ row["banners"] \cap row["offer"] = {}
  /\ Cardinality(row["banners"]) <= MaxBanners /\ Cardinality(row["offer"]) <= 1
  /\ req = [r \in Requests |-> Idle]
  /\ disturbed = {} /\ oversized = FALSE /\ relisted = {}

IsOpen(r) == req[r].at = "open"

----------------------------------------------------------------------------
(* The requests.  Each begins by reading the field; the store exists: its  *)
(* administrators refer to it.                                             *)

Begin(r, x, gone, drop, n, strict) ==
  /\ req[r] = Idle
  /\ req' = [req EXCEPT ![r] =
       [at |-> "open", field |-> x, snap |-> row[x], gone |-> gone, drop |-> drop,
        todo |-> n, strict |-> strict, new |-> {}, stale |-> FALSE]]
  /\ UNCHANGED <<row, bucket, uploads, disturbed, patches>>

(* The guard on the number of banners, which addMultipleBanners repeats for *)
(* the files it takes (SlotsUnchecked takes them all).                     *)
SlotsUnchecked(n) == Cardinality(row["banners"]) < MaxBanners
Slots(n) == Cardinality(row["banners"]) + n <= MaxBanners

AddBanner(r) == Slots(1) /\ Begin(r, "banners", {}, {}, 1, TRUE)

AddMultipleBanners(r) ==
  \E n \in 1..MaxBanners : Slots(n) /\ Begin(r, "banners", {}, {}, n, FALSE)

RemoveBanner(r) ==
  \E e \in row["banners"] : Begin(r, "banners", {e[1]}, {e}, 0, TRUE)

(* An index that is named twice is spliced twice: a banner that follows    *)
(* goes with it, and its file stays.                                       *)
RemoveMultipleBanners(r) ==
  \E drop \in SUBSET row["banners"] : \E named \in SUBSET drop \ {{}} :
    Begin(r, "banners", FilesOf(named), drop, 0, TRUE)

UploadOfferBanner(r) == Begin(r, "offer", FilesOf(row["offer"]), row["offer"], 1, TRUE)
RemoveOfferBanner(r) == Begin(r, "offer", FilesOf(row["offer"]), row["offer"], 0, TRUE)

(* The requests rs after the fields in written got another list: those     *)
(* that are open on one of them have read the one before.                  *)
Outdated(rs, written) ==
  [q \in Requests |-> IF rs[q] # Idle /\ rs[q].field \in written
                       THEN [rs[q] EXCEPT !.stale = TRUE] ELSE rs[q]]

(* PATCH of the store (and POST, of a store without files) writes whatever *)
(* URLs it is given, as often as they are named, and one for the offer; a  *)
(* field it is not given stays.  No file is touched, and nothing limits    *)
(* the list.                                                               *)
UpdateStore(new) ==
  /\ \A x \in Fields : new[x] = row[x] \/ new[x] \in Lists
  /\ FilesOf(new["banners"] \cup new["offer"]) \subseteq 0..uploads
  /\ Cardinality(new["offer"]) <= 1
  /\ row' = new
  /\ req' = Outdated(req, {x \in Fields : new[x] # row[x]})
  /\ oversized' = (oversized \/ Cardinality(new["banners"]) > MaxBanners)
  /\ relisted' = relisted \cup FilesOf(UNION {new[x] \ row[x] : x \in Fields})
  /\ UNCHANGED <<bucket, uploads, disturbed>>

----------------------------------------------------------------------------
(* The steps of an open request. *)

(* deleteFile; an error is logged and forgotten. *)
DeleteFile(r) ==
  /\ IsOpen(r)
  /\ \E f \in req[r].gone :
       /\ bucket' \in {bucket, bucket \ {f}}
       /\ req' = [req EXCEPT ![r].gone = @ \ {f}]
  /\ UNCHANGED <<row, uploads, disturbed, patches>>

(* Files are left to upload. *)
Uploading(r) == IsOpen(r) /\ req[r].gone = {} /\ req[r].todo > 0

UploadFile(r) ==
  /\ Uploading(r)
  /\ uploads < MaxFiles
  /\ uploads' = uploads + 1
  /\ bucket' = bucket \cup {uploads'}
  /\ req' = [req EXCEPT ![r].todo = @ - 1, ![r].new = @ \cup {<<uploads', 1>>}]
  /\ UNCHANGED <<row, disturbed, patches>>

(* The upload fails.  addMultipleBanners goes on with the others; the      *)
(* other requests end, whatever they have deleted.                         *)
UploadFails(r) ==
  /\ Uploading(r)
  /\ IF req[r].strict
     THEN /\ req' = [req EXCEPT ![r] = Idle]
          /\ disturbed' = disturbed \cup (IF req[r].drop = {} THEN {} ELSE {req[r].field})
     ELSE /\ req' = [req EXCEPT ![r].todo = @ - 1]
          /\ UNCHANGED disturbed
  /\ UNCHANGED <<row, bucket, uploads, patches>>

(* What the row is given (WrittenBack keeps what was to go, WrittenOver     *)
(* forgets what was there).                                                *)
WrittenBack(r) == req[r].snap \cup req[r].new
WrittenOver(r) == req[r].new
Written(r) == (req[r].snap \ req[r].drop) \cup req[r].new

Save(r) ==
  /\ IsOpen(r) /\ req[r].gone = {} /\ req[r].todo = 0
  /\ row' = [row EXCEPT ![req[r].field] = Written(r)]
  /\ req' = Outdated([req EXCEPT ![r] = Idle], {req[r].field})
  /\ disturbed' = disturbed \cup (IF req[r].stale THEN {req[r].field} ELSE {})
  /\ UNCHANGED <<bucket, uploads, patches>>

(* The process ends: open requests are never answered. *)
Restart ==
  /\ \E r \in Requests : IsOpen(r)
  /\ req' = [r \in Requests |-> Idle]
  /\ disturbed' = disturbed \cup {req[r].field : r \in {q \in Requests : IsOpen(q)}}
  /\ UNCHANGED <<row, bucket, uploads, patches>>

----------------------------------------------------------------------------
BeginSome(r) ==
  \/ AddBanner(r) \/ AddMultipleBanners(r)
  \/ RemoveBanner(r) \/ RemoveMultipleBanners(r)
  \/ UploadOfferBanner(r) \/ RemoveOfferBanner(r)

RequestStep(r) == DeleteFile(r) \/ UploadFile(r) \/ UploadFails(r) \/ Save(r)

Next ==
  \/ \E r \in Requests : BeginSome(r) \/ RequestStep(r)
  \/ \E new \in [Fields -> Lists \cup {row[x] : x \in Fields}] : UpdateStore(new)
  \/ Restart

Spec == Init /\ [][Next]_vars

----------------------------------------------------------------------------
(* Properties *)

(* Whatever requests overlap, and whichever uploads fail, the store shows  *)
(* more than MaxBanners banners only after a PATCH has listed more itself: *)
(* each request counts what it read, not what the row holds when it        *)
(* writes.  It has one offer banner at most.                               *)
AtMostFive ==
  /\ ~oversized => Cardinality(row["banners"]) <= MaxBanners
  /\ Cardinality(row["offer"]) <= 1

(* A field nobody has disturbed (written from a stale read, or left after  *)
(* its files were deleted) points to files of the bucket only, except for  *)
(* those that an open request is about to take out, and those that a PATCH *)
(* has listed, which may be any.                                           *)
ImagesServed ==
  \A x \in Fields \ disturbed : \A f \in FilesOf(row[x]) \ (bucket \cup relisted) :
    \E r \in Requests : IsOpen(r) /\ req[r].field = x /\ f \in FilesOf(req[r].drop)

(* A banner leaves the row only by a request that drops it, by one that    *)
(* writes over a change it has not seen, or by a PATCH.                    *)
LostOnlyToStaleWrite ==
  [][\A x \in Fields : \A e \in row[x] \ row'[x] :
       \/ UpdateStore(row')
       \/ \E r \in Requests : /\ IsOpen(r) /\ ~(IsOpen(r))'
                              /\ e \in req[r].drop \/ req[r].stale]_vars
=============================================================================
