---------------------------- MODULE CatalogImages ----------------------------
(***************************************************************************)
(* PackageService and ProductService: the card images of the packages of   *)
(* one product in one store, and of the store's customization of it        *)
(* (storeProductSettings).  Rows hold URLs, the bucket holds files.        *)
(*                                                                         *)
(* An image is the default of the product, the card of the customization,  *)
(* lies in the folder of a package or in the folder the packages share, or *)
(* somewhere else.                                                         *)
(* A file is named after its folder and its extension, so a new upload may *)
(* replace a file; its URL differs from the one before in the version      *)
(* (?v=) only.  Every query and every call of the bucket is a step.        *)
(***************************************************************************)
EXTENDS Integers, FiniteSets

CONSTANTS
  Packages,    \* packages of the product in the store
  Places,      \* for the requests of the administrators
  Exts,        \* extensions of the uploaded files
  MaxVersion,  \* bound: how many files are ever uploaded
  MaxRequests, \* bound: how many requests are ever made
  Typed,       \* URLs that administrators enter for a package or the customization
  NoUrl        \* null

VARIABLES
  img,       \* img[p]: imgCardUrl of package p (NoUrl: there is no such row)
  settings,  \* imgCardUrl of the customization (NoUrl: none)
  files,     \* files in the bucket
  version,   \* version of the last URL handed out
  begun,     \* how many requests have been made
  request    \* request[r]: what request r is doing

catalogVars == <<img, settings, files, version, begun, request>>

File(folder, p, e) == [folder |-> folder, of |-> p, ext |-> e]
AnyExt      == CHOOSE e \in Exts : TRUE
Default     == File("default", NoUrl, AnyExt)
Elsewhere   == File("other", NoUrl, AnyExt)
CatalogFiles == {Default, Elsewhere} \cup {File(d, NoUrl, e) : d \in {"card", "shared"}, e \in Exts}
           \cup {File("package", p, e) : p \in Packages, e \in Exts}
Urls  == [file : CatalogFiles, v : 0..MaxVersion]
DefaultUrl  == [file |-> Default, v |-> 0]

ASSUME CatalogAssumption ==
  /\ Exts # {} /\ MaxVersion \in Nat /\ MaxRequests \in Nat
  /\ NoUrl \notin Packages \cup Urls /\ Typed \subseteq Urls

Exists(p)   == img[p] # NoUrl
FileOf(u)   == IF u = NoUrl THEN {} ELSE {u.file}  \* stripQuery
Shown       == {img[p].file : p \in {q \in Packages : Exists(q)}}

Ops    == {"single", "all", "remove", "cleanup", "settings"}
Stages == {"defaults", "count", "drop", "delete", "upload", "save", "list", "sweep"}

(* A request: the package it was made for, the image it read, the files it *)
(* must not delete, the files it has to delete, the URL it got, the rows   *)
(* it has to write, whether one of them has failed, and the packages that  *)
(* have got another image since it began.                                  *)
Request == [at : Stages, op : Ops, pkg : Packages \cup {NoUrl}, prev : Urls \cup {NoUrl}, ext : Exts,
            spare : SUBSET CatalogFiles, doomed : SUBSET CatalogFiles, url : Urls \cup {NoUrl},
            rows : SUBSET Packages, ok : BOOLEAN, fresh : SUBSET Packages]
NoRequest == [at |-> "idle"]

CatalogTypeOK ==
  /\ img \in [Packages -> Urls \cup {NoUrl}]
  /\ settings \in Urls \cup {NoUrl}
  /\ files \in SUBSET CatalogFiles
  /\ version \in 0..MaxVersion /\ begun \in 0..MaxRequests
  /\ request \in [Places -> Request \cup {NoRequest}]

(* Packages show the default of the product until they get an image. *)
CatalogInit ==
  /\ img \in [Packages -> {DefaultUrl, NoUrl}]
  /\ settings = NoUrl
  /\ files = {Default, Elsewhere}
  /\ version = 0 /\ begun = 0
  /\ request = [r \in Places |-> NoRequest]

Busy(r) == request[r] # NoRequest

----------------------------------------------------------------------------
(* Rows written in one step. *)

(* p gets another image, which the open requests that decide what to sweep *)
(* may have missed, but for the one in w that writes it.                   *)
Noted(rs, p, w) ==
  [r \in Places |-> IF rs[r] # NoRequest /\ r \notin w /\ rs[r].op \in {"all", "cleanup", "remove"}
                      THEN [rs[r] EXCEPT !.fresh = @ \cup {p}] ELSE rs[r]]

(* The merged image that findAll, findOne and findBigoProduct answer, which *)
(* the administrator's forms start from.                                   *)
CustomImage == IF settings # NoUrl THEN settings ELSE DefaultUrl

(* create, and update with an image: the one the product shows, or any     *)
(* other, be it that of another package; nothing checks the URL.           *)
SetPackage(p) ==
  /\ \E u \in Typed \cup {DefaultUrl, CustomImage} : img' = [img EXCEPT ![p] = u]
  /\ request' = Noted(request, p, {})
  /\ UNCHANGED <<settings, files, version, begun>>

(* createStoreProductSettings and updateStoreProductSettings, with the     *)
(* image the form was filled with or any other; removeStoreProductSettings. *)
PatchSettings  == settings' \in Typed \cup {CustomImage}
                    /\ UNCHANGED <<img, files, version, begun, request>>
RemoveSettings == settings' = NoUrl /\ UNCHANGED <<img, files, version, begun, request>>

----------------------------------------------------------------------------
(* Requests: what each reads first. *)

RowsOf(o, p) == CASE o = "all"    -> {q \in Packages : Exists(q)}
                  [] o = "single" -> {p}
                  [] OTHER        -> {}

Start(r, s, o, p, u, e) ==
  /\ request[r] = NoRequest /\ begun < MaxRequests
  /\ begun' = begun + 1
  /\ request' = [request EXCEPT ![r] =
       [at |-> s, op |-> o, pkg |-> p, prev |-> u, ext |-> e, spare |-> {},
        doomed |-> {}, url |-> NoUrl, rows |-> RowsOf(o, p), ok |-> TRUE, fresh |-> {}]]
  /\ UNCHANGED <<img, settings, files, version>>

GoTo(r, s) == request' = [request EXCEPT ![r].at = s]
Close(r)   == request' = [request EXCEPT ![r] = NoRequest]

UploadCardImage(r) == \E p \in Packages, e \in Exts :
  /\ Exists(p)
  /\ \/ Start(r, "defaults", "single", p, img[p], e)
     \/ Start(r, "upload", "all", NoUrl, NoUrl, e)

Remove(r) == \E p \in Packages :
  Exists(p) /\ Start(r, "defaults", "remove", p, img[p], AnyExt)

CleanupPackageImages(r) == Start(r, "defaults", "cleanup", NoUrl, NoUrl, AnyExt)

UpdateStoreProductImage(r) == \E e \in Exts :
  Start(r, IF settings = NoUrl THEN "upload" ELSE "delete", "settings", NoUrl, settings, e)

----------------------------------------------------------------------------
(* Steps of an open request. *)

At(r, s) == request[r].at = s

(* What must not be deleted: the defaults, and for the cleanup the images  *)
(* of all packages (SparesDefaults forgets these, SparesNothing both).     *)
SparesNothing(r)  == {}
SparesDefaults(r) == {Default} \cup FileOf(settings)
Spares(r) == {Default} \cup FileOf(settings)
               \cup (IF request[r].op = "cleanup" THEN Shown ELSE {})

AfterDefaults == [single |-> "delete", remove |-> "count", cleanup |-> "list"]

ReadDefaults(r) ==
  /\ At(r, "defaults")
  /\ request' = [request EXCEPT ![r].spare = Spares(r), ![r].at = AfterDefaults[request[r].op]]
  /\ UNCHANGED <<img, settings, files, version, begun>>

(* The previous image, before the new one is uploaded.  Nobody counts who  *)
(* else refers to it.  An error is logged and forgotten.                   *)
DeletePrevious(r) ==
  /\ At(r, "delete")
  /\ files' \in {files, files \ (FileOf(request[r].prev) \ request[r].spare)}
  /\ request' = [request EXCEPT ![r].at = "upload", ![r].prev = NoUrl, ![r].spare = {}]
  /\ UNCHANGED <<img, settings, version, begun>>

(* Where the upload goes (TargetScoped: always in the folder of a package). *)
TargetScoped(r) == IF request[r].op = "settings" THEN File("card", NoUrl, request[r].ext)
                   ELSE File("package", request[r].pkg, request[r].ext)
Target(r) == CASE request[r].op = "single"   -> File("package", request[r].pkg, request[r].ext)
               [] request[r].op = "all"      -> File("shared", NoUrl, request[r].ext)
               [] request[r].op = "settings" -> File("card", NoUrl, request[r].ext)

Upload(r) ==
  /\ At(r, "upload")
  /\ version < MaxVersion
  /\ version' = version + 1
  /\ files' = files \cup {Target(r)}
  /\ request' = [request EXCEPT ![r].url = [file |-> Target(r), v |-> version'], ![r].at = "save"]
  /\ UNCHANGED <<img, settings, begun>>

(* An upload that fails ends the request, whatever has been deleted. *)
CardUploadFails(r) ==
  /\ At(r, "upload") /\ Close(r)
  /\ UNCHANGED <<img, settings, files, version, begun>>

(* One of the updates sent together; it fails when the row is gone. *)
SaveRow(r) ==
  /\ At(r, "save")
  /\ \E p \in request[r].rows :
       LET left == [request EXCEPT ![r].rows = @ \ {p}, ![r].ok = @ /\ Exists(p)]
       IN  IF Exists(p)
           THEN img' = [img EXCEPT ![p] = request[r].url] /\ request' = Noted(left, p, {r})
           ELSE request' = left /\ UNCHANGED img
  /\ UNCHANGED <<settings, files, version, begun>>

SaveSettings(r) ==
  /\ At(r, "save") /\ request[r].op = "settings"
  /\ settings' = request[r].url
  /\ Close(r)
  /\ UNCHANGED <<img, files, version, begun>>

Saved(r) ==
  /\ At(r, "save") /\ request[r].op # "settings" /\ request[r].rows = {}
  /\ IF request[r].op = "all" /\ request[r].ok THEN GoTo(r, "list") ELSE Close(r)
  /\ UNCHANGED <<img, settings, files, version, begun>>

(* The files in the folders of the packages; the folder itself is the only *)
(* one listed.  A failed list ends the request.                            *)
ListFiles(r) ==
  /\ At(r, "list")
  /\ request' \in {[request EXCEPT ![r].at = "sweep",
                 ![r].doomed = {f \in files : f.folder = "package"} \ request[r].spare,
                 ![r].spare = {}],
               [request EXCEPT ![r] = NoRequest]}
  /\ UNCHANGED <<img, settings, files, version, begun>>

(* The rows that hold the image of a package about to be removed, compared *)
(* with the version.                                                       *)
Others(r) == {q \in Packages \ {request[r].pkg} : img[q] = request[r].prev}

(* Only a file of the package or a shared one, not a default, and unused.  *)
CountOthers(r) ==
  /\ At(r, "count")
  /\ request' = [request EXCEPT ![r].at = "drop", ![r].spare = {},
       ![r].doomed = {f \in FileOf(request[r].prev) \ request[r].spare :
                        Others(r) = {} /\ (f.of = request[r].pkg \/ f.folder = "shared")}]
  /\ UNCHANGED <<img, settings, files, version, begun>>

DropRow(r) ==
  /\ At(r, "drop")
  /\ IF Exists(request[r].pkg)
     THEN img' = [img EXCEPT ![request[r].pkg] = NoUrl] /\ GoTo(r, "sweep")
     ELSE UNCHANGED img /\ Close(r)
  /\ UNCHANGED <<settings, files, version, begun>>

(* One deletion after the other; errors are logged and forgotten. *)
Sweep(r) ==
  /\ At(r, "sweep")
  /\ \/ \E f \in request[r].doomed :
          /\ files' \in {files, files \ {f}}
          /\ request' = [request EXCEPT ![r].doomed = @ \ {f}]
     \/ request[r].doomed = {} /\ Close(r) /\ UNCHANGED files
  /\ UNCHANGED <<img, settings, version, begun>>

CatalogRestart ==
  /\ \E r \in Places : Busy(r)
  /\ request' = [r \in Places |-> NoRequest]
  /\ UNCHANGED <<img, settings, files, version, begun>>

----------------------------------------------------------------------------
BeginRequest(r) ==
  \/ UploadCardImage(r) \/ Remove(r)
  \/ CleanupPackageImages(r) \/ UpdateStoreProductImage(r)

CatalogStep(r) ==
  \/ ReadDefaults(r) \/ DeletePrevious(r)
  \/ Upload(r) \/ CardUploadFails(r)
  \/ SaveRow(r) \/ SaveSettings(r) \/ Saved(r)
  \/ ListFiles(r) \/ CountOthers(r) \/ DropRow(r) \/ Sweep(r)

CatalogNext ==
  \/ \E r \in Places : BeginRequest(r) \/ CatalogStep(r)
  \/ \E p \in Packages : SetPackage(p)
  \/ PatchSettings \/ RemoveSettings
  \/ CatalogRestart

CatalogSpec == CatalogInit /\ [][CatalogNext]_catalogVars

----------------------------------------------------------------------------
(* Properties *)

(* The default image of the product, which all stores show, is deleted by  *)
(* no request about packages, whatever overlaps; only the replacement of a *)
(* customization that had been saved with the default deletes it.          *)
DefaultSurvives ==
  [][(Default \in files \ files') =>
       \E r \in Places : /\ At(r, "delete") /\ request[r].op = "settings"
                         /\ request[r].prev.file = Default]_catalogVars

(* Request r may delete the file that package p shows: p got it after r    *)
(* began; r replaces an image, of a package or of the customization, that  *)
(* p shows as well; r removes a package that shows the same file under the *)
(* URL of another version.                                                 *)
MayBreak(r, p) ==
  LET q == request[r] IN
  \/ p \in q.fresh
  \/ q.op \in {"single", "settings"} /\ img[p].file = q.prev.file
  \/ q.op = "remove" /\ img[p].file = q.prev.file /\ img[p].v # q.prev.v

(* A file that a package shows is deleted in those cases only: the cleanup *)
(* and the removal of other packages spare it, and so does an update of    *)
(* all packages, whatever overlaps and whatever URLs have been entered.    *)
ImageLossHasCause ==
  [][\A p \in Packages :
       Exists(p) /\ img'[p] = img[p] /\ img[p].file \in files \ files'
         => \E r \in Places : request'[r] # request[r] /\ MayBreak(r, p)]_catalogVars
=============================================================================
