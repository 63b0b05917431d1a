\* Two packages, two requests, two uploads; any package may be given the image of the other.
SPECIFICATION CatalogSpec
CONSTANTS
  Packages = {p1, p2}
  Places = {r1, r2}
  Exts = {png}
  MaxVersion = 2
  MaxRequests = 2
  NoUrl = NoUrl
  Typed <- PackageUrls
SYMMETRY Symmetry
INVARIANTS
  CatalogTypeOK
PROPERTIES
  DefaultSurvives
  ImageLossHasCause
