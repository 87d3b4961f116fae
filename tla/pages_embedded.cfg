SPECIFICATION ReadersSpec
CONSTANTS
  c1 = c1  c2 = c2
  s1 = s1  s2 = s2
  i1 = i1  i2 = i2
  Client = {c1, c2}
  PageId = {i1, i2}
  Status = {"draft", "published"}
  Absent = absent  Empty = empty  Torn = torn  Site = site
  NoId = no_id  NoSlug = no_slug  NoPage = no_page
  SiteToml = site_toml
  Slug = {s1, s2}
  MaxBody = 2
  Uses <- SharedAndRead
SYMMETRY Interchangeable
INVARIANTS TypeOK IdsUnique PublishedStays ReadersTypeOK ReadIdsUnique
PROPERTIES SteadyFilesAreRead ListingFailsBesideWrites
CHECK_DEADLOCK FALSE
