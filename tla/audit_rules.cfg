SPECIFICATION Spec
CONSTANTS
  TitleLength = {0, 1, 2, 3}
  Slug <- FewSlugs
  DescriptionLength = {1, 2, 3}
  NoDescription = none
  BlockKind = {"hero", "cta", "heading_body", "video"}
  MaxSections = 2
  MaxBlocks = 2
  AuditThresholds <- BothThresholds
  Critique <- AgainstVideos
INVARIANT BlocksExactlyBrokenPages
PROPERTY MoreBlocksNoNewFinding
