SPECIFICATION TemplateSpec
CONSTANTS
  a = a
  b = b
  c = c
  reserved = reserved
  None = None
  Names <- NamesDef
  Reserved <- ReservedDef
SYMMETRY Symmetry
INVARIANT
  ShownIsNearest
PROPERTY
  SiteTemplatesSettled
CHECK_DEADLOCK FALSE
