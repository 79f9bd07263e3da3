CONSTANTS
  Names <- MCNames
  MaxElements = 5

SPECIFICATION Spec

CHECK_DEADLOCK FALSE
INVARIANT TypeOK
INVARIANT PolicyListingBalanced
