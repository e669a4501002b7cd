\* Every table of up to three of eight overlapping routes.
CONSTANTS
  Candidates <- MCCandidates
  Requests <- MCRequests
  StartsWith <- MCStartsWith
  Containing <- MCContaining
  Language <- MCLanguage
  Upstreams = {"u1", "u2"}
  None = None
  MaxRoutes = 3
SPECIFICATION Spec
INVARIANT BestMatchWins
PROPERTY ChangesAreLocal
