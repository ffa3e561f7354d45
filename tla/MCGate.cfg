CONSTANTS
  MAX_NESTING = 2
  MAX_DEPTH = 7
  MAX_SAFE_DIGITS = 2
  MAX_HOST_DIGITS = 3
  MAX_NUMERIC_DIGITS = 3
  Corpora <- MCCorpora
  Corpus <- MCCorpus
  Declared <- MCDeclared
  adopted_at <- Epoch
  default_outcome = "BLOCK"
  Parse <- parse
  ParseExpression <- parse_expression
  EvidenceIds <- _collect_evidence_ids
  EvaluateNode <- _evaluate_node
  Recorded = {"records"}
  Clock <- MCClock
  TTL = 5
SPECIFICATION ReceiptSpec
INVARIANTS
  ParsesTheGrammar
  LosingEvidenceHolds
  EveryGapIsNamed
  ComparesExactly
  GlobIsExact
  EveryRecordReplays
  ReplayedIsDecided
CHECK_DEADLOCK FALSE
