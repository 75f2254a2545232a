SPECIFICATION NormalizeSpec
CONSTANT
  MaxLen = 6
INVARIANTS
  SpanIsBalanced
  NoSpanMissed
