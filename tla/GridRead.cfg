SPECIFICATION Spec
CONSTANTS
  MaxBreaks = 2
INVARIANTS
  BarriersSuffice
  AnswersReadTheirOwn
  CachesTrustworthy
  SharedGridStaysReadable
