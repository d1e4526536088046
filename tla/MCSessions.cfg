CONSTANTS
  Nio = {n1, n2}
  Timer = {t1, t2}
  Fd = {f1, f2, f3}
  Id = {i1, i2}
  MaxClient = 2
SPECIFICATION FairSpec
INVARIANTS IInv OneTimerEach TableAgrees DescriptorsAgree HeardIsKept
PROPERTIES ImplementsRegistry SilentEnds
