SPECIFICATION Spec
CONSTANTS
  t0 = t0
  t1 = t1
  zero = zero
  ra = ra
  rb = rb
  p0 = p0
  pa = pa
  pb = pb
  q0 = q0
  qa = qa
  qb = qb
  s1 = s1
  s2 = s2
  Threads <- MCThreads
  ArchRegs <- MCArchRegs
  PhysRegs <- MCPhysRegs
  zeroReg = zero
  zeroPhys = p0
  InitialMap <- MCInitialMap
  Operands <- MCOperands
  renameWidth = 2
  commitWidth = 2
  MaxInsts = 3
SYMMETRY Spares
CHECK_DEADLOCK FALSE
INVARIANTS
  EveryRegisterOnce
  NeverFreedTwice
  OperandsStayLive
  ArchStateIsSafe
  RollsBackExactly
