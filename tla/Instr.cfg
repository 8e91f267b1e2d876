SPECIFICATION InstrSpec
CONSTANT XLEN = 8
INVARIANTS
  DecodesRight
  ProductsRight
  DivisionsRight
  ShiftsRight
  OrderRight
