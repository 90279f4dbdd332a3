CONSTANTS
  Publishers = {p1, p2, p3, p4}
  NoFile = NoFile
SYMMETRY MCSymmetry
SPECIFICATION StoreSpec
INVARIANTS ReceiptStands PublishersReceiptStands
CHECK_DEADLOCK FALSE
