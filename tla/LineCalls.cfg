CONSTANTS
  Modems = {"u64", "tcpser"}
  TX_STALL_LIMIT = 3
  MaxCalls = 2
  MaxText = 2
SPECIFICATION FairSpec
INVARIANTS TypeOK CallerIsHeard FreshBytes
PROPERTIES LineAnswers LineRecovers DropNoticed
