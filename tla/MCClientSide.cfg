SPECIFICATION ClientSpec
CONSTANTS
  WordBytes = 2
  ByteBits = 4
  Signatures <- NarrowSignatures
  ArgLists <- MCArgLists
  Transfers = {t1, t2}
  JettonRequests <- MCJettonRequests
  Wallets <- MCWallets
  BorshBits = 1
  AlphabetSize = 3
  KeyLength = 3
  Discriminator <- MCDiscriminator
  Jobs <- MCJobs
  AnchorTypes <- MCAnchorTypes
  AnchorArgs <- MCAnchorArgs
INVARIANTS DecodesBack AcceptsValues ReadsTyped SendsWhatIsSet AmountExact BorshReadsBack RightWallet
CHECK_DEADLOCK FALSE
