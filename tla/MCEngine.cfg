\* Three overlapping ticks over one market.
SPECIFICATION Spec
CONSTANTS
  Markets = {m1}
  Ticks = {t1, t2, t3}
  MaxNet = 1
  MaxGross = 2
  MaxOrders = 1
  Window = 2
  Cooldown = 1
  Held <- MCHeld
  MaxSize = 2
  MaxTime = 2
  Unit = 10
  Grid = 1
  MarketViews <- MCMarketViews
  Quotes <- MCQuotes
  Beliefs <- MCBeliefs
  Bankrolls <- MCBankrolls
  Risks <- MCRisks
INVARIANTS
  OneEntryPerCrossing
  CapHeldWhenKnown
  RateHeld
  SizerAgreesWithGuard
PROPERTY
  ImplementsHaltSwitch
CHECK_DEADLOCK FALSE
