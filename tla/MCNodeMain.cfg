\* Up to three lidars, two interrupts at any moment.
CONSTANTS
  MaxLidars = 3
  MaxInterrupts = 2
SPECIFICATION FairSpec
INVARIANTS MainTypeOK AllOrNone QuietAtEnd
PROPERTIES EndsWhenAsked
