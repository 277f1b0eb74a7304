SPECIFICATION Spec
CONSTANTS
  Titles <- TwoTitles
  Mentions <- ThreeMentions
  ListLen = 3
  RemedyLen = 2
  DepsLen = 2
  RemedyDepsLen = 1
  MaxPlans = 2
  IDText <- HexTexts
INVARIANTS
  Acyclic
  OnlyCyclesBroken
PROPERTIES
  SecondPassKeepsGraph
