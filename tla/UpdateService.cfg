SPECIFICATION Spec
CONSTANTS
  Clients = {c1, c2}
  Background = Background
  NoTask = NoTask
  MaxVersion = 2
  MaxDays = 2
INVARIANTS
  OfferIsTrue
  InstallsWhatIsShown
  RestartForgetsOnlyTheOffer
PROPERTIES
  AutomaticCheckIsRare
  OperationsEnd
  UpdateGoesOn
