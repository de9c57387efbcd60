SPECIFICATION Spec
CONSTANTS
  DeviceNumber = 1
  NumCables = 2
  RingCap = 1
  Workers = {1, 2, 3}
  MaxIsoWait = 250
  Hosts <- TwoHosts
  Events = {}
  MaxUnlinks = 1
INVARIANTS NotFoundMeansAnswered NeverEarly PendingIsLive InFlightIsUnlinkable
  RecordedIsPlayed AnswersTellTaken
PROPERTIES ImplementsService
