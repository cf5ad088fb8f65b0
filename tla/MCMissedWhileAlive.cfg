\* One backend instance, and an event appended between two reads of the stream.
CONSTANTS
  Instances = {i1}
  SubIds = {1}
  BusSubs = {1}
  BatchSize = 2
  MaxPublished = 3
  MaxEvents = 3
SPECIFICATION LiveSpec
INVARIANT NoMessageMissedWhileAlive
